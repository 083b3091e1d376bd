\* Two addresses, up to three changes of them; a page of up to four bytes
\* through a buffer of three.
CONSTANTS
  Slot = {s1, s2}
  MaxChanges = 3
  REQUEST = 2
  RESPONSE = 3
  MaxPage = 4
SPECIFICATION NetSpec
INVARIANTS PrintedFaithful ReportPending
PROPERTIES  AddressReported
CHECK_DEADLOCK FALSE
