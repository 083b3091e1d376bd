------------------------------ MODULE Network ------------------------------
(***************************************************************************)
(* The DHCP client and the HTTP client together.  All they share is the    *)
(* interface: the HTTP client sleeps for ten seconds in the hope that an   *)
(* address is there when it wakes up, and one may come later, or go away   *)
(* in the middle of the transfer.                                          *)
(***************************************************************************)
EXTENDS Integers, Sequences

CONSTANTS
  Slot, MaxChanges,           \* of DhcpClient
  REQUEST, RESPONSE, MaxPage  \* of HttpGet

ASSUME NetworkAssumption ==
  /\ REQUEST \in Nat \ {0} /\ RESPONSE \in Nat \ {0, 1}
  /\ MaxPage \in Nat /\ MaxChanges \in Nat

VARIABLES dhcp, started, callback, unicast, events, changes, logged

\* peer is the server the HTTP client talks to, served the page of that server.
VARIABLES http, sock, response, asked, pageLeft, peer, served, cut, printed

dhcpVars == <<dhcp, started, callback, unicast, events, changes, logged>>
httpVars == <<http, sock, response, asked, pageLeft, peer, served, cut, printed>>

online == \E i \in Slot : unicast[i] # "none"

Dhcp == INSTANCE DhcpClient
Http == INSTANCE HttpGet WITH server <- peer, page <- served

NetInit == Dhcp!Init /\ Http!Init

DhcpStep == Dhcp!Next /\ UNCHANGED httpVars
HttpStep == Http!Next /\ UNCHANGED dhcpVars

\* Both threads and the stack are scheduled; the server answers or gives up.
NetSpec ==
  /\ NetInit
  /\ [][DhcpStep \/ HttpStep]_<<dhcpVars, httpVars>>
  /\ WF_dhcpVars(Dhcp!net_mgmt_add_event_callback \/ Dhcp!net_dhcpv4_start)
  /\ WF_dhcpVars(Dhcp!Dispatch)
  /\ WF_httpVars(Http!thread_http_get)
  /\ WF_httpVars(Http!ServerEnds)

-----------------------------------------------------------------------------

\* The page is printed as it was received (see HttpGet), and every variable of
\* the DHCP client has its type.
PrintedFaithful == Dhcp!TypeOK /\ Http!PrintedFaithful

\* The HTTP client ends, with or without an address (see HttpGet).
EventuallyEnds == Http!EventuallyEnds

\* An address that is not logged yet still has its event (see DhcpClient).
ReportPending == Dhcp!ReportPending

\* An address that the DHCP client binds is logged (see DhcpClient).
AddressReported == Dhcp!AddressReported
=============================================================================
