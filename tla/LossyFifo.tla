------------------------------ MODULE LossyFifo ------------------------------
(***************************************************************************)
(* What every message path of the firmware promises: a message that is     *)
(* offered is either queued or dropped at once, and queued messages are    *)
(* delivered once each, in the order in which they were offered.  A        *)
(* message is identified by its position among the offered ones.           *)
(***************************************************************************)
EXTENDS Naturals, Sequences

VARIABLES
  offered,    \* number of messages offered so far
  queue,      \* the messages accepted and not delivered yet, oldest first
  delivered   \* the messages delivered, in order of delivery

vars == <<offered, queue, delivered>>

Init ==
  /\ offered = 0
  /\ queue = <<>>
  /\ delivered = <<>>

\* The next message is offered, and is accepted or dropped.
Offer ==
  /\ offered' = offered + 1
  /\ queue' \in {queue, Append(queue, offered + 1)}
  /\ UNCHANGED delivered

\* The oldest accepted message is delivered.
Deliver ==
  /\ queue # <<>>
  /\ queue' = Tail(queue)
  /\ delivered' = Append(delivered, Head(queue))
  /\ UNCHANGED offered

Next == Offer \/ Deliver

Spec == Init /\ [][Next]_vars

-----------------------------------------------------------------------------

Increasing(s) == \A i, j \in 1..Len(s) : i < j => s[i] < s[j]

\* No message is delivered twice, before an older one, or without having
\* been offered.
InOrder ==
  /\ Increasing(delivered)
  /\ \A i \in 1..Len(delivered) : delivered[i] \in 1..offered
=============================================================================
