----------------------------- MODULE LossyStream -----------------------------
(***************************************************************************)
(* What the USB byte paths of the firmware promise: bytes come and go in   *)
(* chunks; of a chunk that arrives, a first part is queued and the rest is *)
(* dropped; of a chunk that is taken out of the queue, a first part is     *)
(* delivered and the rest is lost.  A byte is identified by its position   *)
(* among the offered ones.                                                 *)
(***************************************************************************)
EXTENDS Integers, Sequences

VARIABLES
  offered,    \* number of bytes offered so far
  queue,      \* the bytes accepted and not taken out yet, oldest first
  delivered   \* the bytes delivered, in order of delivery

vars == <<offered, queue, delivered>>

Init ==
  /\ offered = 0
  /\ queue = <<>>
  /\ delivered = <<>>

\* A chunk is offered, and the first k bytes of it are accepted.
Offer ==
  /\ offered' \in Nat /\ offered' > offered
  /\ \E k \in 0..offered' - offered :
       queue' = queue \o [i \in 1..k |-> offered + i]
  /\ UNCHANGED delivered

\* A chunk is taken out, and the first k bytes of it are delivered.
Deliver ==
  /\ \E n \in 1..Len(queue) :
       /\ queue' = SubSeq(queue, n + 1, Len(queue))
       /\ \E k \in 0..n : delivered' = delivered \o SubSeq(queue, 1, k)
  /\ UNCHANGED offered

Next == Offer \/ Deliver

Spec == Init /\ [][Next]_vars

-----------------------------------------------------------------------------

Increasing(s) == \A i, j \in 1..Len(s) : i < j => s[i] < s[j]

\* No byte is delivered twice, before an older one, or without having been
\* offered.
InOrder ==
  /\ Increasing(delivered)
  /\ \A i \in 1..Len(delivered) : delivered[i] \in 1..offered
=============================================================================
