----------------------- MODULE CdcAcmCompositeProofs -----------------------
(***************************************************************************)
(* Theorems about the bridge between two USB CDC ACM ports, for buffers of *)
(* any size.                                                               *)
(***************************************************************************)
EXTENDS CdcAcmComposite, CommonLemmas, TLAPS

-----------------------------------------------------------------------------
(* Ports and chunks.                                                       *)

LEMMA Sizes ==
  /\ RING_BUF_SIZE \in Nat \ {0} /\ CHUNK \in Nat \ {0}
  /\ TX_SPACE \in Nat \ {0} /\ RX_FIFO_SIZE \in Nat \ {0}
BY SizesAssumption

\* Each port is the other of the other one.
LEMMA OtherPort ==
  ASSUME NEW d \in Port
  PROVE  /\ other(d) \in Port /\ other(d) # d /\ other(other(d)) = d
         /\ \A e \in Port : e # d => e = other(d)
BY DEF Port, other

\* What one turn of the handler reads of what waits, and what of it the ring
\* buffer takes.
Read(d) == min(rx_fifo[d], CHUNK)
Taken(d) == ring_buf_put(d, Read(d))
New(d) == [i \in 1..Taken(d) |-> received[d] + i]

LEMMA RxChunk ==
  ASSUME TypeOK, NEW d \in Port
  PROVE  /\ Read(d) \in 0..rx_fifo[d]
         /\ Taken(d) \in 0..Read(d)
         /\ Len(rb[d]) + Taken(d) <= RING_BUF_SIZE
         /\ New(d) \in Seq(Nat) /\ Len(New(d)) = Taken(d)
<1>1. /\ rx_fifo[d] \in Nat /\ received[d] \in Nat
      /\ Len(rb[d]) \in Nat /\ Len(rb[d]) <= RING_BUF_SIZE
  BY Sizes DEF TypeOK
<1>2. Read(d) \in 0..rx_fifo[d]
  BY <1>1, Sizes DEF Read, min
<1>3. Taken(d) \in 0..Read(d) /\ Len(rb[d]) + Taken(d) <= RING_BUF_SIZE
  BY <1>1, <1>2, Sizes DEF Taken, ring_buf_put, min
<1>4. New(d) \in Seq(Nat) /\ Len(New(d)) = Taken(d)
  BY <1>1, <1>3 DEF New
<1>5. QED
  BY <1>2, <1>3, <1>4

\* How many bytes the handler takes out of s, and how many the driver takes.
Out(s) == min(Len(s), CHUNK)
Filled(s) == min(Out(s), TX_SPACE)

LEMMA TxChunk ==
  ASSUME NEW s \in Seq(Nat)
  PROVE  /\ Out(s) \in 0..Len(s) /\ Out(s) <= CHUNK
         /\ Filled(s) \in 0..Out(s)
         /\ SubSeq(s, Out(s) + 1, Len(s)) \in Seq(Nat)
         /\ Len(SubSeq(s, Out(s) + 1, Len(s))) = Len(s) - Out(s)
         /\ SubSeq(s, 1, Filled(s)) \in Seq(Nat)
<1>1. Out(s) \in 0..Len(s) /\ Out(s) <= CHUNK
  BY Sizes DEF Out, min
<1>2. Filled(s) \in 0..Out(s)
  BY <1>1, Sizes DEF Filled, min
<1>3. QED
  BY <1>1, <1>2

\* A call of threadA, and its place among the calls.
LEMMA CallStep ==
  ASSUME NEW call, Does(call)
  PROVE  /\ thread \in 0..6 /\ thread' = thread + 1 /\ thread' \in -1..7
         /\ Calls[thread + 1] = call
BY DEF Does

LEMMA CallOrder ==
  ASSUME NEW call, Does(call)
  PROVE  /\ call = "link" => thread = 3 /\ thread' = 4
         /\ call = "callbacks" => thread = 4 /\ thread' = 5
         /\ call \notin {"link", "callbacks"} =>
              thread \in {0, 1, 2, 5, 6} /\ thread' = thread + 1
<1>1. /\ thread \in 0..6 /\ thread' = thread + 1
      /\ Calls[thread + 1] = call
  BY CallStep
<1>2. ASSUME NEW n \in 0..6
      PROVE  /\ Calls[n + 1] = "link" => n = 3
             /\ Calls[n + 1] = "callbacks" => n = 4
             /\ Calls[n + 1] \notin {"link", "callbacks"} => n \in {0, 1, 2, 5, 6}
  <2>1. n \in {0, 1, 2, 3, 4, 5, 6}
    OBVIOUS
  <2>2. /\ Calls[1] = "usb_enable" /\ Calls[2] = "DTR 0" /\ Calls[3] = "DTR 1"
        /\ Calls[4] = "link" /\ Calls[5] = "callbacks"
        /\ Calls[6] = "rx 0" /\ Calls[7] = "rx 1"
    BY DEF Calls
  <2>3. CASE n = 3
    <3>1. n + 1 = 4
      BY <2>3
    <3>2. QED
      BY <2>2, <2>3, <3>1
  <2>4. CASE n = 4
    <3>1. n + 1 = 5
      BY <2>4
    <3>2. QED
      BY <2>2, <2>4, <3>1
  <2>5. CASE n \notin {3, 4}
    <3>1. n \in {0, 1, 2, 5, 6} /\ n + 1 \in {1, 2, 3, 6, 7}
      BY <2>1, <2>5
    <3>2. \A m \in {1, 2, 3, 6, 7} : Calls[m] # "link" /\ Calls[m] # "callbacks"
      BY <2>2
    <3>3. QED
      BY <3>1, <3>2
  <2>6. QED
    BY <2>3, <2>4, <2>5
<1>3. QED
  BY <1>1, <1>2

\* The parts of Rx.
LEMMA RxStep ==
  ASSUME Rx
  PROVE  /\ active # -1 /\ handler' = "tx"
         /\ rx_fifo' = [rx_fifo EXCEPT ![active] = @ - Read(active)]
         /\ received' = [received EXCEPT ![active] = @ + Read(active)]
         /\ rb' = [rb EXCEPT ![active] = @ \o New(active)]
         /\ accepted' = [accepted EXCEPT ![active] = @ \o New(active)]
         /\ \/ Taken(active) > 0 /\ tx_irq' = [tx_irq EXCEPT ![other(active)] = TRUE]
            \/ ~(Taken(active) > 0) /\ tx_irq' = tx_irq
         /\ UNCHANGED <<setup, active, dtr, tx_ready, delivered>>
BY DEF Rx, Read, Taken, New, TxEnable

\* The three ways through Tx.
TxIdle ==
  /\ active # -1 /\ handler' = "loop"
  /\ UNCHANGED <<setup, active, rb, tx_irq, ports, history>>

TxDisable ==
  /\ active # -1 /\ handler' = "loop"
  /\ Out(rb[other(active)]) = 0
  /\ tx_irq' = [tx_irq EXCEPT ![active] = FALSE]
  /\ UNCHANGED <<setup, active, rb, ports, history>>

TxFill ==
  LET from == rb[other(active)]
  IN /\ active # -1 /\ handler' = "loop"
     /\ tx_irq[active]
     /\ rb' = [rb EXCEPT ![other(active)] = SubSeq(from, Out(from) + 1, Len(from))]
     /\ delivered' = [delivered EXCEPT ![active] = @ \o SubSeq(from, 1, Filled(from))]
     /\ tx_ready' = [tx_ready EXCEPT ![active] = FALSE]
     /\ UNCHANGED <<setup, active, dtr, rx_fifo, tx_irq, received, accepted>>

LEMMA TxStep == Tx => TxIdle \/ TxDisable \/ TxFill
BY DEF Tx, TxIdle, TxDisable, TxFill, Out, Filled, Source, uart_irq_tx_ready, ports,
       history

-----------------------------------------------------------------------------
(* Type correctness.                                                       *)

THEOREM TypeCorrect == Spec => []TypeOK
<1>1. Init => TypeOK
  <2> SUFFICES ASSUME Init PROVE TypeOK
    OBVIOUS
  <2>1. /\ rx_irq \in [Port -> BOOLEAN] /\ tx_irq \in [Port -> BOOLEAN]
        /\ dtr \in [Port -> BOOLEAN] /\ tx_ready \in [Port -> BOOLEAN]
    BY DEF Init
  <2>2. thread \in -1..7
    BY DEF Init
  <2>3. rx_fifo \in [Port -> 0..RX_FIFO_SIZE] /\ received \in [Port -> Nat]
    BY Sizes DEF Init
  <2>4. /\ rb \in [Port -> Seq(Nat)] /\ \A d \in Port : Len(rb[d]) <= RING_BUF_SIZE
        /\ accepted \in [Port -> Seq(Nat)] /\ delivered \in [Port -> Seq(Nat)]
    BY Sizes DEF Init
  <2>5. QED
    BY <2>1, <2>2, <2>3, <2>4 DEF Init, TypeOK
<1>2. TypeOK /\ [Next]_vars => TypeOK'
  <2> SUFFICES ASSUME TypeOK, [Next]_vars
               PROVE  TypeOK'
    OBVIOUS
  <2> USE Sizes
  <2>1. CASE threadA
    <3>1. CASE GivesUp
      BY <3>1 DEF GivesUp, TypeOK, ports, history
    <3>2. CASE UsbEnable
      BY <3>2 DEF UsbEnable, Does, TypeOK, ports, history
    <3>3. CASE WaitForDtr
      <4>1. Does("DTR 0") \/ Does("DTR 1")
        BY <3>3 DEF WaitForDtr
      <4>2. thread' \in -1..7
        BY <4>1, CallStep
      <4>3. QED
        BY <3>3, <4>2 DEF WaitForDtr, TypeOK, ports, history
    <3>4. CASE Link
      BY <3>4 DEF Link, Does, TypeOK, ports, history
    <3>5. CASE Install
      BY <3>5 DEF Install, Does, TypeOK, ports, history
    <3>6. CASE RxEnable
      <4>1. Does("rx 0") \/ Does("rx 1")
        BY <3>6 DEF RxEnable
      <4>2. thread' \in -1..7
        BY <4>1, CallStep
      <4>3. rx_irq' \in [Port -> BOOLEAN]
        BY <3>6 DEF RxEnable, TypeOK
      <4>4. QED
        BY <3>6, <4>2, <4>3 DEF RxEnable, TypeOK, ports, history
    <3>7. QED
      BY <2>1, <3>1, <3>2, <3>3, <3>4, <3>5, <3>6 DEF threadA
  <2>2. CASE Called \/ Loop
    BY <2>2 DEF Called, Loop, TypeOK, setup, ports, history
  <2>3. CASE Rx
    <3> DEFINE d == active
    <3>1. d \in Port
      BY <2>3 DEF Rx, TypeOK
    <3>2. /\ Read(d) \in 0..rx_fifo[d] /\ Taken(d) \in 0..Read(d)
          /\ Len(rb[d]) + Taken(d) <= RING_BUF_SIZE
          /\ New(d) \in Seq(Nat) /\ Len(New(d)) = Taken(d)
      BY <3>1, RxChunk
    <3>3. rx_fifo' \in [Port -> 0..RX_FIFO_SIZE] /\ received' \in [Port -> Nat]
      <4>1. rx_fifo[d] \in 0..RX_FIFO_SIZE /\ received[d] \in Nat
        BY <3>1 DEF TypeOK
      <4>2. rx_fifo[d] - Read(d) \in 0..RX_FIFO_SIZE /\ received[d] + Read(d) \in Nat
        BY <3>2, <4>1, Sizes
      <4>3. /\ rx_fifo' = [rx_fifo EXCEPT ![d] = @ - Read(d)]
            /\ received' = [received EXCEPT ![d] = @ + Read(d)]
        BY <2>3, RxStep
      <4>4. rx_fifo \in [Port -> 0..RX_FIFO_SIZE] /\ received \in [Port -> Nat]
        BY DEF TypeOK
      <4>5. QED
        BY <4>2, <4>3, <4>4
    <3>4. /\ rb[d] \o New(d) \in Seq(Nat) /\ accepted[d] \o New(d) \in Seq(Nat)
          /\ Len(rb[d] \o New(d)) <= RING_BUF_SIZE
      <4>1. /\ rb[d] \in Seq(Nat) /\ accepted[d] \in Seq(Nat)
            /\ New(d) \in Seq(Nat) /\ Len(New(d)) = Taken(d)
        BY <3>1, <3>2 DEF TypeOK
      <4>2. Len(rb[d] \o New(d)) = Len(rb[d]) + Len(New(d))
        <5> DEFINE old == rb[d]
                   new == New(d)
        <5>1. old \in Seq(Nat) /\ new \in Seq(Nat)
          BY <4>1
        <5> HIDE DEF old, new
        <5>2. Len(old \o new) = Len(old) + Len(new)
          BY <5>1
        <5>3. QED
          BY <5>2 DEF old, new
      <4>3. QED
        BY <3>2, <4>1, <4>2
    <3>5. /\ rb' \in [Port -> Seq(Nat)] /\ accepted' \in [Port -> Seq(Nat)]
          /\ \A e \in Port : Len(rb'[e]) <= RING_BUF_SIZE
      <4>1. /\ rb' = [rb EXCEPT ![d] = rb[d] \o New(d)]
            /\ accepted' = [accepted EXCEPT ![d] = accepted[d] \o New(d)]
        BY <2>3, RxStep
      <4>2. /\ rb \in [Port -> Seq(Nat)] /\ accepted \in [Port -> Seq(Nat)]
            /\ \A e \in Port : Len(rb[e]) <= RING_BUF_SIZE
        BY DEF TypeOK
      <4> DEFINE new == rb[d] \o New(d)
                 all == accepted[d] \o New(d)
      <4>3. new \in Seq(Nat) /\ all \in Seq(Nat) /\ Len(new) <= RING_BUF_SIZE
        BY <3>4
      <4>4. rb' = [rb EXCEPT ![d] = new] /\ accepted' = [accepted EXCEPT ![d] = all]
        BY <4>1
      <4> HIDE DEF new, all
      <4>5. QED
        BY <3>1, <4>2, <4>3, <4>4
    <3>6. tx_irq' \in [Port -> BOOLEAN]
      BY <2>3, RxStep DEF TypeOK
    <3>7. QED
      BY <2>3, <3>3, <3>5, <3>6, RxStep DEF TypeOK, setup
  <2>4. CASE TxIdle \/ TxDisable
    BY <2>4 DEF TxIdle, TxDisable, TypeOK, setup, ports, history
  <2>5. CASE TxFill
    <3> DEFINE d == active
               from == rb[other(d)]
    <3>1. d \in Port /\ other(d) \in Port /\ from \in Seq(Nat)
          /\ Len(from) <= RING_BUF_SIZE
      BY <2>5, OtherPort DEF TxFill, TypeOK
    <3>2. /\ SubSeq(from, Out(from) + 1, Len(from)) \in Seq(Nat)
          /\ Len(SubSeq(from, Out(from) + 1, Len(from))) <= RING_BUF_SIZE
          /\ delivered[d] \o SubSeq(from, 1, Filled(from)) \in Seq(Nat)
      <4>1. from \in Seq(Nat) /\ delivered[d] \in Seq(Nat)
        BY <3>1 DEF TypeOK
      <4> HIDE DEF from
      <4>2. /\ Out(from) \in 0..Len(from)
            /\ SubSeq(from, Out(from) + 1, Len(from)) \in Seq(Nat)
            /\ Len(SubSeq(from, Out(from) + 1, Len(from))) = Len(from) - Out(from)
            /\ SubSeq(from, 1, Filled(from)) \in Seq(Nat)
        BY <4>1, TxChunk
      <4>3. delivered[d] \o SubSeq(from, 1, Filled(from)) \in Seq(Nat)
        BY <4>1, <4>2
      <4>4. QED
        BY <3>1, <4>2, <4>3
    <3>3. /\ rb' \in [Port -> Seq(Nat)] /\ delivered' \in [Port -> Seq(Nat)]
          /\ \A e \in Port : Len(rb'[e]) <= RING_BUF_SIZE
      BY <2>5, <3>1, <3>2 DEF TxFill, TypeOK
    <3>4. tx_ready' \in [Port -> BOOLEAN]
      BY <2>5 DEF TxFill, TypeOK
    <3>5. QED
      BY <2>5, <3>3, <3>4 DEF TxFill, TypeOK, setup
  <2>6. CASE HostSetsLine \/ HostReads
    BY <2>6 DEF HostSetsLine, HostReads, TypeOK, setup, history
  <2>7. CASE HostSends
    <3>1. rx_fifo' \in [Port -> 0..RX_FIFO_SIZE]
      BY <2>7 DEF HostSends, TypeOK
    <3>2. QED
      BY <2>7, <3>1 DEF HostSends, TypeOK, setup, history
  <2>8. CASE UNCHANGED vars
    BY <2>8 DEF vars, TypeOK, setup, ports, history
  <2>9. QED
    BY <2>1, <2>2, <2>3, <2>4, <2>5, <2>6, <2>7, <2>8, TxStep DEF Next, interrupt_handler
<1>3. QED
  BY <1>1, <1>2, PTL DEF Spec

-----------------------------------------------------------------------------
(* The order of threadA's calls.                                           *)

\* The order of the calls, seen from what they set: the inductive invariant of
\* LinkedBeforeUse.  Nothing enters a ring buffer before it is initialised.
SetupInv ==
  /\ linked <=> thread >= 4
  /\ installed <=> thread >= 5
  /\ active # -1 => thread >= 5
  /\ thread <= 3 => \A d \in Port : rb[d] = <<>>

LEMMA SetupStep ==
  ASSUME TypeOK, SetupInv, [Next]_vars
  PROVE  SetupInv'
<1>1. CASE GivesUp \/ UsbEnable \/ WaitForDtr \/ RxEnable
  <2>1. /\ UNCHANGED <<linked, installed, active, rb>>
        /\ \/ thread = 0 /\ thread' = -1
           \/ Does("usb_enable") \/ Does("DTR 0") \/ Does("DTR 1")
           \/ Does("rx 0") \/ Does("rx 1")
    BY <1>1 DEF GivesUp, UsbEnable, WaitForDtr, RxEnable
  <2>2. CASE thread = 0 /\ thread' = -1
    BY <2>1, <2>2 DEF SetupInv
  <2>3. ASSUME NEW call, Does(call), call \notin {"link", "callbacks"}
        PROVE  SetupInv'
    <3>1. thread \in {0, 1, 2, 5, 6} /\ thread' = thread + 1
      BY <2>3, CallOrder
    <3>2. UNCHANGED <<linked, installed, active, rb>>
      BY <2>1
    <3>3. QED
      BY <3>1, <3>2 DEF SetupInv
  <2>4. QED
    BY <2>1, <2>2, <2>3
<1>2. CASE Link
  <2>1. thread = 3 /\ thread' = 4
    BY <1>2, CallOrder DEF Link
  <2>2. QED
    BY <1>2, <2>1 DEF Link, SetupInv
<1>3. CASE Install
  <2>1. thread = 4 /\ thread' = 5
    BY <1>3, CallOrder DEF Install
  <2>2. QED
    BY <1>3, <2>1 DEF Install, SetupInv
<1>4. CASE Called \/ Loop
  <2>1. active' # -1 => thread >= 5
    BY <1>4 DEF Called, Loop, SetupInv
  <2>2. QED
    BY <1>4, <2>1 DEF Called, Loop, SetupInv, setup
<1>5. CASE Rx
  <2>1. active # -1 /\ active' = active /\ UNCHANGED setup
    BY <1>5, RxStep
  <2>2. thread >= 5 /\ thread \in -1..7
    BY <2>1 DEF SetupInv, TypeOK
  <2>3. QED
    BY <2>1, <2>2 DEF SetupInv, setup
<1>6. CASE TxIdle \/ TxDisable \/ TxFill
  BY <1>6 DEF TxIdle, TxDisable, TxFill, SetupInv, setup, TypeOK
<1>7. CASE HostSetsLine \/ HostSends \/ HostReads
  BY <1>7 DEF HostSetsLine, HostSends, HostReads, SetupInv, setup
<1>8. CASE UNCHANGED vars
  BY <1>8 DEF vars, SetupInv, setup
<1>9. QED
  BY <1>1, <1>2, <1>3, <1>4, <1>5, <1>6, <1>7, <1>8, TxStep
  DEF Next, interrupt_handler, threadA

LEMMA SetupCorrect == Spec => []SetupInv
<1>1. Init => SetupInv
  BY DEF Init, SetupInv
<1>2. TypeOK /\ SetupInv /\ [Next]_vars => SetupInv'
  BY SetupStep
<1>3. QED
  BY <1>1, <1>2, TypeCorrect, PTL DEF Spec

\* However early a host sends, interrupt_handler never runs before threadA has
\* initialised the peers and their ring buffers.
THEOREM LinkedCorrect == Spec => []LinkedBeforeUse
<1>1. TypeOK /\ SetupInv => LinkedBeforeUse
  BY DEF TypeOK, SetupInv, LinkedBeforeUse
<1>2. QED
  BY <1>1, TypeCorrect, SetupCorrect, PTL

-----------------------------------------------------------------------------
(* The transmit interrupts.                                                *)

LEMMA WakeupStep ==
  ASSUME TypeOK, NoLostWakeup, [Next]_vars
  PROVE  NoLostWakeup'
<1>1. CASE threadA
  BY <1>1 DEF threadA, GivesUp, UsbEnable, WaitForDtr, Link, Install, RxEnable,
              NoLostWakeup
<1>2. CASE Called \/ Loop
  BY <1>2 DEF Called, Loop, NoLostWakeup
<1>3. CASE Rx
  <2> SUFFICES ASSUME NEW d \in Port, rb'[d] # <<>>
               PROVE  tx_irq'[other(d)]
    BY DEF NoLostWakeup
  <2>1. active \in Port
    BY <1>3 DEF Rx, TypeOK
  <2>2. other(active) \in Port /\ other(d) \in Port
    BY <2>1, OtherPort
  <2>3. CASE Taken(active) > 0 /\ d = active
    <3>1. tx_irq' = [tx_irq EXCEPT ![other(active)] = TRUE]
      BY <1>3, <2>3, RxStep
    <3>2. QED
      BY <2>2, <2>3, <3>1 DEF TypeOK
  <2>4. CASE ~(Taken(active) > 0) \/ d # active
    <3>1. rb'[d] = rb[d]
      <4>1. CASE d # active
        BY <1>3, <4>1, RxStep DEF TypeOK
      <4>2. CASE d = active /\ ~(Taken(active) > 0)
        <5>1. rb'[d] = rb[d] \o New(active)
          BY <1>3, <2>1, <4>2, RxStep DEF TypeOK
        <5>2. New(active) \in Seq(Nat) /\ Len(New(active)) = 0 /\ rb[d] \in Seq(Nat)
          <6>1. rb[active] \in Seq(Nat)
            BY <2>1 DEF TypeOK
          <6>2. /\ New(active) \in Seq(Nat) /\ Len(New(active)) = Taken(active)
                /\ Taken(active) \in 0..Read(active) /\ Read(active) \in 0..rx_fifo[active]
            BY <2>1, RxChunk
          <6>3. rx_fifo[active] \in Nat
            BY <2>1, Sizes DEF TypeOK
          <6>4. Taken(active) = 0
            BY <4>2, <6>2, <6>3
          <6>5. QED
            BY <4>2, <6>1, <6>2, <6>4
        <5>3. QED
          BY <5>1, <5>2
      <4>3. QED
        BY <2>4, <4>1, <4>2
    <3>2. tx_irq[other(d)]
      BY <3>1 DEF NoLostWakeup
    <3>3. tx_irq'[other(d)] = tx_irq[other(d)] \/ tx_irq'[other(d)] = TRUE
      BY <1>3, <2>2, RxStep DEF TypeOK
    <3>4. QED
      BY <3>2, <3>3
  <2>5. QED
    BY <2>3, <2>4
<1>4. CASE TxIdle
  BY <1>4 DEF TxIdle, NoLostWakeup
<1>5. CASE TxDisable
  <2> SUFFICES ASSUME NEW d \in Port, rb[d] # <<>>
               PROVE  tx_irq'[other(d)]
    BY <1>5 DEF NoLostWakeup, TxDisable
  <2>1. active \in Port
    BY <1>5 DEF TxDisable, TypeOK
  <2>2. rb[other(active)] = <<>>
    <3>1. rb[other(active)] \in Seq(Nat)
      BY <2>1, OtherPort DEF TypeOK
    <3>2. Out(rb[other(active)]) = 0
      BY <1>5 DEF TxDisable
    <3>3. QED
      BY <3>1, <3>2, Sizes DEF Out, min
  <2>3. other(d) # active /\ other(d) \in Port
    BY <2>1, <2>2, OtherPort
  <2>4. tx_irq'[other(d)] = tx_irq[other(d)]
    BY <1>5, <2>3 DEF TxDisable, TypeOK
  <2>5. QED
    BY <2>4 DEF NoLostWakeup
<1>6. CASE TxFill
  <2> SUFFICES ASSUME NEW d \in Port, rb'[d] # <<>>
               PROVE  tx_irq[other(d)]
    BY <1>6 DEF NoLostWakeup, TxFill
  <2>1. active \in Port
    BY <1>6 DEF TxFill, TypeOK
  <2>2. CASE d = other(active)
    BY <1>6, <2>1, <2>2, OtherPort DEF TxFill
  <2>3. CASE d # other(active)
    <3>1. rb'[d] = rb[d]
      BY <1>6, <2>3 DEF TxFill, TypeOK
    <3>2. QED
      BY <3>1 DEF NoLostWakeup
  <2>4. QED
    BY <2>2, <2>3
<1>7. CASE HostSetsLine \/ HostSends \/ HostReads
  BY <1>7 DEF HostSetsLine, HostSends, HostReads, NoLostWakeup
<1>8. CASE UNCHANGED vars
  BY <1>8 DEF vars, NoLostWakeup
<1>9. QED
  BY <1>1, <1>2, <1>3, <1>4, <1>5, <1>6, <1>7, <1>8, TxStep DEF Next, interrupt_handler

\* Whatever the sizes, and in whichever order the two ports are served, a port
\* whose ring buffer has bytes to send has its transmit interrupt enabled.
THEOREM WakeupCorrect == Spec => []NoLostWakeup
<1>1. Init => NoLostWakeup
  BY DEF Init, NoLostWakeup
<1>2. TypeOK /\ NoLostWakeup /\ [Next]_vars => NoLostWakeup'
  BY WakeupStep
<1>3. QED
  BY <1>1, <1>2, TypeCorrect, PTL DEF Spec

-----------------------------------------------------------------------------
(* Each direction implements a lossy stream of bytes.                      *)

\* The steps of LossyStream, for what arrives on d.
Offers(d) ==
  /\ received'[d] \in Nat /\ received'[d] > received[d]
  /\ \E k \in 0..received'[d] - received[d] :
       rb'[d] = rb[d] \o [i \in 1..k |-> received[d] + i]
  /\ delivered'[other(d)] = delivered[other(d)]

Delivers(d) ==
  /\ \E n \in 1..Len(rb[d]) :
       /\ rb'[d] = SubSeq(rb[d], n + 1, Len(rb[d]))
       /\ \E k \in 0..n :
            delivered'[other(d)] = delivered[other(d)] \o SubSeq(rb[d], 1, k)
  /\ received'[d] = received[d]

Rests(d) ==
  /\ received'[d] = received[d] /\ rb'[d] = rb[d]
  /\ delivered'[other(d)] = delivered[other(d)]

\* The handler reads a chunk from the port it serves, or finds nothing there.
LEMMA DirectionRx ==
  ASSUME TypeOK, Rx, NEW d \in Port
  PROVE  Offers(d) \/ Rests(d)
<1>1. active \in Port
  BY DEF Rx, TypeOK
<1>2. delivered'[other(d)] = delivered[other(d)]
  BY RxStep
<1>3. CASE d # active
  <2>1. received'[d] = received[d] /\ rb'[d] = rb[d]
    BY <1>3, RxStep DEF TypeOK
  <2>2. QED
    BY <1>2, <2>1 DEF Rests
<1>4. CASE d = active
  <2> DEFINE n == Read(d)
             k == Taken(d)
  <2>1. /\ n \in Nat /\ k \in 0..n /\ New(d) \in Seq(Nat) /\ Len(New(d)) = k
        /\ received[d] \in Nat /\ rb[d] \in Seq(Nat)
    <3>1. rx_fifo[d] \in Nat /\ received[d] \in Nat /\ rb[d] \in Seq(Nat)
      BY Sizes DEF TypeOK
    <3>2. QED
      BY <3>1, RxChunk
  <2>2. received'[d] = received[d] + n /\ rb'[d] = rb[d] \o New(d)
    BY <1>4, RxStep DEF TypeOK
  <2>3. New(d) = [i \in 1..k |-> received[d] + i]
    BY DEF New
  <2> HIDE DEF n, k
  <2>4. CASE n = 0
    <3>1. k = 0
      BY <2>1, <2>4
    <3>2. New(d) = <<>>
      BY <2>1, <3>1
    <3>3. received'[d] = received[d] /\ rb'[d] = rb[d]
      BY <2>1, <2>2, <2>4, <3>2
    <3>4. QED
      BY <1>2, <3>3 DEF Rests
  <2>5. CASE n # 0
    <3>1. /\ received'[d] \in Nat /\ received'[d] > received[d]
          /\ k \in 0..received'[d] - received[d]
      BY <2>1, <2>2, <2>5
    <3>2. rb'[d] = rb[d] \o [i \in 1..k |-> received[d] + i]
      BY <2>2, <2>3
    <3>3. QED
      BY <1>2, <3>1, <3>2 DEF Offers
  <2>6. QED
    BY <2>4, <2>5
<1>5. QED
  BY <1>3, <1>4

\* The handler takes a chunk for the port it serves out of the other's ring
\* buffer; the first part of it is sent.
LEMMA DirectionTx ==
  ASSUME TypeOK, TxFill, NEW d \in Port
  PROVE  Delivers(d) \/ Rests(d)
<1>1. active \in Port /\ other(d) \in Port
  BY OtherPort DEF TxFill, TypeOK
<1>2. received'[d] = received[d]
  BY DEF TxFill
<1>3. CASE d # other(active)
  <2>1. rb'[d] = rb[d]
    BY <1>3 DEF TxFill, TypeOK
  <2>2. other(d) # active
    BY <1>1, <1>3, OtherPort
  <2>3. delivered'[other(d)] = delivered[other(d)]
    BY <1>1, <2>2 DEF TxFill, TypeOK
  <2>4. QED
    BY <1>2, <2>1, <2>3 DEF Rests
<1>4. CASE d = other(active)
  <2> DEFINE s == rb[d]
             t == delivered[active]
             n == Out(s)
             k == Filled(s)
  <2>1. other(d) = active /\ s \in Seq(Nat) /\ t \in Seq(Nat)
    BY <1>1, <1>4, OtherPort DEF TypeOK
  <2>2. /\ rb'[d] = SubSeq(s, n + 1, Len(s))
        /\ delivered'[active] = t \o SubSeq(s, 1, k)
    BY <1>1, <1>4 DEF TxFill, TypeOK
  <2>3. n \in 0..Len(s) /\ k \in 0..n
    <3> HIDE DEF s
    <3>1. QED
      BY <2>1, TxChunk
  <2>4. CASE n = 0
    <3>1. k = 0 /\ Len(s) \in Nat
      BY <2>1, <2>3, <2>4
    <3> HIDE DEF s, t, n, k
    <3>2. SubSeq(s, n + 1, Len(s)) = s /\ t \o SubSeq(s, 1, k) = t
      BY <2>1, <2>4, <3>1
    <3>3. rb'[d] = s /\ delivered'[active] = t
      BY <2>2, <3>2
    <3>4. QED
      BY <1>2, <2>1, <3>3 DEF Rests, s, t
  <2>5. CASE n # 0
    <3>1. n \in 1..Len(s)
      <4>1. Len(s) \in Nat
        BY <2>1
      <4> HIDE DEF s, n
      <4>2. QED
        BY <2>3, <2>5, <4>1
    <3> HIDE DEF n, k
    <3>2. QED
      BY <1>2, <2>1, <2>2, <2>3, <3>1 DEF Delivers
  <2>6. QED
    BY <2>4, <2>5
<1>5. QED
  BY <1>3, <1>4

LEMMA DirectionStep ==
  ASSUME TypeOK, SetupInv, [Next]_vars, NEW d \in Port
  PROVE  Offers(d) \/ Delivers(d) \/ Rests(d)
<1>1. CASE UNCHANGED <<received, rb, delivered>>
  BY <1>1 DEF Rests
<1>2. CASE GivesUp \/ UsbEnable \/ WaitForDtr \/ Install \/ RxEnable
  BY <1>1, <1>2 DEF GivesUp, UsbEnable, WaitForDtr, Install, RxEnable, history
<1>3. CASE Link
  <2>1. thread = 3
    BY <1>3, CallOrder DEF Link
  <2>2. rb'[d] = rb[d]
    BY <1>3, <2>1 DEF Link, SetupInv
  <2>3. QED
    BY <1>3, <2>2 DEF Link, Rests, history
<1>4. CASE Rx
  BY <1>4, DirectionRx
<1>5. CASE TxFill
  BY <1>5, DirectionTx
<1>6. CASE Called \/ Loop \/ TxIdle \/ TxDisable
  BY <1>1, <1>6 DEF Called, Loop, TxIdle, TxDisable, history
<1>7. CASE HostSetsLine \/ HostSends \/ HostReads \/ UNCHANGED vars
  BY <1>1, <1>7 DEF HostSetsLine, HostSends, HostReads, vars, history
<1>8. QED
  BY <1>2, <1>3, <1>4, <1>5, <1>6, <1>7, TxStep DEF Next, interrupt_handler, threadA

\* Whatever the sizes of the ring buffers, of the chunks and of what the driver
\* takes of them, each direction drops a byte or sends it, once and in order.
THEOREM StreamCorrect == Spec => StreamSpec
<1>1. Init => There!Init /\ Back!Init
  BY DEF Init, There!Init, Back!Init, Port
<1>2. TypeOK /\ SetupInv /\ [Next]_vars => [There!Next]_There!vars
  <2>1. 0 \in Port /\ other(0) = 1
    BY DEF Port, other
  <2>2. ASSUME TypeOK, SetupInv, [Next]_vars
        PROVE  Offers(0) \/ Delivers(0) \/ Rests(0)
    BY <2>1, <2>2, DirectionStep
  <2>3. QED
    BY <2>1, <2>2 DEF Offers, Delivers, Rests, There!Next, There!Offer,
                      There!Deliver, There!vars
<1>3. TypeOK /\ SetupInv /\ [Next]_vars => [Back!Next]_Back!vars
  <2>1. 1 \in Port /\ other(1) = 0
    BY DEF Port, other
  <2>2. ASSUME TypeOK, SetupInv, [Next]_vars
        PROVE  Offers(1) \/ Delivers(1) \/ Rests(1)
    BY <2>1, <2>2, DirectionStep
  <2>3. QED
    BY <2>1, <2>2 DEF Offers, Delivers, Rests, Back!Next, Back!Offer,
                      Back!Deliver, Back!vars
<1>4. QED
  BY <1>1, <1>2, <1>3, TypeCorrect, SetupCorrect, PTL
  DEF Spec, StreamSpec, There!Spec, Back!Spec

\* So neither port is sent a byte twice, before an older one, or one that did
\* not arrive on the other: also when the driver takes a part of a chunk only.
THEOREM StreamInOrder == Spec => [](There!InOrder /\ Back!InOrder)
<1> DEFINE OrderThere == Ordered(received[0], rb[0], delivered[1])
           OrderBack == Ordered(received[1], rb[1], delivered[0])
<1>1. There!Init => OrderThere
  BY DEF There!Init, Ordered
<1>2. Back!Init => OrderBack
  BY DEF Back!Init, Ordered
<1>3. OrderThere /\ [There!Next]_There!vars => OrderThere'
  <2> SUFFICES ASSUME OrderThere, [There!Next]_There!vars
               PROVE  OrderThere'
    OBVIOUS
  <2> DEFINE n == received[0]
             q == rb[0]
             s == delivered[1]
  <2>1. \/ /\ n' \in Nat /\ n' > n
           /\ \E k \in 0..n' - n : q' = q \o [i \in 1..k |-> n + i]
           /\ s' = s
        \/ /\ \E j \in 1..Len(q) :
                /\ q' = SubSeq(q, j + 1, Len(q))
                /\ \E k \in 0..j : s' = s \o SubSeq(q, 1, k)
           /\ n' = n
        \/ n' = n /\ q' = q /\ s' = s
    BY DEF There!Next, There!Offer, There!Deliver, There!vars
  <2> HIDE DEF n, q, s
  <2>2. Ordered(n, q, s) => Ordered(n', q', s')
    BY <2>1, Ordered_StreamStep
  <2>3. QED
    BY <2>2 DEF n, q, s
<1>4. OrderBack /\ [Back!Next]_Back!vars => OrderBack'
  <2> SUFFICES ASSUME OrderBack, [Back!Next]_Back!vars
               PROVE  OrderBack'
    OBVIOUS
  <2> DEFINE n == received[1]
             q == rb[1]
             s == delivered[0]
  <2>1. \/ /\ n' \in Nat /\ n' > n
           /\ \E k \in 0..n' - n : q' = q \o [i \in 1..k |-> n + i]
           /\ s' = s
        \/ /\ \E j \in 1..Len(q) :
                /\ q' = SubSeq(q, j + 1, Len(q))
                /\ \E k \in 0..j : s' = s \o SubSeq(q, 1, k)
           /\ n' = n
        \/ n' = n /\ q' = q /\ s' = s
    BY DEF Back!Next, Back!Offer, Back!Deliver, Back!vars
  <2> HIDE DEF n, q, s
  <2>2. Ordered(n, q, s) => Ordered(n', q', s')
    BY <2>1, Ordered_StreamStep
  <2>3. QED
    BY <2>2 DEF n, q, s
<1>5. OrderThere => There!InOrder
  BY DEF Ordered, There!InOrder, There!Increasing
<1>6. OrderBack => Back!InOrder
  BY DEF Ordered, Back!InOrder, Back!Increasing
<1>7. QED
  BY <1>1, <1>2, <1>3, <1>4, <1>5, <1>6, StreamCorrect, PTL
  DEF StreamSpec, There!Spec, Back!Spec

-----------------------------------------------------------------------------
(* The bridge.                                                             *)

\* The CDC ACM driver takes every chunk whole.
TakesChunks == CHUNK <= TX_SPACE

\* What Bridge says of the sequences.
Order == \A d \in Port : delivered[other(d)] \o rb[d] = accepted[d]

LEMMA OrderStep ==
  ASSUME TakesChunks, TypeOK, SetupInv, Order, [Next]_vars
  PROVE  Order'
<1>1. CASE GivesUp \/ UsbEnable \/ WaitForDtr \/ Install \/ RxEnable
  BY <1>1 DEF GivesUp, UsbEnable, WaitForDtr, Install, RxEnable, Order, history
<1>2. CASE Link
  <2>1. thread = 3
    BY <1>2, CallOrder DEF Link
  <2>2. \A d \in Port : rb'[d] = rb[d]
    BY <1>2, <2>1 DEF Link, SetupInv
  <2>3. QED
    BY <1>2, <2>2 DEF Link, Order, history
<1>3. CASE Called \/ Loop
  BY <1>3 DEF Called, Loop, Order, history
<1>4. CASE Rx
  <2> SUFFICES ASSUME NEW d \in Port
               PROVE  delivered[other(d)] \o rb'[d] = accepted'[d]
    BY <1>4, RxStep DEF Order
  <2>1. active \in Port
    BY <1>4 DEF Rx, TypeOK
  <2>2. CASE d = active
    <3> DEFINE s == delivered[other(d)]
               t == rb[d]
               u == New(d)
    <3>1. rb'[d] = t \o u /\ accepted'[d] = accepted[d] \o u
      BY <1>4, <2>2, RxStep DEF TypeOK
    <3>2. s \in Seq(Nat) /\ t \in Seq(Nat) /\ u \in Seq(Nat)
      BY OtherPort, RxChunk DEF TypeOK
    <3>3. s \o t = accepted[d]
      BY DEF Order
    <3>4. s \o rb'[d] = accepted'[d]
      <4> HIDE DEF s, t, u
      <4>1. (s \o t) \o u = s \o (t \o u)
        BY <3>2, ConcatAssociative
      <4>2. QED
        BY <3>1, <3>3, <4>1
    <3>5. QED
      BY <3>4
  <2>3. CASE d # active
    <3>1. rb'[d] = rb[d] /\ accepted'[d] = accepted[d]
      BY <1>4, <2>3, RxStep DEF TypeOK
    <3>2. QED
      BY <3>1 DEF Order
  <2>4. QED
    BY <2>2, <2>3
<1>5. CASE TxIdle \/ TxDisable
  BY <1>5 DEF TxIdle, TxDisable, Order, history
<1>6. CASE TxFill
  <2> SUFFICES ASSUME NEW d \in Port
               PROVE  delivered'[other(d)] \o rb'[d] = accepted[d]
    BY <1>6 DEF Order, TxFill
  <2>1. active \in Port
    BY <1>6 DEF TxFill, TypeOK
  <2>2. CASE d = other(active)
    <3> DEFINE s == rb[d]
               t == delivered[active]
    <3>1. other(d) = active
      BY <2>1, <2>2, OtherPort
    <3>2. s \in Seq(Nat) /\ t \in Seq(Nat)
      BY <2>1 DEF TypeOK
    <3>3. /\ rb'[d] = SubSeq(s, Out(s) + 1, Len(s))
          /\ delivered'[active] = t \o SubSeq(s, 1, Filled(s))
      BY <1>6, <2>1, <2>2 DEF TxFill, TypeOK
    <3>4. t \o s = accepted[d]
      BY <3>1 DEF Order
    <3> HIDE DEF s, t
    <3>5. Out(s) \in 0..Len(s) /\ Out(s) <= CHUNK
      BY <3>2, TxChunk
    <3>6. Filled(s) = Out(s)
      BY <3>2, <3>5, Sizes DEF Filled, min, TakesChunks
    <3>7. (t \o SubSeq(s, 1, Out(s))) \o SubSeq(s, Out(s) + 1, Len(s)) = t \o s
      BY <3>2, <3>5, MoveChunk
    <3>8. QED
      BY <3>1, <3>3, <3>4, <3>6, <3>7
  <2>3. CASE d # other(active)
    <3>1. rb'[d] = rb[d]
      BY <1>6, <2>3 DEF TxFill, TypeOK
    <3>2. other(d) # active /\ other(d) \in Port
      BY <2>1, <2>3, OtherPort
    <3>3. delivered'[other(d)] = delivered[other(d)]
      BY <1>6, <3>2 DEF TxFill, TypeOK
    <3>4. QED
      BY <3>1, <3>3 DEF Order
  <2>4. QED
    BY <2>2, <2>3
<1>7. CASE HostSetsLine \/ HostSends \/ HostReads
  BY <1>7 DEF HostSetsLine, HostSends, HostReads, Order, history
<1>8. CASE UNCHANGED vars
  BY <1>8 DEF vars, Order, history
<1>9. QED
  BY <1>1, <1>2, <1>3, <1>4, <1>5, <1>6, <1>7, <1>8, TxStep
  DEF Next, interrupt_handler, threadA

\* If the CDC ACM driver takes chunks whole, then for buffers and chunks of any
\* size each port gets every byte accepted on the other once and in order, or
\* it is still waiting, and the ring buffers stay within their size.
THEOREM BridgeCorrect == TakesChunks => (Spec => []Bridge)
<1> SUFFICES ASSUME TakesChunks
             PROVE  Spec => []Bridge
  OBVIOUS
<1>1. Init => Order
  <2> SUFFICES ASSUME Init, NEW d \in Port
               PROVE  delivered[other(d)] \o rb[d] = accepted[d]
    BY DEF Order
  <2>1. other(d) \in Port
    BY OtherPort
  <2>2. delivered[other(d)] = <<>> /\ rb[d] = <<>> /\ accepted[d] = <<>>
    BY <2>1 DEF Init
  <2>3. QED
    BY <2>2
<1>2. TypeOK /\ SetupInv /\ Order /\ [Next]_vars => Order'
  BY OrderStep
<1>3. TypeOK /\ Order => Bridge
  BY DEF Order, Bridge
<1>4. QED
  BY <1>1, <1>2, <1>3, TypeCorrect, SetupCorrect, PTL DEF Spec
=============================================================================
