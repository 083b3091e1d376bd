---------------------------- MODULE CdcAcmProofs ----------------------------
(***************************************************************************)
(* Theorems about the USB CDC ACM loopback, for buffers of any size.       *)
(***************************************************************************)
EXTENDS CdcAcm, CommonLemmas, TLAPS

-----------------------------------------------------------------------------
(* Chunks.                                                                 *)

\* A chunk is never longer than the ring buffer, nor than buf.
LEMMA ring_buf_get_Range ==
  ASSUME TypeOK
  PROVE  ring_buf_get \in 0..Len(rb) /\ ring_buf_get <= CHUNK
BY SizesAssumption DEF ring_buf_get, TypeOK

-----------------------------------------------------------------------------
(* Type correctness.                                                       *)

\* For a ring buffer of any size, it is never filled beyond it.
THEOREM TypeCorrect == Spec => []TypeOK
<1>1. Init => TypeOK
  <2> SUFFICES ASSUME Init PROVE TypeOK
    OBVIOUS
  <2>1. /\ rb \in Seq(Nat) /\ Len(rb) <= RING_BUF_SIZE
        /\ accepted \in Seq(Nat) /\ echoed \in Seq(Nat)
    BY SizesAssumption DEF Init
  <2>2. rx_fifo \in 0..RX_FIFO_SIZE /\ received \in Nat
    BY SizesAssumption DEF Init
  <2>3. QED
    BY <2>1, <2>2 DEF Init, TypeOK
<1>2. TypeOK /\ [Next]_vars => TypeOK'
  <2> SUFFICES ASSUME TypeOK, [Next]_vars
               PROVE  TypeOK'
    OBVIOUS
  <2> USE SizesAssumption
  <2>1. CASE Poll
    <3>1. CASE main_cdc_acm_Fails
      BY <3>1 DEF main_cdc_acm_Fails, TypeOK, history
    <3>2. CASE main_cdc_acm
      <4>1. rb' \in Seq(Nat) /\ Len(rb') <= RING_BUF_SIZE
        BY <3>2 DEF main_cdc_acm
      <4>2. QED
        BY <3>2, <4>1 DEF main_cdc_acm, TypeOK, history
    <3>3. CASE my_timer_handler
      BY <3>3 DEF my_timer_handler, TypeOK, history
    <3>4. CASE my_work_handler
      BY <3>4 DEF my_work_handler, TypeOK, history
    <3>5. QED
      BY <2>1, <3>1, <3>2, <3>3, <3>4 DEF Poll
  <2>2. CASE RxByte
    <3>1. /\ rb' \in Seq(Nat) /\ Len(rb') <= RING_BUF_SIZE
          /\ accepted' \in Seq(Nat) /\ tx_irq' \in BOOLEAN
      <4>1. CASE Wrote
        <5>1. /\ rb' = Append(rb, received + 1)
              /\ accepted' = Append(accepted, received + 1)
              /\ tx_irq' = TRUE
          BY <2>2, <4>1 DEF RxByte, send_cdc_acm
        <5>2. received + 1 \in Nat
          BY DEF TypeOK
        <5>3. QED
          BY <4>1, <5>1, <5>2 DEF Wrote, TypeOK
      <4>2. CASE ~Wrote
        BY <2>2, <4>2 DEF RxByte, send_cdc_acm, TypeOK
      <4>3. QED
        BY <4>1, <4>2
    <3>2. rx_fifo' \in 0..RX_FIFO_SIZE /\ received' \in Nat
      BY <2>2 DEF RxByte, uart_irq_rx_ready, TypeOK
    <3>3. QED
      BY <2>2, <3>1, <3>2 DEF RxByte, TypeOK, pollVars
  <2>3. CASE TxFill
    <3>1. ring_buf_get \in 0..Len(rb)
      BY ring_buf_get_Range
    <3>2. uart_fifo_fill(ring_buf_get) \in 0..Len(rb)
      BY <3>1 DEF uart_fifo_fill, TypeOK
    <3>3. rb' \in Seq(Nat) /\ Len(rb') <= RING_BUF_SIZE
      BY <2>3, <3>1 DEF TxFill, TypeOK
    <3>4. echoed' \in Seq(Nat)
      BY <2>3, <3>2 DEF TxFill, TypeOK
    <3>5. QED
      BY <2>3, <3>3, <3>4 DEF TxFill, TypeOK, pollVars
  <2>4. CASE HandlerStarts \/ RxDrained \/ TxNotReady \/ TxEmpty
    BY <2>4 DEF HandlerStarts, RxDrained, TxNotReady, TxEmpty, TypeOK, pollVars,
                history
  <2>5. CASE HostSetsLine \/ HostSends \/ HostReads
    <3>1. CASE HostSetsLine
      BY <3>1 DEF HostSetsLine, TypeOK, pollVars, history
    <3>2. CASE HostSends
      <4>1. rx_fifo' \in 0..RX_FIFO_SIZE
        BY <3>2 DEF HostSends, TypeOK
      <4>2. QED
        BY <3>2, <4>1 DEF HostSends, TypeOK, pollVars, history
    <3>3. CASE HostReads
      BY <3>3 DEF HostReads, TypeOK, pollVars, history
    <3>4. QED
      BY <2>5, <3>1, <3>2, <3>3
  <2>6. CASE UNCHANGED vars
    BY <2>6 DEF vars, TypeOK, pollVars, history
  <2>7. QED
    BY <2>1, <2>2, <2>3, <2>4, <2>5, <2>6 DEF Next, interrupt_handler
<1>3. QED
  BY <1>1, <1>2, PTL DEF Spec

-----------------------------------------------------------------------------
(* The transmit interrupt and the polling.                                 *)

\* Whatever the chunks, the overflows and the moments at which the host reads,
\* the transmit interrupt is enabled while the ring buffer has bytes.
THEOREM WakeupCorrect == Spec => []NoLostWakeup
<1>1. Init => NoLostWakeup
  BY DEF Init, NoLostWakeup
<1>2. TypeOK /\ NoLostWakeup /\ [Next]_vars => NoLostWakeup'
  <2> SUFFICES ASSUME TypeOK, NoLostWakeup, [Next]_vars
               PROVE  NoLostWakeup'
    OBVIOUS
  <2>1. CASE RxByte
    <3>1. CASE Wrote
      BY <2>1, <3>1 DEF RxByte, send_cdc_acm, NoLostWakeup
    <3>2. CASE ~Wrote
      BY <2>1, <3>2 DEF RxByte, send_cdc_acm, NoLostWakeup
    <3>3. QED
      BY <3>1, <3>2
  <2>2. CASE TxEmpty
    BY <2>2 DEF TxEmpty, NoLostWakeup
  <2>3. CASE TxFill
    BY <2>3 DEF TxFill, NoLostWakeup
  <2>4. CASE Poll
    BY <2>4 DEF Poll, main_cdc_acm_Fails, main_cdc_acm, my_timer_handler,
                my_work_handler, NoLostWakeup
  <2>5. CASE HandlerStarts \/ RxDrained \/ TxNotReady
    BY <2>5 DEF HandlerStarts, RxDrained, TxNotReady, NoLostWakeup
  <2>6. CASE HostSetsLine \/ HostSends \/ HostReads
    BY <2>6 DEF HostSetsLine, HostSends, HostReads, NoLostWakeup
  <2>7. CASE UNCHANGED vars
    BY <2>7 DEF vars, NoLostWakeup
  <2>8. QED
    BY <2>1, <2>2, <2>3, <2>4, <2>5, <2>6, <2>7 DEF Next, interrupt_handler
<1>3. QED
  BY <1>1, <1>2, TypeCorrect, PTL DEF Spec

\* The timer and the work item hand the polling to each other until DTR is
\* set; they never run at once, and reception is not set up a second time.
THEOREM PollerCorrect == Spec => []OnePoller
<1>1. Init => OnePoller
  BY DEF Init, OnePoller
<1>2. TypeOK /\ OnePoller /\ [Next]_vars => OnePoller'
  <2> SUFFICES ASSUME TypeOK, OnePoller, [Next]_vars
               PROVE  OnePoller'
    OBVIOUS
  <2>1. CASE Poll
    BY <2>1 DEF Poll, main_cdc_acm_Fails, main_cdc_acm, my_timer_handler,
                my_work_handler, OnePoller, TypeOK
  <2>2. CASE UNCHANGED pollVars
    BY <2>2 DEF pollVars, OnePoller
  <2>3. [Next]_vars => Poll \/ UNCHANGED pollVars
    BY DEF Next, interrupt_handler, HandlerStarts, RxByte, RxDrained, TxNotReady,
           TxEmpty, TxFill, HostSetsLine, HostSends, HostReads, vars
  <2>4. QED
    BY <2>1, <2>2, <2>3
<1>3. QED
  BY <1>1, <1>2, TypeCorrect, PTL DEF Spec

-----------------------------------------------------------------------------
(* The ring buffer before it is initialised.                               *)

\* main_cdc_acm initialises the ring buffer before anything enters it: the
\* handler does not run before.
StartInv == app = "start" => rb = <<>> /\ handler = "loop"

LEMMA StartCorrect == Spec => []StartInv
<1>1. Init => StartInv
  BY DEF Init, StartInv
<1>2. StartInv /\ [Next]_vars => StartInv'
  <2> SUFFICES ASSUME StartInv, [Next]_vars
               PROVE  StartInv'
    OBVIOUS
  <2>1. CASE Poll
    BY <2>1 DEF Poll, main_cdc_acm_Fails, main_cdc_acm, my_timer_handler,
                my_work_handler, StartInv
  <2>2. CASE interrupt_handler
    BY <2>2 DEF interrupt_handler, HandlerStarts, uart_irq_is_pending, RxByte,
                RxDrained, TxNotReady, TxEmpty, TxFill, StartInv, pollVars
  <2>3. CASE HostSetsLine \/ HostSends \/ HostReads
    BY <2>3 DEF HostSetsLine, HostSends, HostReads, StartInv, pollVars
  <2>4. CASE UNCHANGED vars
    BY <2>4 DEF vars, StartInv, pollVars
  <2>5. QED
    BY <2>1, <2>2, <2>3, <2>4 DEF Next
<1>3. QED
  BY <1>1, <1>2, PTL DEF Spec

-----------------------------------------------------------------------------
(* The loopback implements a lossy stream of bytes.                        *)

\* One step offers a byte, delivers from a chunk, or does neither.
LEMMA StreamStep ==
  ASSUME TypeOK, StartInv, [Next]_vars
  PROVE  [Stream!Next]_Stream!vars
<1>1. CASE UNCHANGED <<received, rb, echoed>>
  BY <1>1 DEF Stream!vars
<1>2. CASE RxByte
  <2>1. received \in Nat /\ rb \in Seq(Nat) /\ received' = received + 1
        /\ echoed' = echoed
    BY <1>2 DEF RxByte, TypeOK
  <2>2. received' \in Nat /\ received' > received /\ received' - received = 1
    BY <2>1
  <2>3. \E k \in 0..1 : rb' = rb \o [i \in 1..k |-> received + i]
    <3> DEFINE more(k) == rb \o [i \in 1..k |-> received + i]
    <3>1. more(1) = Append(rb, received + 1) /\ more(0) = rb
      BY <2>1
    <3>2. rb' = Append(rb, received + 1) \/ rb' = rb
      BY <1>2 DEF RxByte, send_cdc_acm
    <3>3. 0 \in 0..1 /\ 1 \in 0..1
      OBVIOUS
    <3> HIDE DEF more
    <3>4. \E k \in 0..1 : rb' = more(k)
      BY <3>1, <3>2, <3>3
    <3>5. QED
      BY <3>4 DEF more
  <2>4. Stream!Offer
    BY <2>1, <2>2, <2>3 DEF Stream!Offer
  <2>5. QED
    BY <2>4 DEF Stream!Next
<1>3. CASE TxFill
  <2> DEFINE n == ring_buf_get
             k == uart_fifo_fill(n)
  <2>1. n \in 0..Len(rb)
    BY ring_buf_get_Range
  <2>2. k \in 0..n
    BY <2>1, SizesAssumption DEF uart_fifo_fill, TypeOK
  <2>3. n # 0
    <3>1. rb # <<>> /\ rb \in Seq(Nat)
      BY <1>3 DEF TxFill, TypeOK
    <3>2. Len(rb) \in Nat /\ Len(rb) # 0
      BY <3>1
    <3>3. QED
      BY <3>2, SizesAssumption DEF ring_buf_get
  <2>4. /\ rb' = SubSeq(rb, n + 1, Len(rb))
        /\ echoed' = echoed \o SubSeq(rb, 1, k)
        /\ received' = received
    BY <1>3 DEF TxFill
  <2> HIDE DEF n, k
  <2>5. n \in 1..Len(rb)
    BY <2>1, <2>3
  <2>6. Stream!Deliver
    BY <2>2, <2>4, <2>5 DEF Stream!Deliver
  <2>7. QED
    BY <2>6 DEF Stream!Next
<1>4. CASE Poll
  BY <1>1, <1>4 DEF Poll, main_cdc_acm_Fails, main_cdc_acm, my_timer_handler,
                    my_work_handler, StartInv, history
<1>5. CASE HandlerStarts \/ RxDrained \/ TxNotReady \/ TxEmpty
  BY <1>1, <1>5 DEF HandlerStarts, RxDrained, TxNotReady, TxEmpty, history
<1>6. CASE HostSetsLine \/ HostSends \/ HostReads
  BY <1>1, <1>6 DEF HostSetsLine, HostSends, HostReads, history
<1>7. CASE UNCHANGED vars
  BY <1>1, <1>7 DEF vars, history
<1>8. QED
  BY <1>2, <1>3, <1>4, <1>5, <1>6, <1>7 DEF Next, interrupt_handler

\* Whatever the sizes of the ring buffer, of the chunks and of what the driver
\* takes of them, each byte is dropped or sent back, once at most and in order.
THEOREM StreamCorrect == Spec => StreamSpec
<1>1. Init => Stream!Init
  BY DEF Init, Stream!Init
<1>2. QED
  BY <1>1, StreamStep, TypeCorrect, StartCorrect, PTL
  DEF Spec, StreamSpec, Stream!Spec

\* So nothing comes back twice, before an older byte, or without having been
\* received: also when the driver takes a part of a chunk only, and the rest is
\* lost because nobody looks at the result of uart_fifo_fill.
THEOREM StreamInOrder == Spec => []Stream!InOrder
<1> DEFINE Order == Ordered(received, rb, echoed)
<1>1. Stream!Init => Order
  BY DEF Stream!Init, Ordered
<1>2. Order /\ [Stream!Next]_Stream!vars => Order'
  BY Ordered_StreamStep
  DEF Stream!Next, Stream!Offer, Stream!Deliver, Stream!vars
<1>3. Order => Stream!InOrder
  BY DEF Ordered, Stream!InOrder, Stream!Increasing
<1>4. QED
  BY <1>1, <1>2, <1>3, StreamCorrect, PTL DEF StreamSpec, Stream!Spec

-----------------------------------------------------------------------------
(* The loopback.                                                           *)

\* The CDC ACM driver takes every chunk whole.
TakesChunks == CHUNK <= TX_SPACE

\* What Loopback adds to the types.
InFlight == echoed \o rb = accepted

\* Bytes enter and leave the ring buffer only in main_cdc_acm, before any was
\* accepted (StartInv), and in the handler.
LEMMA LoopbackStep ==
  ASSUME TakesChunks, TypeOK, StartInv, InFlight, [Next]_vars
  PROVE  InFlight'
<1>1. CASE RxByte
  <2>1. CASE Wrote
    <3>1. /\ rb' = Append(rb, received + 1)
          /\ accepted' = Append(accepted, received + 1)
          /\ echoed' = echoed
      BY <1>1, <2>1 DEF RxByte, send_cdc_acm
    <3>2. echoed \o Append(rb, received + 1)
            = Append(echoed \o rb, received + 1)
      BY DEF TypeOK
    <3>3. QED
      BY <1>1, <3>1, <3>2 DEF RxByte, InFlight, pollVars
  <2>2. CASE ~Wrote
    BY <1>1, <2>2 DEF RxByte, send_cdc_acm, InFlight, pollVars
  <2>3. QED
    BY <2>1, <2>2
<1>2. CASE TxFill
  <2>1. ring_buf_get \in 0..Len(rb) /\ ring_buf_get <= CHUNK
    BY ring_buf_get_Range
  <2>2. uart_fifo_fill(ring_buf_get) = ring_buf_get
    BY <2>1, SizesAssumption DEF uart_fifo_fill, TakesChunks, TypeOK
  <2>3. echoed' \o rb' = echoed \o rb
    BY <1>2, <2>1, <2>2, MoveChunk DEF TxFill, TypeOK
  <2>4. QED
    BY <1>2, <2>3 DEF TxFill, InFlight, pollVars
<1>3. CASE Poll
  BY <1>3 DEF Poll, main_cdc_acm_Fails, main_cdc_acm, my_timer_handler,
              my_work_handler, StartInv, InFlight, history, TypeOK
<1>4. CASE HandlerStarts \/ RxDrained \/ TxNotReady \/ TxEmpty
  BY <1>4 DEF HandlerStarts, uart_irq_is_pending, RxDrained, TxNotReady, TxEmpty,
              InFlight, pollVars, history
<1>5. CASE HostSetsLine \/ HostSends \/ HostReads
  BY <1>5 DEF HostSetsLine, HostSends, HostReads, InFlight, pollVars,
              history
<1>6. CASE UNCHANGED vars
  BY <1>6 DEF vars, InFlight, pollVars, history
<1>7. QED
  BY <1>1, <1>2, <1>3, <1>4, <1>5, <1>6 DEF Next, interrupt_handler

\* If the CDC ACM driver takes chunks whole, then for buffers and chunks of any
\* size every accepted byte is sent back once and in order, or still waiting.
THEOREM LoopbackCorrect == TakesChunks => (Spec => []Loopback)
<1> SUFFICES ASSUME TakesChunks
             PROVE  Spec => []Loopback
  OBVIOUS
<1>1. Init => InFlight
  BY DEF Init, InFlight
<1>2. TypeOK /\ StartInv /\ InFlight /\ [Next]_vars => InFlight'
  BY LoopbackStep
<1>3. TypeOK /\ InFlight => Loopback
  BY DEF Loopback, InFlight
<1>4. QED
  BY <1>1, <1>2, <1>3, TypeCorrect, StartCorrect, PTL DEF Spec
=============================================================================
