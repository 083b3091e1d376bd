------------------------------- MODULE CdcAcm -------------------------------
(***************************************************************************)
(* The USB CDC ACM loopback: a one-shot timer and a work item poll DTR;    *)
(* once the host has set it, interrupt_handler puts every byte it receives *)
(* in a ring buffer, and takes them out in chunks to send them back.       *)
(*                                                                         *)
(* A byte is identified by its position among the bytes received.  The     *)
(* handler is called again whenever an interrupt is pending, so its return *)
(* and the head of its outer loop are one control point.                   *)
(***************************************************************************)
EXTENDS Integers, Sequences, SequencesExt

CONSTANTS
  RING_BUF_SIZE,  \* bytes in the ring buffer
  CHUNK,          \* size of the handler's buf
  TX_SPACE,       \* bytes the CDC ACM driver takes in one uart_fifo_fill
  RX_FIFO_SIZE,   \* bytes the CDC ACM driver holds for uart_fifo_read
  MaxBytes        \* bound: bytes the host sends

ASSUME SizesAssumption ==
  /\ RING_BUF_SIZE \in Nat \ {0}
  /\ CHUNK \in Nat \ {0}
  /\ TX_SPACE \in Nat
  /\ RX_FIFO_SIZE \in Nat \ {0}

ASSUME BoundsAssumption == MaxBytes \in Nat

VARIABLES
  app,       \* "start", "failed", "polling" (for DTR) or "ready"
  my_timer,  \* my_timer is running
  my_work,   \* my_work is submitted
  dtr,       \* the host's DTR line
  handler,   \* control point of interrupt_handler: "loop", "rx" or "tx"
  tx_irq,    \* the transmit interrupt is enabled
  tx_ready,  \* the USB endpoint can take the next chunk
  rx_fifo,   \* bytes waiting in the CDC ACM driver
  rb,        \* the ring buffer, oldest byte first
  \* History, read by the properties only:
  received,  \* bytes read by the handler
  accepted,  \* the bytes that ring_buf_put took, in order
  echoed     \* the bytes that uart_fifo_fill took, in order

pollVars == <<app, my_timer, my_work>>
history == <<received, accepted, echoed>>
vars == <<pollVars, dtr, handler, tx_irq, tx_ready, rx_fifo, rb, history>>

Init ==
  /\ app = "start"
  /\ my_timer = FALSE /\ my_work = FALSE
  /\ dtr = FALSE
  /\ handler = "loop"
  /\ tx_irq = FALSE /\ tx_ready = TRUE
  /\ rx_fifo = 0
  /\ rb = <<>>
  /\ received = 0 /\ accepted = <<>> /\ echoed = <<>>

-----------------------------------------------------------------------------
(* Start-up and the wait for DTR.                                          *)

\* The device is not ready, or USB cannot be enabled: nothing is started.
main_cdc_acm_Fails ==
  /\ app = "start"
  /\ app' = "failed"
  /\ UNCHANGED <<my_timer, my_work, dtr, handler, tx_irq, tx_ready, rx_fifo, rb,
                 history>>

main_cdc_acm ==
  /\ app = "start"
  /\ app' = "polling"
  /\ rb' = <<>>
  /\ my_timer' = TRUE
  /\ UNCHANGED <<my_work, dtr, handler, tx_irq, tx_ready, rx_fifo, history>>

\* The one-shot timer expires.
my_timer_handler ==
  /\ my_timer
  /\ my_timer' = FALSE
  /\ my_work' = TRUE
  /\ UNCHANGED <<app, dtr, handler, tx_irq, tx_ready, rx_fifo, rb, history>>

my_work_handler_Once ==
  /\ my_work
  /\ my_work' = FALSE
  /\ app' = IF dtr THEN "ready" ELSE app
  /\ UNCHANGED <<my_timer, dtr, handler, tx_irq, tx_ready, rx_fifo, rb, history>>

my_work_handler_NoReturn ==
  /\ my_work
  /\ my_work' = FALSE
  /\ my_timer' = (my_timer \/ ~dtr)
  /\ app' = "ready"
  /\ UNCHANGED <<dtr, handler, tx_irq, tx_ready, rx_fifo, rb, history>>

\* DTR is not set: restart the timer.  It is: set the line up, install
\* interrupt_handler and enable reception.
my_work_handler ==
  /\ my_work
  /\ my_work' = FALSE
  /\ my_timer' = (my_timer \/ ~dtr)
  /\ app' = IF dtr THEN "ready" ELSE app
  /\ UNCHANGED <<dtr, handler, tx_irq, tx_ready, rx_fifo, rb, history>>

-----------------------------------------------------------------------------
(* interrupt_handler: all the bytes that are ready, then one chunk.        *)

uart_irq_rx_ready == rx_fifo > 0
uart_irq_tx_ready == tx_irq /\ tx_ready
uart_irq_is_pending == app = "ready" /\ (uart_irq_rx_ready \/ uart_irq_tx_ready)

HandlerStarts ==
  /\ handler = "loop"
  /\ uart_irq_is_pending
  /\ handler' = "rx"
  /\ UNCHANGED <<pollVars, dtr, tx_irq, tx_ready, rx_fifo, rb, history>>

\* ring_buf_put of one byte: whether it wrote it.
Wrote_OffByOne == Len(rb) <= RING_BUF_SIZE
Wrote == Len(rb) < RING_BUF_SIZE

send_cdc_acm_Overwrite(c) ==
  /\ rb' = IF Wrote THEN Append(rb, c) ELSE Append(Tail(rb), c)
  /\ accepted' = Append(accepted, c)
  /\ tx_irq' = TRUE

\* A byte that does not fit is dropped; one that does enables transmission.
send_cdc_acm(c) ==
  IF Wrote
    THEN /\ rb' = Append(rb, c)
         /\ accepted' = Append(accepted, c)
         /\ tx_irq' = TRUE
    ELSE UNCHANGED <<rb, accepted, tx_irq>>

RxByte ==
  /\ handler = "rx"
  /\ uart_irq_rx_ready
  /\ rx_fifo' = rx_fifo - 1
  /\ received' = received + 1
  /\ send_cdc_acm(received + 1)
  /\ UNCHANGED <<pollVars, dtr, handler, tx_ready, echoed>>

RxDrained ==
  /\ handler = "rx"
  /\ ~uart_irq_rx_ready
  /\ handler' = "tx"
  /\ UNCHANGED <<pollVars, dtr, tx_irq, tx_ready, rx_fifo, rb, history>>

TxNotReady ==
  /\ handler = "tx"
  /\ ~uart_irq_tx_ready
  /\ handler' = "loop"
  /\ UNCHANGED <<pollVars, dtr, tx_irq, tx_ready, rx_fifo, rb, history>>

\* The ring buffer is empty: disable the transmit interrupt.
TxEmpty ==
  /\ handler = "tx"
  /\ uart_irq_tx_ready
  /\ rb = <<>>
  /\ handler' = "loop"
  /\ tx_irq' = FALSE
  /\ UNCHANGED <<pollVars, dtr, tx_ready, rx_fifo, rb, history>>

\* How many bytes ring_buf_get takes out, and how many of n uart_fifo_fill takes.
ring_buf_get == IF Len(rb) < CHUNK THEN Len(rb) ELSE CHUNK
uart_fifo_fill(n) == IF n < TX_SPACE THEN n ELSE TX_SPACE

TxFill_ThenDisable ==
  /\ handler = "tx"
  /\ uart_irq_tx_ready
  /\ rb # <<>>
  /\ handler' = "loop"
  /\ rb' = SubSeq(rb, ring_buf_get + 1, Len(rb))
  /\ echoed' = echoed \o SubSeq(rb, 1, uart_fifo_fill(ring_buf_get))
  /\ tx_irq' = FALSE
  /\ tx_ready' = FALSE
  /\ UNCHANGED <<pollVars, dtr, rx_fifo, received, accepted>>

\* Send a chunk.  The result of uart_fifo_fill is only logged.
TxFill ==
  /\ handler = "tx"
  /\ uart_irq_tx_ready
  /\ rb # <<>>
  /\ handler' = "loop"
  /\ rb' = SubSeq(rb, ring_buf_get + 1, Len(rb))
  /\ echoed' = echoed \o SubSeq(rb, 1, uart_fifo_fill(ring_buf_get))
  /\ tx_ready' = FALSE
  /\ UNCHANGED <<pollVars, dtr, tx_irq, rx_fifo, received, accepted>>

-----------------------------------------------------------------------------
(* The host and the USB stack.                                             *)

HostSetsLine ==
  /\ dtr' = ~dtr
  /\ UNCHANGED <<pollVars, handler, tx_irq, tx_ready, rx_fifo, rb, history>>

\* Bytes arrive once USB is enabled; they wait until the handler reads them.
HostSends ==
  /\ app \in {"polling", "ready"}
  /\ rx_fifo < RX_FIFO_SIZE
  /\ received + rx_fifo < MaxBytes
  /\ rx_fifo' = rx_fifo + 1
  /\ UNCHANGED <<pollVars, dtr, handler, tx_irq, tx_ready, rb, history>>

\* The host has read the chunk.
HostReads ==
  /\ ~tx_ready
  /\ tx_ready' = TRUE
  /\ UNCHANGED <<pollVars, dtr, handler, tx_irq, rx_fifo, rb, history>>

Poll == main_cdc_acm_Fails \/ main_cdc_acm \/ my_timer_handler \/ my_work_handler

interrupt_handler ==
  HandlerStarts \/ RxByte \/ RxDrained \/ TxNotReady \/ TxEmpty \/ TxFill

Next == Poll \/ interrupt_handler \/ HostSetsLine \/ HostSends \/ HostReads

Spec == Init /\ [][Next]_vars

\* The timer expires, the work queue runs what is submitted, the handler is
\* called and returns, and a host that opened the port reads from it.
Fairness ==
  /\ WF_vars(my_timer_handler)
  /\ WF_vars(my_work_handler)
  /\ WF_vars(interrupt_handler)
  /\ WF_vars(HostReads)

FairSpec == Spec /\ Fairness

-----------------------------------------------------------------------------
(* Properties.                                                             *)

\* Every variable has its type, and the ring buffer stays within its size.
TypeOK ==
  /\ app \in {"start", "failed", "polling", "ready"}
  /\ my_timer \in BOOLEAN /\ my_work \in BOOLEAN /\ dtr \in BOOLEAN
  /\ handler \in {"loop", "rx", "tx"}
  /\ tx_irq \in BOOLEAN /\ tx_ready \in BOOLEAN
  /\ rx_fifo \in 0..RX_FIFO_SIZE
  /\ rb \in Seq(Nat) /\ Len(rb) <= RING_BUF_SIZE
  /\ received \in Nat
  /\ accepted \in Seq(Nat) /\ echoed \in Seq(Nat)

\* "The received data is echoed back": the bytes sent back, followed by those
\* still in the ring buffer, are the bytes that were accepted; none of them is
\* lost, repeated or overtaken, whatever the chunks and the overflows, and the
\* ring buffer is never filled beyond its size.
Loopback == TypeOK /\ echoed \o rb = accepted

\* The port seen as a stream: read from the host, through the ring buffer, to
\* the host.
Stream == INSTANCE LossyStream WITH
  offered <- received, queue <- rb, delivered <- echoed

\* Of each byte at most one copy comes back, and no byte overtakes another, also
\* when the ring buffer is full or the driver takes a part of a chunk only:
\* every step drops the end of what arrives or of what is sent, or nothing.
StreamSpec == Stream!Spec

\* No lost wake-up: the transmit interrupt, which TxEmpty disables and a new
\* byte enables, is enabled whenever the ring buffer has bytes.
NoLostWakeup == rb # <<>> => tx_irq

\* DTR is polled by exactly one of the timer and the work item until the port
\* is ready, and never again: reception is set up once.
OnePoller ==
  /\ ~(my_timer /\ my_work)
  /\ my_timer \/ my_work <=> app = "polling"

\* Every byte that was accepted is eventually sent back.
EventuallyEchoed ==
  \A n \in 1..MaxBytes : Contains(rb, n) ~> Contains(echoed, n)

\* The polling notices DTR: it ends, unless the host drops the line again.
EventuallyReady == (app = "polling" /\ dtr) ~> (app = "ready" \/ ~dtr)
=============================================================================
