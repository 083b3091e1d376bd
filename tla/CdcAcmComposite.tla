-------------------------- MODULE CdcAcmComposite --------------------------
(***************************************************************************)
(* The bridge between two USB CDC ACM ports: what arrives on one is put in *)
(* a ring buffer and sent on the other.  threadA waits for DTR of both and *)
(* sets the bridge up; interrupt_handler serves both ports, one at a time, *)
(* because the USB stack calls it from one work queue.                     *)
(*                                                                         *)
(* rb[d] is the ring buffer of what arrives on d, peers[d].rb in the code; *)
(* a byte is identified by its position among those received on its port.  *)
(***************************************************************************)
EXTENDS Integers, Sequences, SequencesExt

CONSTANTS
  RING_BUF_SIZE,  \* bytes in a ring buffer
  CHUNK,          \* size of the handler's buf
  TX_SPACE,       \* bytes the CDC ACM driver takes in one uart_fifo_fill
  RX_FIFO_SIZE,   \* bytes the CDC ACM driver holds for uart_fifo_read
  MaxBytes        \* bound: bytes a host sends

ASSUME SizesAssumption ==
  {RING_BUF_SIZE, CHUNK, TX_SPACE, RX_FIFO_SIZE} \subseteq Nat \ {0}
ASSUME BoundsAssumption == MaxBytes \in Nat

Port == {0, 1}
other(d) == 1 - d

VARIABLES
  thread,    \* calls threadA has made, or -1 when it gave up
  linked,    \* the peers and their ring buffers are initialised
  installed, \* interrupt_handler is installed
  rx_irq, tx_irq,  \* interrupts enabled, of each port
  active,    \* the port that interrupt_handler serves, or -1
  handler,   \* its control point: "loop", "rx" or "tx"
  rb,
  dtr,       \* DTR of each port
  tx_ready,  \* each port can take the next chunk
  rx_fifo,   \* bytes waiting in the driver of each port
  \* History, read by the properties only:
  received,  \* bytes read from each port
  accepted,  \* those that ring_buf_put took
  delivered  \* the bytes sent on each port

setup == <<thread, linked, installed, rx_irq>>
ports == <<dtr, tx_ready, rx_fifo>>
history == <<received, accepted, delivered>>
vars == <<setup, tx_irq, active, handler, rb, ports, history>>

Init ==
  /\ thread = 0 /\ linked = FALSE /\ installed = FALSE
  /\ rx_irq = [d \in Port |-> FALSE] /\ tx_irq = rx_irq
  /\ active = -1 /\ handler = "loop"
  /\ rb = [d \in Port |-> <<>>]
  /\ dtr = [d \in Port |-> FALSE] /\ tx_ready = [d \in Port |-> TRUE]
  /\ rx_fifo = [d \in Port |-> 0]
  /\ received = [d \in Port |-> 0]
  /\ accepted = [d \in Port |-> <<>>] /\ delivered = accepted

-----------------------------------------------------------------------------
(* threadA.                                                                *)

Calls_LinkLate ==
  <<"usb_enable", "DTR 0", "DTR 1", "callbacks", "rx 0", "link", "rx 1">>
Calls == <<"usb_enable", "DTR 0", "DTR 1", "link", "callbacks", "rx 0", "rx 1">>

Does(call) ==
  thread \in 0..6 /\ Calls[thread + 1] = call /\ thread' = thread + 1

UsbEnabled == thread > 0

\* A port is not ready, or USB cannot be enabled.
GivesUp ==
  /\ thread = 0
  /\ thread' = -1
  /\ UNCHANGED <<linked, installed, rx_irq, tx_irq, active, handler, rb, ports, history>>

UsbEnable ==
  /\ Does("usb_enable")
  /\ UNCHANGED <<linked, installed, rx_irq, tx_irq, active, handler, rb, ports, history>>

\* DTR of port 0 is not looked at again while the thread waits for port 1.
WaitForDtr ==
  /\ \/ Does("DTR 0") /\ dtr[0]
     \/ Does("DTR 1") /\ dtr[1]
  /\ UNCHANGED <<linked, installed, rx_irq, tx_irq, active, handler, rb, ports, history>>

Link ==
  /\ Does("link")
  /\ linked' = TRUE
  /\ rb' = [d \in Port |-> <<>>]
  /\ UNCHANGED <<installed, rx_irq, tx_irq, active, handler, ports, history>>

Install ==
  /\ Does("callbacks")
  /\ installed' = TRUE
  /\ UNCHANGED <<linked, rx_irq, tx_irq, active, handler, rb, ports, history>>

\* Reception starts on port 0 first: the handler may run before port 1 follows.
RxEnable ==
  /\ \/ Does("rx 0") /\ rx_irq' = [rx_irq EXCEPT ![0] = TRUE]
     \/ Does("rx 1") /\ rx_irq' = [rx_irq EXCEPT ![1] = TRUE]
  /\ UNCHANGED <<linked, installed, tx_irq, active, handler, rb, ports, history>>

threadA == GivesUp \/ UsbEnable \/ WaitForDtr \/ Link \/ Install \/ RxEnable

-----------------------------------------------------------------------------
(* interrupt_handler.                                                      *)

uart_irq_rx_ready(d) == rx_fifo[d] > 0
uart_irq_tx_ready(d) == tx_irq[d] /\ tx_ready[d]
uart_irq_is_pending(d) == (rx_irq[d] /\ uart_irq_rx_ready(d)) \/ uart_irq_tx_ready(d)

Called ==
  /\ active = -1 /\ installed
  /\ \E d \in Port : uart_irq_is_pending(d) /\ active' = d
  /\ UNCHANGED <<setup, tx_irq, handler, rb, ports, history>>

\* The head of the loop: another turn, or return.
Loop ==
  /\ active # -1 /\ handler = "loop"
  /\ IF uart_irq_is_pending(active)
       THEN handler' = "rx" /\ UNCHANGED active
       ELSE active' = -1 /\ UNCHANGED handler
  /\ UNCHANGED <<setup, tx_irq, rb, ports, history>>

min(a, b) == IF a < b THEN a ELSE b

\* How many of n bytes ring_buf_put takes: what does not fit is dropped.
ring_buf_put(d, n) == min(n, RING_BUF_SIZE - Len(rb[d]))

\* Transmission is enabled on the port the bytes go to.
TxEnable_Own(d) == tx_irq' = [tx_irq EXCEPT ![d] = TRUE]
TxEnable(d) == tx_irq' = [tx_irq EXCEPT ![other(d)] = TRUE]

\* A chunk is read and put in the ring buffer.
Rx ==
  /\ active # -1 /\ handler = "rx"
  /\ handler' = "tx"
  /\ LET d == active
         read == min(rx_fifo[d], CHUNK)
         wrote == ring_buf_put(d, read)
         new == [i \in 1..wrote |-> received[d] + i]
     IN /\ rx_fifo' = [rx_fifo EXCEPT ![d] = @ - read]
        /\ received' = [received EXCEPT ![d] = @ + read]
        /\ rb' = [rb EXCEPT ![d] = @ \o new]
        /\ accepted' = [accepted EXCEPT ![d] = @ \o new]
        /\ IF wrote > 0 THEN TxEnable(d) ELSE UNCHANGED tx_irq
  /\ UNCHANGED <<setup, active, dtr, tx_ready, delivered>>

\* The ring buffer that goes out on d.
Source_Own(d) == d
Source(d) == other(d)

\* Nothing to do, nothing to send, or a chunk to send.
Tx ==
  /\ active # -1 /\ handler = "tx"
  /\ handler' = "loop"
  /\ LET d == active
         from == rb[Source(d)]
         len == min(Len(from), CHUNK)
     IN IF ~uart_irq_tx_ready(d) THEN UNCHANGED <<rb, tx_irq, tx_ready, delivered>>
        ELSE IF len = 0 THEN /\ tx_irq' = [tx_irq EXCEPT ![d] = FALSE]
                             /\ UNCHANGED <<rb, tx_ready, delivered>>
        ELSE /\ rb' = [rb EXCEPT ![Source(d)] = SubSeq(from, len + 1, Len(from))]
             /\ delivered' = [delivered EXCEPT ![d] =
                                @ \o SubSeq(from, 1, min(len, TX_SPACE))]
             /\ tx_ready' = [tx_ready EXCEPT ![d] = FALSE]
             /\ UNCHANGED tx_irq
  /\ UNCHANGED <<setup, active, dtr, rx_fifo, received, accepted>>

interrupt_handler == Called \/ Loop \/ Rx \/ Tx

-----------------------------------------------------------------------------
(* The hosts and the USB stack.                                            *)

\* Nobody looks at the lines once threadA has seen both.
HostSetsLine ==
  /\ thread \in 1..2
  /\ \E d \in Port : dtr' = [dtr EXCEPT ![d] = ~@]
  /\ UNCHANGED <<setup, tx_irq, active, handler, rb, tx_ready, rx_fifo, history>>

HostSends ==
  /\ UsbEnabled
  /\ \E d \in Port : /\ rx_fifo[d] < RX_FIFO_SIZE
                     /\ received[d] + rx_fifo[d] < MaxBytes
                     /\ rx_fifo' = [rx_fifo EXCEPT ![d] = @ + 1]
  /\ UNCHANGED <<setup, tx_irq, active, handler, rb, dtr, tx_ready, history>>

HostReads ==
  /\ \E d \in Port : ~tx_ready[d] /\ tx_ready' = [tx_ready EXCEPT ![d] = TRUE]
  /\ UNCHANGED <<setup, tx_irq, active, handler, rb, dtr, rx_fifo, history>>

Next == threadA \/ interrupt_handler \/ HostSetsLine \/ HostSends \/ HostReads

Spec == Init /\ [][Next]_vars

\* threadA is scheduled, the handler is called and returns, and hosts read.
FairSpec ==
  /\ Spec
  /\ WF_vars(threadA) /\ WF_vars(interrupt_handler) /\ WF_vars(HostReads)

-----------------------------------------------------------------------------

\* Every variable has its type, and each ring buffer stays within its size.
TypeOK ==
  /\ thread \in -1..7 /\ linked \in BOOLEAN /\ installed \in BOOLEAN
  /\ rx_irq \in [Port -> BOOLEAN] /\ tx_irq \in [Port -> BOOLEAN]
  /\ dtr \in [Port -> BOOLEAN] /\ tx_ready \in [Port -> BOOLEAN]
  /\ active \in {-1} \cup Port /\ handler \in {"loop", "rx", "tx"}
  /\ rx_fifo \in [Port -> 0..RX_FIFO_SIZE] /\ received \in [Port -> Nat]
  /\ rb \in [Port -> Seq(Nat)] /\ \A d \in Port : Len(rb[d]) <= RING_BUF_SIZE
  /\ accepted \in [Port -> Seq(Nat)] /\ delivered \in [Port -> Seq(Nat)]

\* interrupt_handler follows peer->data and uses the ring buffers only once
\* threadA has initialised them.
LinkedBeforeUse == active # -1 => linked

\* Both ways, the bytes sent on one port, followed by those still in the ring
\* buffer, are the bytes accepted from the other, in order and each once; the
\* two directions never mix, and no ring buffer is filled beyond its size.
Bridge == TypeOK /\ \A d \in Port : delivered[other(d)] \o rb[d] = accepted[d]

\* The two directions, each seen as a stream of bytes.
There == INSTANCE LossyStream WITH
  offered <- received[0], queue <- rb[0], delivered <- delivered[1]
Back == INSTANCE LossyStream WITH
  offered <- received[1], queue <- rb[1], delivered <- delivered[0]

\* In both directions a byte arrives at most once and overtakes no other, also
\* when a chunk fits a ring buffer, or the driver takes it, in part only.
StreamSpec == There!Spec /\ Back!Spec

\* No lost wake-up across the ports: the handler of one port disables its own
\* transmission when it finds nothing, and the handler of the other enables it
\* again with the next byte.
NoLostWakeup == \A d \in Port : rb[d] # <<>> => tx_irq[other(d)]

\* A byte that was accepted on one port is eventually sent on the other.
EventuallyForwarded ==
  \A d \in Port : \A n \in 1..MaxBytes :
    Contains(rb[d], n) ~> Contains(delivered[other(d)], n)
=============================================================================
