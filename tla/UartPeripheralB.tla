--------------------------- MODULE UartPeripheralB ---------------------------
(***************************************************************************)
(* The my_uart_peripheral_b driver and its application: lines received on  *)
(* the UART are handed to app_callback, which queues "SEND:" ++ line in    *)
(* tx_rb; the interrupt handler transmits one queued item at a time and    *)
(* then holds further items until a line starting with "OK" arrives or     *)
(* sending_guard_timer expires.                                            *)
(*                                                                         *)
(* Contexts: the boot thread (driver init, then main), the UART interrupt, *)
(* the timer interrupt, and the hardware.  The two interrupts have the     *)
(* same priority, so neither preempts the other; both preempt the thread.  *)
(* Characters are abstracted to what the driver tells apart ('\n' and '\r' *)
(* are both "eol"), a queued item to its line number, lengths and header.  *)
(***************************************************************************)
EXTENDS Integers, Sequences, SequencesExt

CONSTANTS
  RX_BUF_SIZE,            \* CONFIG_MY_UART_PERIPHERAL_B_RX_BUF_SIZE, bytes
  TX_BUF_WORDS,           \* CONFIG_MY_UART_PERIPHERAL_B_TX_BUF_WORDS
  TX_BUFFERING_BUF_WORDS, \* CONFIG_MY_UART_PERIPHERAL_B_TX_BUFFERING_BUF_WORDS
  TX_FIFO_SIZE,           \* bytes uart_fifo_fill takes in one call
  GUARD_TICKS,            \* the 5000 ms of sending_guard_timer, in clock ticks
  Input,                  \* bound: the characters the other side sends
  MaxLineLen,             \* bound: its longest line, terminator included
  MaxLines                \* bound: lines handed to app_callback

Char == {"O", "K", "x", "eol"}

ASSUME SizesAssumption ==
  /\ RX_BUF_SIZE \in Nat \ {0}
  /\ TX_BUF_WORDS \in Nat
  /\ TX_BUFFERING_BUF_WORDS \in Nat
  /\ TX_FIFO_SIZE \in Nat \ {0}

ASSUME GuardAssumption == GUARD_TICKS \in Nat \ {0}

ASSUME InputAssumption ==
  /\ Input \subseteq Char
  /\ MaxLineLen \in Nat
  /\ MaxLines \in Nat

VARIABLES
  dev,            \* how far init_my_uart_peripheral_b got
  callback,       \* data->callback is app_callback (otherwise NULL)
  isr,            \* control point of uart_int_handler; "out" outside of it
  rx_irq,         \* UART: receive interrupt enabled
  tx_irq,         \* UART: transmit interrupt enabled
  tx_busy,        \* UART: still shifting out the last uart_fifo_fill
  rx_buf,         \* the rx_data_len bytes held in data->rx_buf
  tx_rb,          \* data->tx_rb, oldest item first
  sending_guard,  \* data->sending_guard
  timer,          \* ticks until sending_guard_timer expires, or Off
  \* History, read by the properties only:
  heard,          \* lines handed to app_callback
  sent,           \* what was transmitted, in order
  acked,          \* an "OK" line was handled since the last transmission
  elapsed,        \* ticks since the last transmission, while the timer runs
  overrun         \* build_user_send_data wrote past the end of buf

uartVars == <<rx_irq, tx_irq, tx_busy>>
history == <<heard, sent, acked, elapsed, overrun>>
vars == <<dev, callback, isr, uartVars, rx_buf, tx_rb, sending_guard, timer,
          history>>

Off == -1

-----------------------------------------------------------------------------
(* Items: the header that tells the transmitter how long the data is.      *)

\* build_user_send_data: "SEND:" and the data.
build_user_send_data(length) == length + 5

\* The bytes of buf, a local array of 32-bit words.
buf_size_InWords == TX_BUF_WORDS
buf_size == TX_BUF_WORDS * 4

\* size32, a uint8_t number of words.
WordsOf_NoRoundUp(size) == (size \div 4) % 256
WordsOf(size) == ((size \div 4) + 1) % 256

\* value, a uint8_t: how many bytes of the last word are unused.
ValueOf(size) == (WordsOf(size) * 4 - size) % 256

\* The number of bytes the transmitter recovers from an item's header.
BytesOf(item) == item.words * 4 - item.value

\* The bytes uart_fifo_fill takes of n; n is a size_t, so a negative difference
\* is a huge count.
uart_fifo_fill(n) == IF n \in 0..TX_FIFO_SIZE THEN n ELSE TX_FIFO_SIZE

Item(line, length) ==
  LET size == build_user_send_data(length)
  IN [line |-> line, length |-> length,
      words |-> WordsOf(size), value |-> ValueOf(size)]

\* Words in use in an item-mode ring buffer: every item has a header word.
RbWords(rb) == FoldSeq(LAMBDA item, n : item.words + 1 + n, 0, rb)

\* ring_buf_item_put does not return -EMSGSIZE.
HasRoom(rb, item) == RbWords(rb) + item.words + 1 <= TX_BUFFERING_BUF_WORDS

\* What user_send_data leaves in the ring buffer: an item that does not fit is
\* dropped.
user_send_data_DropOldest(rb, item) ==
  CASE HasRoom(rb, item) -> Append(rb, item)
    [] ~HasRoom(rb, item) /\ rb # <<>> -> Append(Tail(rb), item)
    [] OTHER -> rb
user_send_data(rb, item) == IF HasRoom(rb, item) THEN Append(rb, item) ELSE rb

\* The application sends every line back.
app_callback(rb, item) == user_send_data(rb, item)

\* ring_buf_item_get succeeds: not empty (-EAGAIN), and the first item is not
\* larger than my_data (-EMSGSIZE; it stays first).  my_size is a uint8_t.
FitsMyData(item) == item.words <= TX_BUF_WORDS % 256
CanGet(rb) == rb # <<>> /\ FitsMyData(Head(rb))

-----------------------------------------------------------------------------
(* Boot: driver initialisation at POST_KERNEL, then main.  The receive     *)
(* interrupt is on before the ring buffer and the timer are initialised.   *)

Init ==
  /\ dev = "off"
  /\ callback = FALSE
  /\ isr = "out"
  /\ rx_irq = FALSE /\ tx_irq = FALSE /\ tx_busy = FALSE
  /\ rx_buf = <<>>
  /\ tx_rb = <<>>
  /\ sending_guard = FALSE
  /\ timer = Off
  /\ heard = 0 /\ sent = <<>> /\ acked = FALSE /\ elapsed = 0
  /\ overrun = FALSE

\* The UART is ready: install uart_int_handler and enable reception.
init_uart ==
  /\ dev = "off"
  /\ dev' = "uart"
  /\ rx_irq' = TRUE
  /\ UNCHANGED <<callback, isr, tx_irq, tx_busy, rx_buf, tx_rb, sending_guard,
                 timer, history>>

\* The UART, the GPIO port or its pin configuration failed: -ENODEV.  After
\* init_uart, reception stays enabled.
InitFails ==
  /\ dev \in {"off", "uart"}
  /\ isr = "out"
  /\ dev' = "failed"
  /\ UNCHANGED <<callback, isr, uartVars, rx_buf, tx_rb, sending_guard, timer,
                 history>>

\* The GPIO is configured; the ring buffer and the timer are initialised.
InitSucceeds ==
  /\ dev = "uart"
  /\ isr = "out"
  /\ dev' = "ready"
  /\ tx_rb' = <<>>
  /\ timer' = Off
  /\ UNCHANGED <<callback, isr, uartVars, rx_buf, sending_guard, history>>

user_set_callback == callback' = TRUE

main_my_uart_peripheral_b_Unchecked ==
  /\ dev # "off"
  /\ isr = "out"
  /\ user_set_callback
  /\ UNCHANGED <<dev, isr, uartVars, rx_buf, tx_rb, sending_guard, timer,
                 history>>

\* main registers app_callback, if the device is ready.
main_my_uart_peripheral_b ==
  /\ dev = "ready"
  /\ isr = "out"
  /\ ~callback
  /\ user_set_callback
  /\ UNCHANGED <<dev, isr, uartVars, rx_buf, tx_rb, sending_guard, timer,
                 history>>

-----------------------------------------------------------------------------
(* uart_int_handler: first the characters that are ready, then, if the     *)
(* transmitter is ready, at most one item.                                 *)

check_sending_guard(line) ==
  /\ Len(line) >= 2
  /\ line[1] = "O" /\ line[2] = "K"

\* rx_buf_capacity == 0
RxBufFull_OffByOne(len) == len = RX_BUF_SIZE + 1
RxBufFull(len) == len = RX_BUF_SIZE

\* uart_irq_rx_ready, on entry or inside the receive loop.
RxReady == rx_irq /\ isr \in {"out", "rx"}

\* uart_irq_tx_ready: the interrupt is enabled and the transmitter is idle.
TxReady == tx_irq /\ ~tx_busy

\* A character that does not end a line.  A full buffer is discarded.
RxData(c) ==
  /\ RxReady
  /\ c # "eol"
  /\ Len(rx_buf) + 1 < MaxLineLen
  /\ isr' = "rx"
  /\ rx_buf' = IF RxBufFull(Len(rx_buf) + 1) THEN <<>> ELSE Append(rx_buf, c)
  /\ UNCHANGED <<dev, callback, uartVars, tx_rb, sending_guard, timer, history>>

\* A character that ends a line: release the guard if it is the awaited
\* answer, then app_callback -> user_send_data, then clear the buffer.  A line
\* too long for buf is written past its end: the firmware may fault or go on.
RxLine ==
  LET line == Append(rx_buf, "eol")
      ok == check_sending_guard(line)
      item == Item(heard + 1, Len(line))
      put == callback /\ HasRoom(tx_rb, item)
      over == callback /\ build_user_send_data(Len(line)) > buf_size
  IN /\ RxReady
     /\ heard < MaxLines
     /\ isr' \in IF over THEN {"rx", "fault"} ELSE {"rx"}
     /\ sending_guard' = (sending_guard /\ ~ok)
     /\ tx_rb' = IF callback THEN app_callback(tx_rb, item) ELSE tx_rb
     /\ tx_irq' = (tx_irq \/ ok \/ put)
     /\ rx_buf' = <<>>
     /\ heard' = IF callback THEN heard + 1 ELSE heard
     /\ acked' = (acked \/ ok)
     /\ overrun' = (overrun \/ over)
     /\ UNCHANGED <<dev, callback, rx_irq, tx_busy, timer, sent, elapsed>>

\* No further character is ready: leave the receive loop.
RxDrained ==
  /\ isr = "rx"
  /\ isr' = "tx"
  /\ UNCHANGED <<dev, callback, uartVars, rx_buf, tx_rb, sending_guard, timer,
                 history>>

\* The transmitter raised the interrupt.
TxInterrupt ==
  /\ isr = "out"
  /\ TxReady
  /\ isr' = "tx"
  /\ UNCHANGED <<dev, callback, uartVars, rx_buf, tx_rb, sending_guard, timer,
                 history>>

TxNotReady ==
  /\ isr = "tx"
  /\ ~TxReady
  /\ isr' = "out"
  /\ UNCHANGED <<dev, callback, uartVars, rx_buf, tx_rb, sending_guard, timer,
                 history>>

TxAllowed == ~sending_guard

\* Hold: the guard is set, or no item can be taken from the ring buffer.
TxHold ==
  /\ isr = "tx"
  /\ TxReady
  /\ ~(TxAllowed /\ CanGet(tx_rb))
  /\ isr' = "out"
  /\ tx_irq' = FALSE
  /\ UNCHANGED <<dev, callback, rx_irq, tx_busy, rx_buf, tx_rb, sending_guard,
                 timer, history>>

\* k_timer_start (re)starts the timer with the full duration.
k_timer_start_IfStopped(t) == IF t = Off THEN GUARD_TICKS ELSE t
k_timer_start(t) == GUARD_TICKS

\* Transmit the first item, set the guard and start its timer.  The number of
\* bytes uart_fifo_fill took is not looked at.
TxItem ==
  /\ isr = "tx"
  /\ TxReady
  /\ TxAllowed
  /\ CanGet(tx_rb)
  /\ isr' = "out"
  /\ tx_rb' = Tail(tx_rb)
  /\ tx_busy' = TRUE
  /\ sending_guard' = TRUE
  /\ timer' = k_timer_start(timer)
  /\ LET item == Head(tx_rb)
     IN sent' = Append(sent, [line |-> item.line, length |-> item.length,
                              bytes |-> uart_fifo_fill(BytesOf(item))])
  /\ acked' = FALSE
  /\ elapsed' = 0
  /\ UNCHANGED <<dev, callback, rx_irq, tx_irq, rx_buf, heard, overrun>>

-----------------------------------------------------------------------------
(* The timer interrupt and the hardware.                                   *)

sending_guard_timer_expired_function_NoEnable ==
  /\ timer = 0
  /\ isr = "out"
  /\ timer' = Off
  /\ sending_guard' = FALSE
  /\ UNCHANGED <<dev, callback, isr, uartVars, rx_buf, tx_rb, history>>

\* One shot: release the guard and let the transmitter try again.
sending_guard_timer_expired_function ==
  /\ timer = 0
  /\ isr = "out"
  /\ timer' = Off
  /\ sending_guard' = FALSE
  /\ tx_irq' = TRUE
  /\ UNCHANGED <<dev, callback, isr, rx_irq, tx_busy, rx_buf, tx_rb, history>>

\* The kernel clock advances a running timer.
Tick ==
  /\ timer > 0
  /\ timer' = timer - 1
  /\ elapsed' = elapsed + 1
  /\ UNCHANGED <<dev, callback, isr, uartVars, rx_buf, tx_rb, sending_guard,
                 heard, sent, acked, overrun>>

\* The UART has shifted out everything it was given.
TxDone ==
  /\ tx_busy
  /\ tx_busy' = FALSE
  /\ UNCHANGED <<dev, callback, isr, rx_irq, tx_irq, rx_buf, tx_rb,
                 sending_guard, timer, history>>

Rx == (\E c \in Input : RxData(c)) \/ ("eol" \in Input /\ RxLine)

Boot == init_uart \/ InitFails \/ InitSucceeds \/ main_my_uart_peripheral_b

Next ==
  \/ Boot
  \/ Rx \/ RxDrained
  \/ TxInterrupt \/ TxNotReady \/ TxHold \/ TxItem
  \/ sending_guard_timer_expired_function
  \/ Tick \/ TxDone

Spec == Init /\ [][Next]_vars

\* A started interrupt handler finishes, a pending interrupt is taken, the
\* hardware makes progress.  Nothing is assumed of the other side, nor of the
\* success of the initialisation.  The timer interrupt can be disabled again
\* and again by the handler running, but is pending all the time and is taken
\* when the handler returns: strong fairness.
Fairness ==
  /\ WF_vars(RxDrained)
  /\ WF_vars(TxInterrupt)
  /\ WF_vars(TxNotReady \/ TxHold \/ TxItem)
  /\ SF_vars(sending_guard_timer_expired_function)
  /\ WF_vars(Tick)
  /\ WF_vars(TxDone)

FairSpec == Spec /\ Fairness

-----------------------------------------------------------------------------
(* Properties.                                                             *)

ItemType == [line : Nat, length : Nat, words : Nat, value : Nat]

\* Every variable has its type, and data->rx_buf[data->rx_data_len] is inside
\* the array whenever uart_int_handler stores the next character.
TypeOK ==
  /\ dev \in {"off", "uart", "ready", "failed"}
  /\ isr \in {"out", "rx", "tx", "fault"}
  /\ callback \in BOOLEAN /\ sending_guard \in BOOLEAN
  /\ rx_irq \in BOOLEAN /\ tx_irq \in BOOLEAN /\ tx_busy \in BOOLEAN
  /\ acked \in BOOLEAN /\ overrun \in BOOLEAN
  /\ rx_buf \in Seq(Char) /\ Len(rx_buf) < RX_BUF_SIZE
  /\ tx_rb \in Seq(ItemType)
  /\ timer \in {Off} \cup 0..GUARD_TICKS
  /\ heard \in Nat /\ elapsed \in Nat
  /\ sent \in Seq([line : Nat, length : Nat, bytes : Nat])

\* Although reception is enabled first, the handler puts nothing in the ring
\* buffer and starts no timer before both are initialised, and never does if
\* initialisation fails.
InitBeforeUse ==
  tx_rb # <<>> \/ sending_guard \/ timer # Off => dev = "ready"

\* No lost wake-up: while an item that can be transmitted is waiting, either
\* the transmit interrupt is enabled, or the guard holds it back and the timer
\* that releases the guard is running.
NoLostWakeup ==
  CanGet(tx_rb) => tx_irq \/ (sending_guard /\ timer # Off)

\* "A mechanism waiting for a specific response before sending next data": an
\* item is transmitted only if, since the previous transmission, an "OK" line
\* was received or the full guard time passed; a timer left running by an
\* earlier item never cuts it short.
GuardRespected ==
  [][sent' # sent => sent = <<>> \/ acked \/ elapsed >= GUARD_TICKS]_vars

\* Sizes for which every line that fits rx_buf can be queued, taken out and
\* transmitted whole.  The Kconfig defaults do not satisfy this.
WellSized ==
  /\ build_user_send_data(RX_BUF_SIZE) < buf_size
  /\ TX_BUF_WORDS < 256
  /\ buf_size <= TX_FIFO_SIZE

\* What is transmitted for a line is all of "SEND:" and the line: its length
\* survives the encoding in the words and value of the ring buffer's header.
SentWhole ==
  \A i \in 1..Len(sent) :
    sent[i].bytes = build_user_send_data(sent[i].length)

\* build_user_send_data stays inside buf.
NoOverrun == ~overrun /\ isr # "fault"

\* The lines handed to app_callback go through a lossy FIFO: each is dropped
\* at once or transmitted at most once, in the order of reception.
Relay == INSTANCE LossyFifo WITH
  offered   <- heard,
  queue     <- [i \in 1..Len(tx_rb) |-> tx_rb[i].line],
  delivered <- [i \in 1..Len(sent) |-> sent[i].line]

RelaySpec == Relay!Spec

\* Every line that user_send_data queued is eventually transmitted.
EventuallySent ==
  \A n \in 1..MaxLines :
    (\E i \in 1..Len(tx_rb) : tx_rb[i].line = n)
      ~> (\E i \in 1..Len(sent) : sent[i].line = n)
=============================================================================
