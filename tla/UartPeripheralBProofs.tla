------------------------ MODULE UartPeripheralBProofs ------------------------
(***************************************************************************)
(* Theorems about the my_uart_peripheral_b driver, for buffers, guard      *)
(* times and inputs of any size.                                           *)
(***************************************************************************)
EXTENDS UartPeripheralB, CommonLemmas, TLAPS

-----------------------------------------------------------------------------
(* Items.                                                                  *)

\* The header fields of an item are natural numbers.
LEMMA ItemType_Item ==
  ASSUME NEW line \in Nat, NEW length \in Nat
  PROVE  Item(line, length) \in ItemType
<1>1. build_user_send_data(length) \in Nat
  BY DEF build_user_send_data
<1>2. ASSUME NEW size \in Nat
      PROVE  WordsOf(size) \in Nat /\ ValueOf(size) \in Nat
  BY DEF WordsOf, ValueOf
<1>3. QED
  BY <1>1, <1>2 DEF Item, ItemType

\* Queueing keeps the ring buffer a sequence of items, and the new item is the
\* only one that can be added.
LEMMA user_send_data_Type ==
  ASSUME NEW S, NEW rb \in Seq(S), NEW item \in S
  PROVE  user_send_data(rb, item) \in Seq(S)
BY DEF user_send_data

\* uart_fifo_fill takes a natural number of bytes.
LEMMA uart_fifo_fill_Type ==
  ASSUME NEW n \in Int
  PROVE  uart_fifo_fill(n) \in Nat
BY SizesAssumption DEF uart_fifo_fill

-----------------------------------------------------------------------------
(* Type correctness.                                                       *)

\* A received character keeps rx_data_len below the size of rx_buf.
LEMMA RxDataType ==
  ASSUME TypeOK, NEW c \in Input, RxData(c)
  PROVE  TypeOK'
<1>1. c \in Char
  BY InputAssumption
<1>2. rx_buf' \in Seq(Char) /\ Len(rx_buf') < RX_BUF_SIZE
  <2>1. CASE RxBufFull(Len(rx_buf) + 1)
    BY <2>1, SizesAssumption DEF RxData, TypeOK
  <2>2. CASE ~RxBufFull(Len(rx_buf) + 1)
    <3>1. rx_buf' = Append(rx_buf, c) /\ Len(rx_buf) + 1 # RX_BUF_SIZE
      BY <2>2 DEF RxData, RxBufFull
    <3>2. rx_buf \in Seq(Char) /\ Len(rx_buf) \in Nat /\ Len(rx_buf) < RX_BUF_SIZE
      BY DEF TypeOK
    <3>3. QED
      BY <1>1, <3>1, <3>2, SizesAssumption
  <2>3. QED
    BY <2>1, <2>2
<1>3. QED
  BY <1>2 DEF RxData, TypeOK, uartVars, history

\* Neither does a line, which empties rx_buf.
LEMMA RxLineType ==
  ASSUME TypeOK, RxLine
  PROVE  TypeOK'
<1> DEFINE line == Append(rx_buf, "eol")
           item == Item(heard + 1, Len(line))
<1>1. Len(line) \in Nat /\ heard + 1 \in Nat
  BY DEF TypeOK, Char
<1>2. item \in ItemType
  BY <1>1, ItemType_Item
<1>3. tx_rb' \in Seq(ItemType)
  <2>1. tx_rb' = user_send_data(tx_rb, item) \/ tx_rb' = tx_rb
    BY DEF RxLine, app_callback
  <2>2. tx_rb \in Seq(ItemType)
    BY DEF TypeOK
  <2>3. user_send_data(tx_rb, item) \in Seq(ItemType)
    BY <1>2, <2>2, user_send_data_Type
  <2>4. QED
    BY <2>1, <2>2, <2>3
<1>4. isr' \in {"out", "rx", "tx", "fault"}
  BY DEF RxLine
<1>5. rx_buf' \in Seq(Char) /\ Len(rx_buf') < RX_BUF_SIZE
  BY SizesAssumption DEF RxLine
<1>6. /\ sending_guard' \in BOOLEAN /\ tx_irq' \in BOOLEAN
      /\ acked' \in BOOLEAN /\ overrun' \in BOOLEAN
  BY DEF RxLine, TypeOK
<1>7. heard' \in Nat
  BY DEF RxLine, TypeOK
<1>8. QED
  BY <1>3, <1>4, <1>5, <1>6, <1>7 DEF RxLine, TypeOK

\* Transmitting an item records a natural number of bytes.
LEMMA TxItemType ==
  ASSUME TypeOK, TxItem
  PROVE  TypeOK'
<1> DEFINE item == Head(tx_rb)
           rec == [line |-> item.line, length |-> item.length,
                   bytes |-> uart_fifo_fill(BytesOf(item))]
<1>1. item \in ItemType /\ Tail(tx_rb) \in Seq(ItemType)
  BY DEF TypeOK, TxItem, CanGet
<1>2. uart_fifo_fill(BytesOf(item)) \in Nat
  <2>1. BytesOf(item) \in Int
    BY <1>1 DEF BytesOf, ItemType
  <2>2. QED
    BY <2>1, uart_fifo_fill_Type
<1>3. rec \in [line : Nat, length : Nat, bytes : Nat]
  BY <1>1, <1>2 DEF ItemType
<1>4. sent' \in Seq([line : Nat, length : Nat, bytes : Nat])
  BY <1>3 DEF TxItem, TypeOK
<1>5. timer' \in {Off} \cup 0..GUARD_TICKS
  BY GuardAssumption DEF TxItem, k_timer_start
<1>6. QED
  BY <1>1, <1>4, <1>5 DEF TxItem, TypeOK

LEMMA TypeInductive ==
  ASSUME TypeOK, [Next]_vars
  PROVE  TypeOK'
<1>1. CASE Boot
  <2>1. CASE init_uart
    BY <2>1 DEF init_uart, TypeOK, history
  <2>2. CASE InitFails
    BY <2>2 DEF InitFails, TypeOK, uartVars, history
  <2>3. CASE InitSucceeds
    BY <2>3 DEF InitSucceeds, TypeOK, uartVars, history
  <2>4. CASE main_my_uart_peripheral_b
    BY <2>4
    DEF main_my_uart_peripheral_b, user_set_callback, TypeOK, uartVars, history
  <2>5. QED
    BY <1>1, <2>1, <2>2, <2>3, <2>4 DEF Boot
<1>2. CASE Rx
  BY <1>2, RxDataType, RxLineType DEF Rx
<1>3. CASE RxDrained \/ TxInterrupt \/ TxNotReady \/ TxHold
  BY <1>3
  DEF RxDrained, TxInterrupt, TxNotReady, TxHold, TypeOK, uartVars, history
<1>4. CASE TxItem
  BY <1>4, TxItemType
<1>5. CASE sending_guard_timer_expired_function
  BY <1>5 DEF sending_guard_timer_expired_function, TypeOK, history
<1>6. CASE Tick
  <2>1. timer' \in {Off} \cup 0..GUARD_TICKS /\ elapsed' \in Nat
    BY <1>6, GuardAssumption DEF Tick, TypeOK, Off
  <2>2. QED
    BY <1>6, <2>1 DEF Tick, TypeOK, uartVars
<1>7. CASE TxDone
  BY <1>7 DEF TxDone, TypeOK, history
<1>8. CASE UNCHANGED vars
  BY <1>8 DEF vars, TypeOK, uartVars, history
<1>9. QED
  BY <1>1, <1>2, <1>3, <1>4, <1>5, <1>6, <1>7, <1>8 DEF Next

LEMMA TypeInit == Init => TypeOK
<1> SUFFICES ASSUME Init PROVE TypeOK
  OBVIOUS
<1>1. rx_buf \in Seq(Char) /\ Len(rx_buf) < RX_BUF_SIZE
  BY SizesAssumption DEF Init
<1>2. /\ tx_rb \in Seq(ItemType)
      /\ sent \in Seq([line : Nat, length : Nat, bytes : Nat])
  BY DEF Init
<1>3. QED
  BY <1>1, <1>2 DEF Init, TypeOK

\* Whatever is received, uart_int_handler never stores a character outside of
\* data->rx_buf, and every variable keeps its type.
THEOREM TypeCorrect == Spec => []TypeOK
BY TypeInit, TypeInductive, PTL DEF Spec

-----------------------------------------------------------------------------
(* What a received line can do to the transmission.                        *)

\* The guard is released by an answer only, which also enables the transmit
\* interrupt; an item is queued by app_callback only, and enables it too.
LEMMA RxLineEffect ==
  ASSUME RxLine
  PROVE  /\ UNCHANGED <<dev, callback, timer, sent, elapsed>>
         /\ sending_guard' => sending_guard
         /\ tx_rb' # tx_rb => callback /\ tx_irq'
         /\ sending_guard /\ ~sending_guard' => acked' /\ tx_irq'
         /\ acked => acked'
         /\ tx_irq => tx_irq'
<1> DEFINE line == Append(rx_buf, "eol")
           ok == check_sending_guard(line)
           item == Item(heard + 1, Len(line))
<1>1. /\ UNCHANGED <<dev, callback, timer, sent, elapsed>>
      /\ sending_guard' = (sending_guard /\ ~ok)
      /\ tx_rb' = IF callback THEN user_send_data(tx_rb, item) ELSE tx_rb
      /\ tx_irq' = (tx_irq \/ ok \/ (callback /\ HasRoom(tx_rb, item)))
      /\ acked' = (acked \/ ok)
  BY DEF RxLine, app_callback
<1> HIDE DEF line, ok, item
<1>2. tx_rb' # tx_rb => callback /\ HasRoom(tx_rb, item)
  BY <1>1 DEF user_send_data
<1>3. QED
  BY <1>1, <1>2

-----------------------------------------------------------------------------
(* The ring buffer and the timer are not used before they are initialised. *)

\* The strengthening: only main, after it found the device ready, makes the
\* handler able to queue anything.
BootInv ==
  /\ InitBeforeUse
  /\ callback => dev = "ready"

LEMMA BootInit == Init => BootInv
BY DEF Init, BootInv, InitBeforeUse

LEMMA BootInductive ==
  ASSUME BootInv, [Next]_vars
  PROVE  BootInv'
<1> USE DEF BootInv, InitBeforeUse
<1>1. CASE Boot
  BY <1>1
  DEF Boot, init_uart, InitFails, InitSucceeds, main_my_uart_peripheral_b
<1>2. CASE Rx
  <2>1. CASE \E c \in Input : RxData(c)
    BY <2>1 DEF RxData
  <2>2. CASE RxLine
    BY <2>2, RxLineEffect
  <2>3. QED
    BY <1>2, <2>1, <2>2 DEF Rx
<1>3. CASE RxDrained \/ TxInterrupt \/ TxNotReady \/ TxHold
  BY <1>3 DEF RxDrained, TxInterrupt, TxNotReady, TxHold
<1>4. CASE TxItem
  BY <1>4 DEF TxItem, CanGet
<1>5. CASE sending_guard_timer_expired_function
  BY <1>5 DEF sending_guard_timer_expired_function
<1>6. CASE Tick
  BY <1>6 DEF Tick, Off
<1>7. CASE TxDone
  BY <1>7 DEF TxDone
<1>8. CASE UNCHANGED vars
  BY <1>8 DEF vars
<1>9. QED
  BY <1>1, <1>2, <1>3, <1>4, <1>5, <1>6, <1>7, <1>8 DEF Next

\* Although uart_int_handler can run as soon as init_uart returned, neither the
\* ring buffer nor the timer is used before, or without, their initialisation.
THEOREM BootCorrect == Spec => []InitBeforeUse
<1>1. BootInv => InitBeforeUse
  BY DEF BootInv
<1>2. QED
  BY <1>1, BootInit, BootInductive, PTL DEF Spec

-----------------------------------------------------------------------------
(* The transmission guard: no wake-up is lost, and it is respected.        *)

\* The guard is held only while its timer runs; once it is released, an answer
\* or the full guard time accounts for it; what the timer has left and what
\* has passed since the last transmission add up to the guard time.
GuardInv ==
  /\ TypeOK
  /\ BootInv
  /\ NoLostWakeup
  /\ sending_guard => timer # Off
  /\ sent # <<>> /\ ~sending_guard => acked \/ elapsed >= GUARD_TICKS
  /\ timer # Off => timer + elapsed >= GUARD_TICKS

LEMMA GuardInductive ==
  ASSUME GuardInv, [Next]_vars
  PROVE  GuardInv'
<1>1. TypeOK' /\ BootInv'
  BY TypeInductive, BootInductive DEF GuardInv
<1>2. CASE Boot
  <2>1. CASE InitSucceeds
    BY <1>1, <2>1
    DEF InitSucceeds, GuardInv, BootInv, InitBeforeUse, NoLostWakeup, CanGet,
        uartVars, history
  <2>2. CASE init_uart \/ InitFails \/ main_my_uart_peripheral_b
    BY <1>1, <2>2
    DEF init_uart, InitFails, main_my_uart_peripheral_b, GuardInv,
        NoLostWakeup, uartVars, history
  <2>3. QED
    BY <1>2, <2>1, <2>2 DEF Boot
<1>3. CASE \E c \in Input : RxData(c)
  BY <1>1, <1>3 DEF RxData, GuardInv, NoLostWakeup, uartVars, history
<1>4. CASE RxLine
  BY <1>1, <1>4, RxLineEffect DEF GuardInv, NoLostWakeup
<1>5. CASE RxDrained \/ TxInterrupt \/ TxNotReady
  BY <1>1, <1>5
  DEF RxDrained, TxInterrupt, TxNotReady, GuardInv, NoLostWakeup, uartVars,
      history
<1>6. CASE TxHold
  BY <1>1, <1>6 DEF TxHold, TxAllowed, GuardInv, NoLostWakeup, history
<1>7. CASE TxItem
  <2>1. /\ sending_guard' = TRUE /\ timer' = GUARD_TICKS /\ elapsed' = 0
    BY <1>7 DEF TxItem, k_timer_start
  <2>2. GUARD_TICKS # Off /\ GUARD_TICKS + 0 >= GUARD_TICKS
    BY GuardAssumption DEF Off
  <2>3. QED
    BY <1>1, <2>1, <2>2 DEF GuardInv, NoLostWakeup
<1>8. CASE sending_guard_timer_expired_function
  <2>1. timer = 0 /\ elapsed \in Nat /\ timer # Off
    BY <1>8 DEF sending_guard_timer_expired_function, GuardInv, TypeOK, Off
  <2>2. elapsed >= GUARD_TICKS
    BY <2>1, GuardAssumption DEF GuardInv
  <2>3. QED
    BY <1>1, <1>8, <2>2
    DEF sending_guard_timer_expired_function, GuardInv, NoLostWakeup, history
<1>9. CASE Tick
  <2>1. /\ timer # Off /\ timer' # Off
        /\ timer' + elapsed' = timer + elapsed
        /\ elapsed' >= elapsed
        /\ elapsed >= GUARD_TICKS => elapsed' >= GUARD_TICKS
    BY <1>9, GuardAssumption DEF Tick, GuardInv, TypeOK, Off
  <2>2. QED
    BY <1>1, <1>9, <2>1 DEF Tick, GuardInv, NoLostWakeup, uartVars
<1>10. CASE TxDone
  BY <1>1, <1>10 DEF TxDone, GuardInv, NoLostWakeup, history
<1>11. CASE UNCHANGED vars
  BY <1>1, <1>11 DEF vars, GuardInv, NoLostWakeup, uartVars, history
<1>12. QED
  BY <1>2, <1>3, <1>4, <1>5, <1>6, <1>7, <1>8, <1>9, <1>10, <1>11
  DEF Next, Rx

LEMMA GuardInvariant == Spec => []GuardInv
<1>1. Init => GuardInv
  BY TypeInit, BootInit DEF Init, GuardInv, NoLostWakeup, CanGet
<1>2. GuardInv /\ [Next]_vars => GuardInv'
  BY GuardInductive
<1>3. QED
  BY <1>1, <1>2, PTL DEF Spec

\* A queued item that can be transmitted never waits for an interrupt that
\* nobody will enable: every uart_irq_tx_disable is matched by a later enable.
THEOREM WakeupCorrect == Spec => []NoLostWakeup
<1>1. GuardInv => NoLostWakeup
  BY DEF GuardInv
<1>2. QED
  BY <1>1, GuardInvariant, PTL

\* An item is transmitted only after an answer to, or the full guard time since,
\* the previous one; for every guard time and every arrival of answers.
THEOREM GuardCorrect == Spec => GuardRespected
<1>1. GuardInv /\ [Next]_vars
        => [sent' # sent => sent = <<>> \/ acked \/ elapsed >= GUARD_TICKS]_vars
  <2> SUFFICES ASSUME GuardInv, Next, sent' # sent
               PROVE  sent = <<>> \/ acked \/ elapsed >= GUARD_TICKS
    OBVIOUS
  <2>1. TxItem
    BY DEF Next, Boot, init_uart, InitFails, InitSucceeds,
           main_my_uart_peripheral_b, Rx, RxData, RxLine, RxDrained,
           TxInterrupt, TxNotReady, TxHold,
           sending_guard_timer_expired_function, Tick, TxDone, history
  <2>2. QED
    BY <2>1 DEF TxItem, TxAllowed, GuardInv
<1>2. QED
  BY <1>1, GuardInvariant, PTL DEF Spec, GuardRespected

-----------------------------------------------------------------------------
(* Large enough buffers: what is sent is whole.                            *)

SentType == [line : Nat, length : Nat, bytes : Nat]

\* The items that hold a line of rx_buf, fit my_data and announce all of it.
SoundItem ==
  {item \in ItemType : /\ BytesOf(item) = build_user_send_data(item.length)
                       /\ BytesOf(item) \in 0..TX_FIFO_SIZE
                       /\ FitsMyData(item)}

SoundSent == {r \in SentType : r.bytes = build_user_send_data(r.length)}

SizedInv ==
  /\ TypeOK
  /\ tx_rb \in Seq(SoundItem)
  /\ sent \in Seq(SoundSent)
  /\ NoOverrun

\* With well chosen sizes no step of the encoding wraps: size32 and value are
\* the true number of words and of unused bytes.
LEMMA SoundItem_Item ==
  ASSUME WellSized, NEW line \in Nat, NEW length \in 0..RX_BUF_SIZE
  PROVE  Item(line, length) \in SoundItem
<1> DEFINE size == build_user_send_data(length)
<1>1. size \in Nat /\ size < 4 * TX_BUF_WORDS /\ size <= TX_FIFO_SIZE
  BY SizesAssumption DEF WellSized, build_user_send_data, buf_size
<1>2. TX_BUF_WORDS \in 0..255 /\ TX_BUF_WORDS % 256 = TX_BUF_WORDS
  BY SizesAssumption DEF WellSized
<1> HIDE DEF size
<1>3. /\ (size \div 4) + 1 \in 0..TX_BUF_WORDS
      /\ ((size \div 4) + 1) * 4 - size \in 1..4
  BY <1>1, <1>2
<1>4. WordsOf(size) = (size \div 4) + 1
  BY <1>1, <1>2, <1>3 DEF WordsOf
<1>5. ValueOf(size) = WordsOf(size) * 4 - size
  BY <1>1, <1>3, <1>4 DEF ValueOf
<1>6. /\ Item(line, length) \in ItemType
      /\ Item(line, length).length = length
      /\ Item(line, length).words = WordsOf(size)
      /\ Item(line, length).value = ValueOf(size)
  BY ItemType_Item, SizesAssumption DEF Item, size
<1>7. BytesOf(Item(line, length)) = size
  BY <1>1, <1>3, <1>4, <1>5, <1>6 DEF BytesOf
<1>8. FitsMyData(Item(line, length))
  BY <1>2, <1>3, <1>4, <1>6 DEF FitsMyData
<1>9. QED
  BY <1>1, <1>6, <1>7, <1>8, SizesAssumption DEF SoundItem, size

LEMMA SizedInductive ==
  ASSUME WellSized, SizedInv, [Next]_vars
  PROVE  SizedInv'
<1>1. TypeOK'
  BY TypeInductive DEF SizedInv
<1>2. CASE Boot
  <2>1. tx_rb' = tx_rb \/ tx_rb' = <<>>
    BY <1>2
    DEF Boot, init_uart, InitFails, InitSucceeds, main_my_uart_peripheral_b
  <2>2. UNCHANGED <<isr, sent, overrun>>
    BY <1>2
    DEF Boot, init_uart, InitFails, InitSucceeds, main_my_uart_peripheral_b,
        history
  <2>3. tx_rb' \in Seq(SoundItem)
    <3>1. <<>> \in Seq(SoundItem)
      OBVIOUS
    <3>2. QED
      BY <2>1, <3>1 DEF SizedInv
  <2>4. QED
    BY <1>1, <2>2, <2>3 DEF SizedInv, NoOverrun
<1>3. CASE \E c \in Input : RxData(c)
  BY <1>1, <1>3 DEF RxData, SizedInv, NoOverrun, history
<1>4. CASE RxLine
  <2> DEFINE line == Append(rx_buf, "eol")
             item == Item(heard + 1, Len(line))
             over == callback /\ build_user_send_data(Len(line)) > buf_size
  <2>1. Len(line) \in 0..RX_BUF_SIZE /\ heard + 1 \in Nat
    BY SizesAssumption DEF SizedInv, TypeOK, Char
  <2>2. item \in SoundItem
    BY <2>1, SoundItem_Item
  <2>3. ~over
    BY <2>1, SizesAssumption DEF WellSized, build_user_send_data, buf_size
  <2>4. /\ isr' \in IF over THEN {"rx", "fault"} ELSE {"rx"}
        /\ overrun' = (overrun \/ over)
        /\ tx_rb' = IF callback THEN user_send_data(tx_rb, item) ELSE tx_rb
        /\ sent' = sent
    BY <1>4 DEF RxLine, app_callback
  <2> HIDE DEF over, item, line
  <2>5. NoOverrun'
    BY <2>3, <2>4 DEF SizedInv, NoOverrun
  <2>6. tx_rb' \in Seq(SoundItem)
    BY <2>2, <2>4, user_send_data_Type DEF SizedInv
  <2>7. QED
    BY <1>1, <2>4, <2>5, <2>6 DEF SizedInv
<1>5. CASE RxDrained \/ TxInterrupt \/ TxNotReady \/ TxHold
  BY <1>1, <1>5
  DEF RxDrained, TxInterrupt, TxNotReady, TxHold, SizedInv, NoOverrun, history
<1>6. CASE TxItem
  <2> DEFINE item == Head(tx_rb)
             rec == [line |-> item.line, length |-> item.length,
                     bytes |-> uart_fifo_fill(BytesOf(item))]
  <2>1. item \in SoundItem /\ Tail(tx_rb) \in Seq(SoundItem)
    BY <1>6 DEF TxItem, CanGet, SizedInv
  <2>2. rec \in SoundSent
    <3>1. uart_fifo_fill(BytesOf(item)) = build_user_send_data(item.length)
      BY <2>1 DEF SoundItem, uart_fifo_fill
    <3>2. build_user_send_data(item.length) \in Nat
      BY <2>1 DEF SoundItem, ItemType, build_user_send_data
    <3>3. QED
      BY <2>1, <3>1, <3>2 DEF SoundItem, ItemType, SoundSent, SentType
  <2>3. sent' = Append(sent, rec) /\ tx_rb' = Tail(tx_rb)
    BY <1>6 DEF TxItem
  <2>4. sent' \in Seq(SoundSent)
    BY <2>2, <2>3 DEF SizedInv
  <2>5. NoOverrun'
    BY <1>6 DEF TxItem, SizedInv, NoOverrun
  <2>6. QED
    BY <1>1, <2>1, <2>3, <2>4, <2>5 DEF SizedInv
<1>7. CASE sending_guard_timer_expired_function \/ Tick \/ TxDone
  BY <1>1, <1>7
  DEF sending_guard_timer_expired_function, Tick, TxDone, SizedInv, NoOverrun,
      history
<1>8. CASE UNCHANGED vars
  BY <1>1, <1>8 DEF vars, SizedInv, NoOverrun, history
<1>9. QED
  BY <1>2, <1>3, <1>4, <1>5, <1>6, <1>7, <1>8 DEF Next, Rx

LEMMA SizedInvariant ==
  ASSUME WellSized
  PROVE  Spec => []SizedInv
<1>1. Init => SizedInv
  BY TypeInit DEF Init, SizedInv, NoOverrun
<1>2. SizedInv /\ [Next]_vars => SizedInv'
  BY SizedInductive
<1>3. QED
  BY <1>1, <1>2, PTL DEF Spec

\* With buffers that are large enough for a full rx_buf, every transmission is
\* the whole of "SEND:" and its line, whatever the other side sends.
THEOREM WholeCorrect ==
  ASSUME WellSized
  PROVE  Spec => []SentWhole
<1>1. SizedInv => SentWhole
  BY DEF SizedInv, SoundSent, SentWhole
<1>2. QED
  BY <1>1, SizedInvariant, PTL

\* ... and build_user_send_data, which does not look at buf_size, never writes
\* past the end of buf.
THEOREM OverrunCorrect ==
  ASSUME WellSized
  PROVE  Spec => []NoOverrun
<1>1. SizedInv => NoOverrun
  BY DEF SizedInv
<1>2. QED
  BY <1>1, SizedInvariant, PTL

\* ... and no item blocks the ring buffer: the first one can always be taken
\* out, so ring_buf_item_get never returns -EMSGSIZE.
THEOREM NoBlockedHead ==
  ASSUME WellSized
  PROVE  Spec => [](tx_rb # <<>> => CanGet(tx_rb))
<1>1. SizedInv => (tx_rb # <<>> => CanGet(tx_rb))
  BY DEF SizedInv, SoundItem, CanGet
<1>2. QED
  BY <1>1, SizedInvariant, PTL

-----------------------------------------------------------------------------
(* The driver and its application implement a lossy FIFO of lines.         *)

\* One step of the driver offers a line, delivers one, or does neither.
LEMMA RelayStep ==
  ASSUME TypeOK, BootInv, [Next]_vars
  PROVE  [Relay!Next]_Relay!vars
<1> DEFINE queue == Lines(tx_rb)
           delivered == Lines(sent)
<1>1. CASE UNCHANGED <<heard, tx_rb, sent>>
  BY <1>1 DEF Relay!vars
<1>2. CASE Boot
  <2>1. tx_rb = <<>> \/ tx_rb' = tx_rb
    BY <1>2
    DEF Boot, init_uart, InitFails, InitSucceeds, main_my_uart_peripheral_b,
        BootInv, InitBeforeUse
  <2>2. tx_rb' = <<>> \/ tx_rb' = tx_rb
    BY <1>2
    DEF Boot, init_uart, InitFails, InitSucceeds, main_my_uart_peripheral_b
  <2>3. UNCHANGED <<heard, sent>>
    BY <1>2
    DEF Boot, init_uart, InitFails, InitSucceeds, main_my_uart_peripheral_b,
        history
  <2>4. QED
    BY <1>1, <2>1, <2>2, <2>3
<1>3. CASE RxLine
  <2> DEFINE item == Item(heard + 1, Len(Append(rx_buf, "eol")))
  <2>1. item \in ItemType /\ item.line = heard + 1
    <3>1. Len(Append(rx_buf, "eol")) \in Nat /\ heard + 1 \in Nat
      BY DEF TypeOK, Char
    <3>2. item.line = heard + 1
      BY DEF Item
    <3>3. QED
      BY <3>1, <3>2, ItemType_Item
  <2>2. /\ sent' = sent
        /\ tx_rb' = IF callback THEN user_send_data(tx_rb, item) ELSE tx_rb
        /\ heard' = IF callback THEN heard + 1 ELSE heard
    BY <1>3 DEF RxLine, app_callback
  <2> HIDE DEF item
  <2>3. CASE ~callback
    BY <1>1, <2>2, <2>3
  <2>4. CASE callback
    <3>1. heard' = heard + 1 /\ delivered' = delivered
      BY <2>2, <2>4
    <3>2. tx_rb' = tx_rb \/ tx_rb' = Append(tx_rb, item)
      BY <2>2, <2>4 DEF user_send_data
    <3>3. Lines(Append(tx_rb, item)) = Append(queue, heard + 1)
      BY <2>1, Lines_Append DEF TypeOK
    <3>4. queue' \in {queue, Append(queue, heard + 1)}
      BY <3>2, <3>3
    <3>5. Relay!Offer
      BY <3>1, <3>4 DEF Relay!Offer, Lines
    <3>6. QED
      BY <3>5 DEF Relay!Next
  <2>5. QED
    BY <2>3, <2>4
<1>4. CASE TxItem
  <2> DEFINE rec == [line |-> Head(tx_rb).line, length |-> Head(tx_rb).length,
                     bytes |-> uart_fifo_fill(BytesOf(Head(tx_rb)))]
  <2>1. /\ tx_rb # <<>> /\ tx_rb' = Tail(tx_rb)
        /\ sent' = Append(sent, rec)
        /\ heard' = heard
    BY <1>4 DEF TxItem, CanGet
  <2>2. /\ queue # <<>>
        /\ Head(queue) = Head(tx_rb).line
        /\ queue' = Tail(queue)
    BY <2>1, Lines_HeadTail DEF TypeOK
  <2>3. delivered' = Append(delivered, Head(queue))
    <3>1. rec.line = Head(queue)
      BY <2>2
    <3>2. rec \in SentType
      <4>1. Head(tx_rb) \in ItemType
        BY <2>1 DEF TypeOK
      <4>2. BytesOf(Head(tx_rb)) \in Int
        BY <4>1 DEF ItemType, BytesOf
      <4>3. QED
        BY <4>1, <4>2, uart_fifo_fill_Type DEF ItemType, SentType
    <3> HIDE DEF rec
    <3>3. Lines(Append(sent, rec)) = Append(Lines(sent), rec.line)
      BY <3>2, Lines_Append DEF TypeOK, SentType
    <3>4. QED
      BY <2>1, <3>1, <3>3
  <2>4. Relay!Deliver
    BY <2>1, <2>2, <2>3 DEF Relay!Deliver, Lines
  <2>5. QED
    BY <2>4 DEF Relay!Next
<1>5. CASE \E c \in Input : RxData(c)
  BY <1>1, <1>5 DEF RxData, history
<1>6. CASE \/ RxDrained \/ TxInterrupt \/ TxNotReady \/ TxHold
           \/ sending_guard_timer_expired_function \/ Tick \/ TxDone
  BY <1>1, <1>6
  DEF RxDrained, TxInterrupt, TxNotReady, TxHold,
      sending_guard_timer_expired_function, Tick, TxDone, history
<1>7. CASE UNCHANGED vars
  BY <1>1, <1>7 DEF vars, history
<1>8. QED
  BY <1>2, <1>3, <1>4, <1>5, <1>6, <1>7 DEF Next, Rx

\* The lines handed to app_callback are dropped at once or transmitted, each at
\* most once and in the order of their reception.
THEOREM RelayCorrect == Spec => RelaySpec
<1>1. Init => Relay!Init
  BY DEF Init, Relay!Init
<1>2. QED
  BY <1>1, RelayStep, TypeInit, TypeInductive, BootInit, BootInductive, PTL
  DEF Spec, RelaySpec, Relay!Spec

\* So no line is transmitted twice, before an older one, or without having been
\* received.
THEOREM RelayInOrder == Spec => []Relay!InOrder
<1> DEFINE queue == Lines(tx_rb)
           delivered == Lines(sent)
           Order == Ordered(heard, queue, delivered)
<1>1. Relay!Init => Order
  BY DEF Relay!Init, Ordered, Lines
<1>2. Order /\ [Relay!Next]_Relay!vars => Order'
  <2> SUFFICES ASSUME Order, [Relay!Next]_Relay!vars
               PROVE  Order'
    OBVIOUS
  <2>1. CASE Relay!Offer
    <3>1. /\ heard' = heard + 1 /\ delivered' = delivered
          /\ queue' \in {queue, Append(queue, heard + 1)}
      BY <2>1 DEF Relay!Offer, Lines
    <3> HIDE DEF queue, delivered
    <3>2. Ordered(heard + 1, queue', delivered)
      BY <3>1, Ordered_Offer
    <3>3. QED
      BY <3>1, <3>2
  <2>2. CASE Relay!Deliver
    <3>1. /\ heard' = heard /\ queue # <<>> /\ queue' = Tail(queue)
          /\ delivered' = Append(delivered, Head(queue))
      BY <2>2 DEF Relay!Deliver, Lines
    <3> HIDE DEF queue, delivered
    <3>2. Ordered(heard, Tail(queue), Append(delivered, Head(queue)))
      BY <3>1, Ordered_Deliver
    <3>3. QED
      BY <3>1, <3>2
  <2>3. CASE UNCHANGED Relay!vars
    <3>1. heard' = heard /\ queue' = queue /\ delivered' = delivered
      BY <2>3 DEF Relay!vars, Lines
    <3> HIDE DEF queue, delivered
    <3>2. QED
      BY <3>1
  <2>4. QED
    BY <2>1, <2>2, <2>3 DEF Relay!Next
<1>3. Order => Relay!InOrder
  BY DEF Ordered, Relay!InOrder, Relay!Increasing, Lines
<1>4. QED
  BY <1>1, <1>2, <1>3, RelayCorrect, PTL DEF RelaySpec, Relay!Spec
=============================================================================
