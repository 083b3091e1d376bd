---------------------------- MODULE EchoBotProofs ----------------------------
(***************************************************************************)
(* Theorems about the echo bot, for messages and queues of any size.       *)
(***************************************************************************)
EXTENDS EchoBot, CommonLemmas, TLAPS

-----------------------------------------------------------------------------
(* C strings.                                                              *)

\* In an array with a NUL, strlen is the position of the first one.
LEMMA strlen_First ==
  ASSUME NEW bytes \in Buffer, NEW k \in Index, bytes[k] = NUL
  PROVE  /\ strlen(bytes) \in 0..k
         /\ bytes[strlen(bytes)] = NUL
         /\ \A i \in 0..strlen(bytes) - 1 : bytes[i] # NUL
<1> DEFINE Good(n) == /\ \A i \in 0..n - 1 : bytes[i] # NUL
                      /\ n < MSG_SIZE => bytes[n] = NUL
           T == {n \in Index : bytes[n] = NUL}
<1>1. T \in SUBSET Nat /\ T # {}
  BY SizesAssumption DEF Index
<1>2. PICK x \in T : \A y \in T : x <= y
  BY <1>1, LeastNat
<1>3. x \in 0..MSG_SIZE /\ Good(x)
  BY <1>2, SizesAssumption DEF Index
<1>4. strlen(bytes) \in 0..MSG_SIZE /\ Good(strlen(bytes))
  BY <1>3 DEF strlen
<1>5. strlen(bytes) <= k
  <2>1. SUFFICES ASSUME k < strlen(bytes) PROVE FALSE
    BY <1>4, SizesAssumption DEF Index
  <2>2. k \in 0..strlen(bytes) - 1
    BY <1>4, <2>1, SizesAssumption DEF Index
  <2>3. QED
    BY <1>4, <2>2
<1>6. QED
  BY <1>4, <1>5, SizesAssumption DEF Index

-----------------------------------------------------------------------------
(* The invariant.                                                          *)

EchoRecord == [line : Nat, typed : Seq(Char), text : Seq(Char)]

\* A message whose bytes are what was typed, as far as there was room, and a
\* terminator right behind.
SoundMessage ==
  {m \in Message :
     /\ m.bytes[Kept(m.typed)] = NUL
     /\ \A i \in 0..Kept(m.typed) - 1 : m.bytes[i] = m.typed[i + 1]}

SoundEcho == {e \in EchoRecord : Faithful(e.text, e.typed)}

EchoInv ==
  /\ TypeOK
  /\ rx_buf_pos = Kept(typed)
  /\ \A i \in 0..rx_buf_pos - 1 : rx_buf[i] = typed[i + 1]
  /\ uart_msgq \in Seq(SoundMessage)
  /\ tx_buf \in SoundMessage
  /\ echoed \in Seq(SoundEcho)

LEMMA Kept_Index ==
  ASSUME NEW chars \in Seq(Char)
  PROVE  Kept(chars) \in Index /\ Kept(chars) <= Len(chars)
BY SizesAssumption DEF Kept, Index

\* A sound message prints as the beginning of what was typed.
LEMMA PrintFaithful ==
  ASSUME NEW m \in SoundMessage
  PROVE  /\ print_uart(m.bytes) \in Seq(Char)
         /\ Faithful(print_uart(m.bytes), m.typed)
<1> DEFINE n == strlen(m.bytes)
           text == print_uart(m.bytes)
<1>1. /\ m.bytes \in Buffer /\ m.typed \in Seq(Char)
      /\ m.bytes[Kept(m.typed)] = NUL
      /\ \A i \in 0..Kept(m.typed) - 1 : m.bytes[i] = m.typed[i + 1]
  BY DEF SoundMessage, Message
<1>2. Kept(m.typed) \in Index
  BY <1>1, Kept_Index
<1>3. /\ n \in 0..Kept(m.typed)
      /\ m.bytes[n] = NUL
      /\ \A i \in 0..n - 1 : m.bytes[i] # NUL
  BY <1>1, <1>2, strlen_First
<1> HIDE DEF n
<1>4. Kept(m.typed) \in 0..MSG_SIZE - 1
  BY <1>2 DEF Index
<1>5. /\ text = [i \in 1..n |-> m.bytes[i - 1]]
      /\ \A i \in 1..n : i - 1 \in Index
  BY <1>3, <1>4, SizesAssumption DEF print_uart, n, Index
<1>6. \A i \in 1..n : text[i] = m.bytes[i - 1] /\ m.bytes[i - 1] \in Char
  BY <1>1, <1>5 DEF Buffer
<1> HIDE DEF text
<1>7. text \in Seq(Char) /\ Len(text) = n
  <2>1. text \in [1..n -> Char]
    BY <1>5, <1>6
  <2>2. n \in Nat
    BY <1>3, <1>4, SizesAssumption
  <2>3. QED
    BY <2>1, <2>2
<1>8. ASSUME NEW i \in 1..n
      PROVE  text[i] = m.typed[i] /\ text[i] # NUL
  <2>1. i - 1 \in 0..n - 1 /\ i - 1 \in 0..Kept(m.typed) - 1 /\ (i - 1) + 1 = i
    BY <1>3, <1>4, SizesAssumption
  <2>2. m.bytes[i - 1] = m.typed[(i - 1) + 1] /\ m.bytes[i - 1] # NUL
    BY <1>1, <1>3, <2>1
  <2>3. QED
    BY <1>6, <2>1, <2>2
<1>9. n < Kept(m.typed) => m.typed[n + 1] = NUL
  <2>1. n < Kept(m.typed) => n \in 0..Kept(m.typed) - 1
    BY <1>3, <1>4, SizesAssumption
  <2>2. QED
    BY <1>1, <1>3, <2>1
<1>10. Faithful(text, m.typed)
  BY <1>3, <1>4, <1>7, <1>8, <1>9, SizesAssumption DEF Faithful
<1>11. QED
  BY <1>7, <1>10 DEF text

-----------------------------------------------------------------------------
(* The invariant is inductive.                                             *)

LEMMA k_msgq_put_Type ==
  ASSUME NEW S, NEW q \in Seq(S), NEW m \in S, Len(q) <= QUEUE_LEN
  PROVE  k_msgq_put(q, m) \in Seq(S) /\ Len(k_msgq_put(q, m)) <= QUEUE_LEN
BY SizesAssumption DEF k_msgq_put

\* A line end: the terminator falls inside of rx_buf, and the message is sound.
LEMMA LineInductive ==
  ASSUME EchoInv, NEW c \in Input, serial_cb_Line(c)
  PROVE  EchoInv'
<1> DEFINE m == [line |-> lines + 1, bytes |-> Terminate, typed |-> typed]
<1>1. /\ rx_buf \in Buffer /\ typed \in Seq(Char) /\ lines \in Nat
      /\ rx_buf_pos = Kept(typed) /\ Kept(typed) \in 0..MSG_SIZE - 1
  BY Kept_Index DEF EchoInv, TypeOK, Index
<1>2. /\ Terminate \in Buffer
      /\ Terminate[rx_buf_pos] = NUL
      /\ \A i \in 0..rx_buf_pos - 1 : Terminate[i] = rx_buf[i]
  BY <1>1, SizesAssumption DEF Terminate, Buffer, Index, Char
<1> HIDE DEF Terminate
<1>3. m \in SoundMessage
  <2>1. m \in Message
    BY <1>1, <1>2 DEF Message
  <2>2. \A i \in 0..Kept(typed) - 1 : Terminate[i] = typed[i + 1]
    BY <1>1, <1>2 DEF EchoInv
  <2>3. QED
    BY <1>1, <1>2, <2>1, <2>2 DEF SoundMessage
<1>4. /\ uart_msgq' = k_msgq_put(uart_msgq, m)
      /\ rx_buf' = Terminate /\ rx_buf_pos' = 0 /\ typed' = <<>>
      /\ lines' = lines + 1
      /\ UNCHANGED <<thread, rx_irq, tx_buf, echoed>>
  BY DEF serial_cb_Line
<1>5. m \in Message
  BY <1>3 DEF SoundMessage
<1> HIDE DEF m
<1>6. /\ uart_msgq' \in Seq(SoundMessage)
      /\ uart_msgq' \in Seq(Message) /\ Len(uart_msgq') <= QUEUE_LEN
  BY <1>3, <1>4, <1>5, k_msgq_put_Type DEF EchoInv, TypeOK
<1>7. typed' \in Seq(Char) /\ Kept(typed') = 0
  BY <1>4, SizesAssumption DEF Kept
<1>8. TypeOK'
  BY <1>1, <1>2, <1>4, <1>6, <1>7, SizesAssumption DEF EchoInv, TypeOK, Index
<1>9. QED
  BY <1>4, <1>6, <1>7, <1>8, SizesAssumption DEF EchoInv

\* Any other character: stored behind the earlier ones, or dropped when there
\* is only room for the terminator.
LEMMA CharInductive ==
  ASSUME EchoInv, NEW c \in Input, serial_cb_Char(c)
  PROVE  EchoInv'
<1>1. /\ rx_buf \in Buffer /\ typed \in Seq(Char) /\ c \in Char
      /\ Len(typed) \in Nat
      /\ rx_buf_pos = Kept(typed) /\ rx_buf_pos \in 0..MSG_SIZE - 1
  BY Kept_Index, InputAssumption DEF EchoInv, TypeOK, Index
<1>2. /\ typed' = Append(typed, c)
      /\ UNCHANGED <<thread, rx_irq, uart_msgq, tx_buf, lines, echoed>>
  BY DEF serial_cb_Char
<1>3. /\ typed' \in Seq(Char) /\ Len(typed') = Len(typed) + 1
      /\ \A i \in 1..Len(typed) : typed'[i] = typed[i]
      /\ typed'[Len(typed) + 1] = c
  BY <1>1, <1>2
<1>4. CASE HasSpace
  <2>1. /\ rx_buf' = [rx_buf EXCEPT ![rx_buf_pos] = c]
        /\ rx_buf_pos' = rx_buf_pos + 1
    BY <1>4 DEF serial_cb_Char
  <2>2. /\ rx_buf_pos < MSG_SIZE - 1 /\ rx_buf_pos = Len(typed)
        /\ Kept(typed') = rx_buf_pos + 1
    BY <1>1, <1>3, <1>4, SizesAssumption DEF HasSpace, Kept
  <2>3. /\ rx_buf' \in Buffer
        /\ rx_buf'[rx_buf_pos] = c
        /\ \A i \in 0..rx_buf_pos - 1 : rx_buf'[i] = rx_buf[i]
    BY <1>1, <2>1, SizesAssumption DEF Buffer, Index
  <2>4. ASSUME NEW i \in 0..rx_buf_pos' - 1
        PROVE  rx_buf'[i] = typed'[i + 1]
    <3>1. CASE i \in 0..rx_buf_pos - 1
      BY <1>1, <1>3, <2>2, <2>3, <3>1 DEF EchoInv
    <3>2. CASE i = rx_buf_pos
      BY <1>3, <2>2, <2>3, <3>2
    <3>3. QED
      BY <1>1, <2>1, <3>1, <3>2
  <2>5. TypeOK'
    BY <1>1, <1>2, <1>3, <2>1, <2>2, <2>3, SizesAssumption
    DEF EchoInv, TypeOK, Index
  <2>6. QED
    BY <1>2, <2>1, <2>2, <2>4, <2>5 DEF EchoInv
<1>5. CASE ~HasSpace
  <2>1. rx_buf' = rx_buf /\ rx_buf_pos' = rx_buf_pos
    BY <1>5 DEF serial_cb_Char
  <2>2. rx_buf_pos = MSG_SIZE - 1 /\ Len(typed) >= MSG_SIZE - 1
    BY <1>1, <1>5, SizesAssumption DEF HasSpace, Kept
  <2>3. Kept(typed') = MSG_SIZE - 1
    BY <1>1, <1>3, <2>2, SizesAssumption DEF Kept
  <2>4. ASSUME NEW i \in 0..rx_buf_pos' - 1
        PROVE  rx_buf'[i] = typed'[i + 1]
    BY <1>1, <1>3, <2>1, <2>2, SizesAssumption DEF EchoInv
  <2>5. TypeOK'
    BY <1>2, <1>3, <2>1 DEF EchoInv, TypeOK
  <2>6. QED
    BY <1>2, <2>1, <2>2, <2>3, <2>4, <2>5 DEF EchoInv
<1>6. QED
  BY <1>4, <1>5

LEMMA GetInductive ==
  ASSUME EchoInv, k_msgq_get
  PROVE  EchoInv'
<1>1. /\ Head(uart_msgq) \in SoundMessage /\ Head(uart_msgq) \in Message
      /\ Tail(uart_msgq) \in Seq(SoundMessage)
      /\ Tail(uart_msgq) \in Seq(Message)
      /\ Len(Tail(uart_msgq)) <= QUEUE_LEN
  BY SizesAssumption DEF EchoInv, TypeOK, k_msgq_get
<1>2. TypeOK'
  BY <1>1 DEF k_msgq_get, EchoInv, TypeOK
<1>3. QED
  BY <1>1, <1>2 DEF k_msgq_get, EchoInv

LEMMA EchoInductive ==
  ASSUME EchoInv, Echo
  PROVE  EchoInv'
<1> DEFINE e == [line |-> tx_buf.line, typed |-> tx_buf.typed,
                 text |-> print_uart(tx_buf.bytes)]
<1>1. tx_buf \in SoundMessage /\ tx_buf \in Message
  BY DEF EchoInv, TypeOK
<1>2. e \in EchoRecord
  BY <1>1, PrintFaithful DEF EchoRecord, Message
<1>3. e \in SoundEcho
  BY <1>1, <1>2, PrintFaithful DEF SoundEcho
<1>4. echoed' = Append(echoed, e) /\ thread' = "wait"
      /\ UNCHANGED <<rx_irq, rx_buf, rx_buf_pos, uart_msgq, tx_buf, typed, lines>>
  BY DEF Echo
<1> HIDE DEF e
<1>5. echoed' \in Seq(SoundEcho) /\ echoed' \in Seq(EchoRecord)
  BY <1>2, <1>3, <1>4 DEF EchoInv, TypeOK, EchoRecord
<1>6. TypeOK'
  BY <1>4, <1>5 DEF EchoInv, TypeOK, EchoRecord
<1>7. QED
  BY <1>4, <1>5, <1>6 DEF EchoInv

LEMMA EchoInvariant == Spec => []EchoInv
<1>1. Init => EchoInv
  <2> SUFFICES ASSUME Init PROVE EchoInv
    OBVIOUS
  <2>1. /\ Blank \in Buffer /\ Blank[0] = NUL /\ 0 \in Index
    BY SizesAssumption DEF Blank, Buffer, Index, Char
  <2> HIDE DEF Blank
  <2>2. <<>> \in Seq(Char) /\ Kept(<<>>) = 0
    BY SizesAssumption DEF Kept
  <2>3. NoMessage \in Message
    BY <2>1, <2>2 DEF NoMessage, Message
  <2>4. NoMessage \in SoundMessage
    BY <2>1, <2>2, <2>3 DEF NoMessage, SoundMessage
  <2>5. /\ uart_msgq \in Seq(Message) /\ uart_msgq \in Seq(SoundMessage)
        /\ Len(uart_msgq) <= QUEUE_LEN
    BY SizesAssumption DEF Init
  <2>6. echoed \in Seq(EchoRecord) /\ echoed \in Seq(SoundEcho)
    BY DEF Init
  <2>7. TypeOK
    BY <2>1, <2>2, <2>3, <2>5, <2>6 DEF Init, TypeOK, EchoRecord
  <2>8. QED
    BY <2>2, <2>4, <2>5, <2>6, <2>7 DEF Init, EchoInv
<1>2. EchoInv /\ [Next]_vars => EchoInv'
  <2> SUFFICES ASSUME EchoInv, [Next]_vars PROVE EchoInv'
    OBVIOUS
  <2>1. CASE serial_cb
    BY <2>1, LineInductive, CharInductive DEF serial_cb
  <2>2. CASE NotReady \/ Configure \/ Greet
    BY <2>2 DEF NotReady, Configure, Greet, EchoInv, TypeOK
  <2>3. CASE k_msgq_get
    BY <2>3, GetInductive
  <2>4. CASE Echo
    BY <2>4, EchoInductive
  <2>5. CASE UNCHANGED vars
    BY <2>5 DEF vars, EchoInv, TypeOK
  <2>6. QED
    BY <2>1, <2>2, <2>3, <2>4, <2>5 DEF Next, thread_echo_bot
<1>3. QED
  BY <1>1, <1>2, PTL DEF Spec

\* For messages of any size, every echo is what was typed, cut at the size of a
\* message or at a NUL, although rx_buf keeps the bytes of earlier lines; the
\* terminator that serial_cb writes is inside of rx_buf, and uart_msgq never
\* holds more than it can store.
THEOREM FaithfulCorrect == Spec => []EchoFaithful
<1>1. EchoInv => EchoFaithful
  BY DEF EchoInv, EchoFaithful, SoundEcho
<1>2. QED
  BY <1>1, EchoInvariant, PTL

-----------------------------------------------------------------------------
(* Line ends inside of a message.                                          *)

\* Of the characters that have room in a message, only the first may be a line
\* end.  A later one would have ended the line, unless it was dropped.
EndFirst(chars) == \A i \in 2..Kept(chars) : chars[i] # "eol"

EndFirstMessage == {m \in Message : EndFirst(m.typed)}
EndFirstEcho == {e \in EchoRecord : EndFirst(e.typed)}

EndInv ==
  /\ EndFirst(typed)
  /\ uart_msgq \in Seq(EndFirstMessage)
  /\ tx_buf \in EndFirstMessage
  /\ echoed \in Seq(EndFirstEcho)

LEMMA EndLine ==
  ASSUME EchoInv, EndInv, NEW c \in Input, serial_cb_Line(c)
  PROVE  EndInv'
<1> DEFINE m == [line |-> lines + 1, bytes |-> Terminate, typed |-> typed]
<1>1. Terminate \in Buffer
  BY SizesAssumption DEF EchoInv, TypeOK, Terminate, Buffer, Index, Char
<1>2. m \in EndFirstMessage
  BY <1>1 DEF EndInv, EndFirstMessage, Message, EchoInv, TypeOK
<1>3. /\ uart_msgq' = k_msgq_put(uart_msgq, m)
      /\ typed' = <<>> /\ UNCHANGED <<tx_buf, echoed>>
  BY DEF serial_cb_Line
<1> HIDE DEF m
<1>4. uart_msgq' \in Seq(EndFirstMessage)
  BY <1>2, <1>3 DEF k_msgq_put, EndInv
<1>5. Kept(<<>>) = 0
  BY SizesAssumption DEF Kept
<1>6. EndFirst(typed')
  BY <1>3, <1>5 DEF EndFirst
<1>7. QED
  BY <1>3, <1>4, <1>6 DEF EndInv

\* A line end that does not end a line is stored in an empty rx_buf, or not at
\* all.
LEMMA EndChar ==
  ASSUME EchoInv, EndInv, NEW c \in Input, serial_cb_Char(c)
  PROVE  EndInv'
<1>1. /\ typed \in Seq(Char) /\ Len(typed) \in Nat /\ c \in Char
      /\ rx_buf_pos = Kept(typed)
      /\ c = "eol" => ~(Kept(typed) > 0)
      /\ typed' = Append(typed, c)
      /\ UNCHANGED <<uart_msgq, tx_buf, echoed>>
  BY InputAssumption DEF EchoInv, TypeOK, serial_cb_Char, EndsLine
<1>2. /\ Len(typed') = Len(typed) + 1
      /\ \A i \in 1..Len(typed) : typed'[i] = typed[i]
      /\ typed'[Len(typed) + 1] = c
  BY <1>1
<1>3. ASSUME NEW i \in 2..Kept(typed')
      PROVE  typed'[i] # "eol"
  <2>1. /\ i \in 2..Len(typed) + 1 /\ i < MSG_SIZE
    BY <1>1, <1>2, SizesAssumption DEF Kept
  <2>2. CASE i \in 2..Len(typed)
    <3>1. i \in 2..Kept(typed)
      BY <1>1, <2>1, <2>2, SizesAssumption DEF Kept
    <3>2. QED
      BY <1>2, <2>2, <3>1 DEF EndInv, EndFirst
  <2>3. CASE i = Len(typed) + 1
    <3>1. Kept(typed) > 0
      BY <1>1, <2>1, <2>3, SizesAssumption DEF Kept
    <3>2. QED
      BY <1>1, <1>2, <2>3, <3>1
  <2>4. QED
    BY <1>1, <2>1, <2>2, <2>3
<1>4. EndFirst(typed')
  BY <1>3 DEF EndFirst
<1>5. QED
  BY <1>1, <1>4 DEF EndInv

\* For messages of any size, a line end is printed as the first character of an
\* echo or not at all.
THEOREM LineEndCorrect == Spec => []LineEndOnlyFirst
<1>1. Init => EndInv
  <2> SUFFICES ASSUME Init PROVE EndInv
    OBVIOUS
  <2>1. Blank \in Buffer
    BY DEF Blank, Buffer, Char
  <2>2. <<>> \in Seq(Char) /\ Kept(<<>>) = 0
    BY SizesAssumption DEF Kept
  <2>3. EndFirst(<<>>)
    BY <2>2 DEF EndFirst
  <2>4. NoMessage \in EndFirstMessage
    BY <2>1, <2>2, <2>3 DEF NoMessage, Message, EndFirstMessage
  <2>5. QED
    BY <2>3, <2>4 DEF Init, EndInv
<1>2. EchoInv /\ EndInv /\ [Next]_vars => EndInv'
  <2> SUFFICES ASSUME EchoInv, EndInv, [Next]_vars PROVE EndInv'
    OBVIOUS
  <2>1. CASE serial_cb
    BY <2>1, EndLine, EndChar DEF serial_cb
  <2>2. CASE NotReady \/ Configure \/ Greet
    BY <2>2 DEF NotReady, Configure, Greet, EndInv
  <2>3. CASE k_msgq_get
    BY <2>3 DEF k_msgq_get, EndInv
  <2>4. CASE Echo
    <3> DEFINE e == [line |-> tx_buf.line, typed |-> tx_buf.typed,
                     text |-> print_uart(tx_buf.bytes)]
    <3>1. e \in EchoRecord
      BY PrintFaithful DEF EchoInv, TypeOK, EchoRecord, Message
    <3>2. e \in EndFirstEcho
      BY <3>1 DEF EndInv, EndFirstMessage, EndFirstEcho
    <3>3. echoed' = Append(echoed, e) /\ UNCHANGED <<uart_msgq, tx_buf, typed>>
      BY <2>4 DEF Echo
    <3> HIDE DEF e
    <3>4. QED
      BY <3>2, <3>3 DEF EndInv
  <2>5. CASE UNCHANGED vars
    BY <2>5 DEF vars, EndInv
  <2>6. QED
    BY <2>1, <2>2, <2>3, <2>4, <2>5 DEF Next, thread_echo_bot
<1>3. EchoInv /\ EndInv => LineEndOnlyFirst
  <2> SUFFICES ASSUME EchoInv, EndInv,
                      NEW k \in 1..Len(echoed),
                      NEW i \in 2..Len(echoed[k].text)
               PROVE  echoed[k].text[i] # "eol"
    BY DEF LineEndOnlyFirst
  <2>1. echoed[k] \in SoundEcho /\ echoed[k] \in EndFirstEcho
    BY DEF EchoInv, EndInv
  <2>2. /\ Len(echoed[k].text) <= Kept(echoed[k].typed)
        /\ Len(echoed[k].text) \in Nat /\ Kept(echoed[k].typed) \in Nat
    BY <2>1, Kept_Index, SizesAssumption DEF SoundEcho, EchoRecord, Faithful, Index
  <2>3. i \in 2..Kept(echoed[k].typed) /\ i \in 1..Len(echoed[k].text)
    BY <2>2
  <2>4. QED
    BY <2>1, <2>3 DEF SoundEcho, EndFirstEcho, Faithful, EndFirst
<1>4. QED
  BY <1>1, <1>2, <1>3, EchoInvariant, PTL DEF Spec

-----------------------------------------------------------------------------
(* The echo bot implements a lossy FIFO of lines.                          *)

\* One step of the echo bot offers a line, delivers one, or does neither.
LEMMA EchoFifoStep ==
  ASSUME EchoInv, [Next]_vars
  PROVE  [EchoFifo!Next]_EchoFifo!vars
<1> DEFINE held == InHand \o uart_msgq
           queue == Lines(held)
           delivered == Lines(echoed)
<1>1. /\ uart_msgq \in Seq(Message) /\ tx_buf \in Message /\ lines \in Nat
      /\ echoed \in Seq(EchoRecord)
  BY DEF EchoInv, TypeOK, EchoRecord
<1>2. InHand \in Seq(Message) /\ held \in Seq(Message)
  <2>1. InHand = <<>> \/ InHand = <<tx_buf>>
    BY DEF InHand
  <2>2. <<>> \in Seq(Message) /\ <<tx_buf>> \in Seq(Message)
    BY <1>1
  <2>3. InHand \in Seq(Message)
    BY <2>1, <2>2
  <2>4. QED
    BY <1>1, <2>3
<1>3. CASE UNCHANGED <<lines, held, echoed>>
  BY <1>3 DEF EchoFifo!vars
<1>4. CASE \E c \in Input : serial_cb_Line(c)
  <2> DEFINE m == [line |-> lines + 1, bytes |-> Terminate, typed |-> typed]
  <2>1. /\ lines' = lines + 1
        /\ UNCHANGED <<thread, tx_buf, echoed>>
        /\ uart_msgq' = uart_msgq \/ uart_msgq' = Append(uart_msgq, m)
    BY <1>4 DEF serial_cb_Line, k_msgq_put
  <2>2. m \in Message /\ m.line = lines + 1
    <3>1. Terminate \in Buffer
      BY SizesAssumption
      DEF EchoInv, TypeOK, Terminate, Buffer, Index, Char
    <3>2. QED
      BY <1>1, <3>1 DEF Message, EchoInv, TypeOK
  <2> HIDE DEF m
  <2>3. InHand' = InHand
    BY <2>1 DEF InHand
  <2>4. held' = held \/ held' = Append(held, m)
    <3>1. InHand \o Append(uart_msgq, m) = Append(held, m)
      BY <1>1, <1>2, <2>2 DEF InHand
    <3>2. QED
      BY <2>1, <2>3, <3>1
  <2> HIDE DEF held
  <2>5. queue' \in {queue, Append(queue, lines + 1)}
    BY <1>2, <2>2, <2>4, Lines_Append
  <2>6. EchoFifo!Offer
    BY <2>1, <2>5 DEF EchoFifo!Offer, Lines, held
  <2>7. QED
    BY <2>6 DEF EchoFifo!Next
<1>5. CASE \/ \E c \in Input : serial_cb_Char(c)
           \/ NotReady \/ Configure \/ Greet \/ UNCHANGED vars
  <2>1. /\ UNCHANGED <<lines, uart_msgq, tx_buf, echoed>>
        /\ thread' = "echo" <=> thread = "echo"
    BY <1>5 DEF serial_cb_Char, NotReady, Configure, Greet, vars
  <2>2. QED
    BY <1>3, <2>1 DEF InHand
<1>6. CASE k_msgq_get
  <2>1. /\ uart_msgq # <<>> /\ InHand = <<>>
        /\ InHand' = <<Head(uart_msgq)>> /\ uart_msgq' = Tail(uart_msgq)
        /\ UNCHANGED <<lines, echoed>>
    BY <1>6 DEF k_msgq_get, InHand
  <2>2. <<Head(uart_msgq)>> \o Tail(uart_msgq) = <<>> \o uart_msgq
    BY <1>1, <2>1
  <2>3. QED
    BY <1>3, <2>1, <2>2
<1>7. CASE Echo
  <2> DEFINE e == [line |-> tx_buf.line, typed |-> tx_buf.typed,
                   text |-> print_uart(tx_buf.bytes)]
  <2>1. /\ InHand = <<tx_buf>> /\ InHand' = <<>>
        /\ echoed' = Append(echoed, e)
        /\ UNCHANGED <<lines, uart_msgq>>
    BY <1>7 DEF Echo, InHand
  <2>2. e \in EchoRecord /\ e.line = tx_buf.line
    BY <1>1, PrintFaithful DEF EchoInv, EchoRecord, Message
  <2> HIDE DEF e
  <2>3. held = <<tx_buf>> \o uart_msgq /\ held' = uart_msgq
    BY <1>1, <2>1
  <2> HIDE DEF held
  <2>4. queue # <<>> /\ Head(queue) = tx_buf.line /\ queue' = Tail(queue)
    BY <1>1, <2>3, Lines_Cons
  <2>5. delivered' = Append(delivered, Head(queue))
    BY <1>1, <2>1, <2>2, <2>4, Lines_Append
  <2>6. EchoFifo!Deliver
    BY <2>1, <2>4, <2>5 DEF EchoFifo!Deliver, Lines, held
  <2>7. QED
    BY <2>6 DEF EchoFifo!Next
<1>8. QED
  BY <1>4, <1>5, <1>6, <1>7 DEF Next, serial_cb, thread_echo_bot

\* Every line is dropped at once or echoed, at most once and in the order in
\* which the lines were typed, for messages and queues of any size.
THEOREM EchoFifoCorrect == Spec => EchoFifoSpec
<1>1. Init => EchoFifo!Init
  BY DEF Init, EchoFifo!Init, InHand
<1>2. QED
  BY <1>1, EchoFifoStep, EchoInvariant, PTL
  DEF Spec, EchoFifoSpec, EchoFifo!Spec

\* So no line is echoed twice, before an older one, or without having been typed.
THEOREM EchoInOrder == Spec => []EchoFifo!InOrder
<1> DEFINE queue == Lines(InHand \o uart_msgq)
           delivered == Lines(echoed)
           Order == Ordered(lines, queue, delivered)
<1>1. EchoFifo!Init => Order
  BY DEF EchoFifo!Init, Ordered, Lines
<1>2. Order /\ [EchoFifo!Next]_EchoFifo!vars => Order'
  <2> SUFFICES ASSUME Order, [EchoFifo!Next]_EchoFifo!vars
               PROVE  Order'
    OBVIOUS
  <2>1. CASE EchoFifo!Offer
    <3>1. /\ lines' = lines + 1 /\ delivered' = delivered
          /\ queue' \in {queue, Append(queue, lines + 1)}
      BY <2>1 DEF EchoFifo!Offer, Lines
    <3> HIDE DEF queue, delivered
    <3>2. Ordered(lines + 1, queue', delivered)
      BY <3>1, Ordered_Offer
    <3>3. QED
      BY <3>1, <3>2
  <2>2. CASE EchoFifo!Deliver
    <3>1. /\ lines' = lines /\ queue # <<>> /\ queue' = Tail(queue)
          /\ delivered' = Append(delivered, Head(queue))
      BY <2>2 DEF EchoFifo!Deliver, Lines
    <3> HIDE DEF queue, delivered
    <3>2. Ordered(lines, Tail(queue), Append(delivered, Head(queue)))
      BY <3>1, Ordered_Deliver
    <3>3. QED
      BY <3>1, <3>2
  <2>3. CASE UNCHANGED EchoFifo!vars
    <3>1. lines' = lines /\ queue' = queue /\ delivered' = delivered
      BY <2>3 DEF EchoFifo!vars, Lines
    <3> HIDE DEF queue, delivered
    <3>2. QED
      BY <3>1
  <2>4. QED
    BY <2>1, <2>2, <2>3 DEF EchoFifo!Next
<1>3. Order => EchoFifo!InOrder
  BY DEF Ordered, EchoFifo!InOrder, EchoFifo!Increasing, Lines
<1>4. QED
  BY <1>1, <1>2, <1>3, EchoFifoCorrect, PTL DEF EchoFifoSpec, EchoFifo!Spec
=============================================================================
