------------------------------- MODULE EchoBot -------------------------------
(***************************************************************************)
(* The echo bot: serial_cb, in interrupt context, collects characters in   *)
(* rx_buf and puts the whole array into uart_msgq at a line end; the       *)
(* thread takes the arrays out and prints each one as a C string.          *)
(*                                                                         *)
(* '\n' and '\r' are both "eol".  rx_buf is not cleared between lines, so  *)
(* a message carries what earlier lines left behind its terminator.        *)
(***************************************************************************)
EXTENDS Integers, Sequences, SequencesExt

CONSTANTS
  MSG_SIZE,    \* size of rx_buf, tx_buf and of a message, in bytes
  QUEUE_LEN,   \* messages uart_msgq can store
  Input,       \* bound: the characters that are typed
  MaxTyped,    \* bound: characters typed before a line end
  MaxLines     \* bound: line ends

NUL == "nul"
Char == {"a", "b", "eol", NUL}

ASSUME SizesAssumption ==
  /\ MSG_SIZE \in Nat \ {0}
  /\ QUEUE_LEN \in Nat \ {0}

ASSUME InputAssumption ==
  /\ Input \subseteq Char
  /\ MaxTyped \in Nat
  /\ MaxLines \in Nat

VARIABLES
  thread,      \* control point of thread_echo_bot
  rx_irq,      \* serial_cb is installed and reception enabled
  rx_buf,      \* the receive buffer, index 0..MSG_SIZE-1
  rx_buf_pos,  \* index of the next character
  uart_msgq,   \* the queued messages, oldest first
  tx_buf,      \* the message being printed
  \* History, read by the properties only:
  typed,       \* the characters typed since the last line end
  lines,       \* messages put, or dropped because the queue was full
  echoed       \* the messages printed, in order, as they appear

vars == <<thread, rx_irq, rx_buf, rx_buf_pos, uart_msgq, tx_buf, typed, lines,
          echoed>>

Index == 0..MSG_SIZE - 1
Buffer == [Index -> Char]

\* A message: its bytes, and as history its number and what was typed for it.
Message == [line : Nat, bytes : Buffer, typed : Seq(Char)]

Blank == [i \in Index |-> NUL]
NoMessage == [line |-> 0, bytes |-> Blank, typed |-> <<>>]

-----------------------------------------------------------------------------

\* strlen; MSG_SIZE stands for any result past the end of the array.
strlen(bytes) ==
  CHOOSE n \in 0..MSG_SIZE :
    /\ \A i \in 0..n - 1 : bytes[i] # NUL
    /\ n < MSG_SIZE => bytes[n] = NUL

\* The characters that print_uart puts out.
print_uart(bytes) == [i \in 1..strlen(bytes) |-> bytes[i - 1]]

Init ==
  /\ thread = "start"
  /\ rx_irq = FALSE
  /\ rx_buf = Blank
  /\ rx_buf_pos = 0
  /\ uart_msgq = <<>>
  /\ tx_buf = NoMessage
  /\ typed = <<>>
  /\ lines = 0
  /\ echoed = <<>>

EndsLine_OffByOne(c) == c = "eol" /\ rx_buf_pos > 1
EndsLine(c) == c = "eol" /\ rx_buf_pos > 0

HasSpace_OffByOne == rx_buf_pos < MSG_SIZE
HasSpace == rx_buf_pos < MSG_SIZE - 1

Terminate_Missing == rx_buf
Terminate == [rx_buf EXCEPT ![rx_buf_pos] = NUL]

\* k_msgq_put without waiting: a full queue is left alone.
k_msgq_put_DropOldest(q, m) ==
  IF Len(q) < QUEUE_LEN THEN Append(q, m) ELSE Append(Tail(q), m)
k_msgq_put(q, m) == IF Len(q) < QUEUE_LEN THEN Append(q, m) ELSE q

\* serial_cb, for a character that ends a line.
serial_cb_Line(c) ==
  /\ rx_irq
  /\ EndsLine(c)
  /\ lines < MaxLines
  /\ rx_buf' = Terminate
  /\ uart_msgq' = k_msgq_put(uart_msgq, [line |-> lines + 1,
                                         bytes |-> Terminate, typed |-> typed])
  /\ rx_buf_pos' = 0
  /\ typed' = <<>>
  /\ lines' = lines + 1
  /\ UNCHANGED <<thread, rx_irq, tx_buf, echoed>>

\* serial_cb, for any other character: stored, or dropped if rx_buf is full.
serial_cb_Char(c) ==
  /\ rx_irq
  /\ ~EndsLine(c)
  /\ Len(typed) < MaxTyped
  /\ IF HasSpace
       THEN /\ rx_buf' = [rx_buf EXCEPT ![rx_buf_pos] = c]
            /\ rx_buf_pos' = rx_buf_pos + 1
       ELSE UNCHANGED <<rx_buf, rx_buf_pos>>
  /\ typed' = Append(typed, c)
  /\ UNCHANGED <<thread, rx_irq, uart_msgq, tx_buf, lines, echoed>>

\* thread_echo_bot finds the UART not ready, and returns.
NotReady ==
  /\ thread = "start"
  /\ thread' = "ended"
  /\ UNCHANGED <<rx_irq, rx_buf, rx_buf_pos, uart_msgq, tx_buf, typed, lines,
                 echoed>>

\* It installs serial_cb and enables reception, and then prints its greeting.
Configure ==
  /\ thread = "start"
  /\ thread' = "greet"
  /\ rx_irq' = TRUE
  /\ UNCHANGED <<rx_buf, rx_buf_pos, uart_msgq, tx_buf, typed, lines, echoed>>

Greet ==
  /\ thread = "greet"
  /\ thread' = "wait"
  /\ UNCHANGED <<rx_irq, rx_buf, rx_buf_pos, uart_msgq, tx_buf, typed, lines,
                 echoed>>

k_msgq_get ==
  /\ thread = "wait"
  /\ uart_msgq # <<>>
  /\ thread' = "echo"
  /\ tx_buf' = Head(uart_msgq)
  /\ uart_msgq' = Tail(uart_msgq)
  /\ UNCHANGED <<rx_irq, rx_buf, rx_buf_pos, typed, lines, echoed>>

Echo_Once ==
  /\ thread = "echo"
  /\ thread' = "ended"
  /\ echoed' = Append(echoed, [line |-> tx_buf.line, typed |-> tx_buf.typed,
                               text |-> print_uart(tx_buf.bytes)])
  /\ UNCHANGED <<rx_irq, rx_buf, rx_buf_pos, uart_msgq, tx_buf, typed, lines>>

\* The message, between its prefix and a line end, is printed.
Echo ==
  /\ thread = "echo"
  /\ thread' = "wait"
  /\ echoed' = Append(echoed, [line |-> tx_buf.line, typed |-> tx_buf.typed,
                               text |-> print_uart(tx_buf.bytes)])
  /\ UNCHANGED <<rx_irq, rx_buf, rx_buf_pos, uart_msgq, tx_buf, typed, lines>>

serial_cb == \E c \in Input : serial_cb_Line(c) \/ serial_cb_Char(c)
thread_echo_bot == NotReady \/ Configure \/ Greet \/ k_msgq_get \/ Echo

Next == serial_cb \/ thread_echo_bot

Spec == Init /\ [][Next]_vars

\* The thread gets the processor again after every interrupt.
FairSpec == Spec /\ WF_vars(thread_echo_bot)

-----------------------------------------------------------------------------

\* Every variable has its type, and the terminator written at a line end falls
\* inside of rx_buf.
TypeOK ==
  /\ thread \in {"start", "ended", "greet", "wait", "echo"}
  /\ rx_irq \in BOOLEAN
  /\ rx_buf \in Buffer
  /\ rx_buf_pos \in Index
  /\ uart_msgq \in Seq(Message) /\ Len(uart_msgq) <= QUEUE_LEN
  /\ tx_buf \in Message
  /\ typed \in Seq(Char)
  /\ lines \in Nat
  /\ echoed \in Seq([line : Nat, typed : Seq(Char), text : Seq(Char)])

\* How many of the characters typed for a line have room in a message.
Kept(chars) == IF Len(chars) < MSG_SIZE THEN Len(chars) ELSE MSG_SIZE - 1

\* The echo of a line is what was typed for it, cut at the size of a message
\* and at the first NUL; nothing of an earlier, longer line shows through
\* although rx_buf is never cleared. The terminator is inside of rx_buf.
Faithful(text, chars) ==
  /\ Len(text) <= Kept(chars)
  /\ \A i \in 1..Len(text) : text[i] = chars[i] /\ text[i] # NUL
  /\ Len(text) < Kept(chars) => chars[Len(text) + 1] = NUL

EchoFaithful ==
  /\ TypeOK
  /\ \A k \in 1..Len(echoed) : Faithful(echoed[k].text, echoed[k].typed)

\* A line end after at least one character ends the message, another is stored
\* as a character: of "\r\n", the second one starts the next message, where it
\* is the first character and no line end follows it.
LineEndOnlyFirst ==
  \A k \in 1..Len(echoed) :
    \A i \in 2..Len(echoed[k].text) : echoed[k].text[i] # "eol"

\* Lines go through a lossy FIFO: each one is dropped at once or echoed, at
\* most once and in the order in which they were typed.
InHand == IF thread = "echo" THEN <<tx_buf>> ELSE <<>>

EchoFifo == INSTANCE LossyFifo WITH
  offered   <- lines,
  queue     <- [i \in 1..Len(InHand \o uart_msgq) |->
                  (InHand \o uart_msgq)[i].line],
  delivered <- [i \in 1..Len(echoed) |-> echoed[i].line]

EchoFifoSpec == EchoFifo!Spec

\* Every message that uart_msgq accepted is eventually echoed.
EventuallyEchoed ==
  \A n \in 1..MaxLines :
    (\E i \in 1..Len(uart_msgq) : uart_msgq[i].line = n)
      ~> (\E i \in 1..Len(echoed) : echoed[i].line = n)
=============================================================================
