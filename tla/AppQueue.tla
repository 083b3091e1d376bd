------------------------------ MODULE AppQueue ------------------------------
(***************************************************************************)
(* The application's message queue: send_app copies a message into a       *)
(* zeroed item and puts it in app_msgq without waiting; thread_app takes   *)
(* the items out and prints each one as a C string.  No part of the        *)
(* firmware calls send_app yet, so its callers are the environment.        *)
(*                                                                         *)
(* The bytes of message n are all n, but for a NUL (0) in one place or     *)
(* none, so that bytes of different messages can be told apart.            *)
(***************************************************************************)
EXTENDS Integers, Sequences, SequencesExt

CONSTANTS
  MSG_BODY_SIZE,  \* bytes in an item
  QUEUE_LEN,      \* items in app_msgq
  MaxMessages     \* bound: calls of send_app

VARIABLES
  started,    \* main_app has started the thread (of the environment)
  thread,     \* control point of thread_app
  app_msgq,   \* the queued items, oldest first
  rx_buf,     \* the item being printed
  \* History, read by the properties only:
  offered,    \* calls of send_app
  printed     \* the messages printed, in order

vars == <<thread, app_msgq, rx_buf, offered, printed>>

Index == 0..MSG_BODY_SIZE - 1
Byte == 0..MaxMessages

\* As history, an item has the number of its message, and how many characters
\* that has before its first NUL.
Item == [line : 0..MaxMessages, chars : 0..MSG_BODY_SIZE,
         size : 0..MSG_BODY_SIZE, data : [Index -> Byte]]
Printed == [line : 0..MaxMessages, chars : 0..MSG_BODY_SIZE, text : Seq(Byte)]

Init ==
  /\ thread = "wait" /\ app_msgq = <<>>
  /\ rx_buf = [line |-> 0, chars |-> 0, size |-> 0, data |-> [i \in Index |-> 0]]
  /\ offered = 0 /\ printed = <<>>

-----------------------------------------------------------------------------

TooLong(size) == size > MSG_BODY_SIZE

\* tx_buf = {0}: what the bytes are that memcpy does not write.
Fill_NotZeroed == offered
Fill == 0

\* The item of a message of that size with a NUL at index z, if that is in it.
item(size, z) ==
  [line |-> offered + 1, chars |-> IF z < size THEN z ELSE size, size |-> size,
   data |-> [i \in Index \cup 0..size - 1 |->
               IF i >= size THEN Fill ELSE IF i = z THEN 0 ELSE offered + 1]]

\* k_msgq_put with K_NO_WAIT: a full queue is left alone.
k_msgq_put_DropOldest(q, x) ==
  IF Len(q) < QUEUE_LEN THEN Append(q, x) ELSE Append(Tail(q), x)
k_msgq_put(q, x) == IF Len(q) < QUEUE_LEN THEN Append(q, x) ELSE q

send_app(size, z) ==
  /\ offered < MaxMessages
  /\ offered' = offered + 1
  /\ app_msgq' = IF TooLong(size) THEN app_msgq
                                  ELSE k_msgq_put(app_msgq, item(size, z))
  /\ UNCHANGED <<thread, rx_buf, printed>>

k_msgq_get ==
  /\ started
  /\ thread = "wait"
  /\ app_msgq # <<>>
  /\ rx_buf' = Head(app_msgq)
  /\ app_msgq' = Tail(app_msgq)
  /\ thread' = "recv"
  /\ UNCHANGED <<offered, printed>>

\* The characters of data up to its first NUL; when there is none, "%s" goes on
\* past the end of data.
Chars(data) ==
  LET len == CHOOSE k \in 0..MSG_BODY_SIZE :
               /\ k = MSG_BODY_SIZE \/ data[k] = 0
               /\ \A i \in 0..k - 1 : data[i] # 0
  IN [i \in 1..len |-> data[i - 1]]

AfterRecv_Return == "ended"
\* The loop of thread_app.
AfterRecv == "wait"

recv_app ==
  /\ thread = "recv"
  /\ printed' = Append(printed, [line |-> rx_buf.line, chars |-> rx_buf.chars,
                                 text |-> Chars(rx_buf.data)])
  /\ thread' = AfterRecv
  /\ UNCHANGED <<app_msgq, rx_buf, offered>>

thread_app == k_msgq_get \/ recv_app

Next ==
  \/ \E size \in 0..MSG_BODY_SIZE + 1, z \in 0..MSG_BODY_SIZE : send_app(size, z)
  \/ thread_app

-----------------------------------------------------------------------------

\* Every variable has its type; in particular, memcpy stays within an item.
TypeOK ==
  /\ thread \in {"wait", "recv"}
  /\ app_msgq \in Seq(Item) /\ Len(app_msgq) <= QUEUE_LEN
  /\ rx_buf \in Item
  /\ offered \in 0..MaxMessages
  /\ printed \in Seq(Printed)

\* What is printed for a message is that message up to its first NUL, and
\* nothing of an older one; so that only a message without a NUL that fills its
\* item makes "%s" run on past the end of data.  No message overflows an item.
AppFaithful ==
  /\ TypeOK
  /\ \A k \in 1..Len(printed) :
       printed[k].text = [i \in 1..printed[k].chars |-> printed[k].line]

InHand == IF thread = "recv" THEN <<rx_buf>> ELSE <<>>

\* app_msgq with its thread is a lossy FIFO: a message is dropped at once or
\* printed, once and in order.
AppFifo == INSTANCE LossyFifo WITH
  queue     <- [i \in 1..Len(InHand \o app_msgq) |-> (InHand \o app_msgq)[i].line],
  delivered <- [i \in 1..Len(printed) |-> printed[i].line]

AppFifoSpec == AppFifo!Spec

\* Every message that app_msgq took is printed some day.
EventuallyPrinted ==
  \A n \in 1..MaxMessages :
    (\E i \in 1..Len(app_msgq) : app_msgq[i].line = n)
      ~> (\E i \in 1..Len(printed) : printed[i].line = n)
=============================================================================
