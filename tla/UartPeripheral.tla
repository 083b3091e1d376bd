---------------------------- MODULE UartPeripheral ---------------------------
(***************************************************************************)
(* The my_uart_peripheral driver and its application.  The UART interrupt  *)
(* collects characters and hands them to peripheral_callback, as a string  *)
(* at a NUL and as a fragment when rx_buf is full; the button interrupt    *)
(* transmits data->str, which a thread may be changing.                    *)
(*                                                                         *)
(* An interrupt preempts the thread between any two of its stores, and the *)
(* thread never runs inside of an interrupt.  The handler reads the        *)
(* callback once per interrupt, which is the same as once per character.   *)
(***************************************************************************)
EXTENDS Integers, Sequences, FiniteSets, SequencesExt

CONSTANTS
  RX_BUF_SIZE,  \* CONFIG_MY_UART_PERIPHERAL_RX_BUF_SIZE
  MAX_STR_LEN,  \* CONFIG_MY_UART_PERIPHERAL_MAX_STR_LEN
  MaxRx,        \* bound: characters received
  MaxSets,      \* bound: calls of user_set_string
  MaxTx         \* bound: button presses

ASSUME SizesAssumption ==
  /\ RX_BUF_SIZE \in Nat \ {0}
  /\ MAX_STR_LEN \in Nat

ASSUME BoundsAssumption == {MaxRx, MaxSets, MaxTx} \subseteq Nat

NUL == "nul"
Letter == {"a", "b"}
Char == Letter \cup {NUL}

\* What the application may ask for: "String length too long." otherwise.
Settable_TooLong == UNION {[1..n -> Letter] : n \in 0..MAX_STR_LEN + 1}
Settable == UNION {[1..n -> Letter] : n \in 0..MAX_STR_LEN}

VARIABLES
  dev,        \* how far init_my_uart_peripheral got; "fault": halted
  stores,     \* the stores user_set_string_callback has still to do
  string_callback,  \* data->string_callback is peripheral_callback
  user_data,  \* data->user_data is &tracker; otherwise NULL
  rx_irq,     \* uart_int_handler is installed and reception enabled
  rx_buf,     \* the rx_data_len bytes held in data->rx_buf
  tracker,    \* the application's counters
  str,        \* data->str, index 0..MAX_STR_LEN
  new,        \* the string user_set_string is copying
  copied,     \* how many bytes of it are copied, or Idle
  \* History, read by the properties only:
  received,   \* characters, without those discarded before a callback is set
  chunks,     \* what peripheral_callback was called with, and after how many
              \* received characters
  current,    \* the string last set
  sets,       \* calls of user_set_string
  sent        \* the transmitted strings

rxVars == <<rx_irq, rx_buf, tracker, received, chunks>>
txVars == <<str, new, copied, current, sets, sent>>
vars == <<dev, stores, string_callback, user_data, rxVars, txVars>>

Idle == -1

-----------------------------------------------------------------------------
(* Boot, and the registration of the callback.                             *)

\* The array that holds string s, as initialised from the device tree.
ArrayOf(s) == [i \in 0..MAX_STR_LEN |-> IF i < Len(s) THEN s[i + 1] ELSE NUL]

Init ==
  /\ dev = "off"
  /\ stores = {}
  /\ string_callback = FALSE /\ user_data = FALSE
  /\ rx_irq = FALSE
  /\ rx_buf = <<>>
  /\ tracker = [strings |-> 0, overflows |-> 0]
  /\ current \in Settable
  /\ str = ArrayOf(current)
  /\ new = <<>> /\ copied = Idle
  /\ received = <<>> /\ chunks = <<>>
  /\ sets = 0 /\ sent = <<>>

init_uart ==
  /\ dev = "off"
  /\ dev' = "uart"
  /\ rx_irq' = TRUE
  /\ UNCHANGED <<stores, string_callback, user_data, rx_buf, tracker, received,
                 chunks, txVars>>

\* The UART, the GPIO port, its pin or its interrupt failed: -ENODEV, or the
\* error of the GPIO driver.  After init_uart, reception stays enabled.
InitFails ==
  /\ dev \in {"off", "uart"}
  /\ dev' = "failed"
  /\ UNCHANGED <<stores, string_callback, user_data, rxVars, txVars>>

\* The last step is to add transmit_string to the callbacks of the port.
InitSucceeds ==
  /\ dev = "uart"
  /\ dev' = "ready"
  /\ UNCHANGED <<stores, string_callback, user_data, rxVars, txVars>>

my_uart_set_callback == stores' = {"string_callback", "user_data"}

\* main calls user_set_string_callback, if the device is ready.
main_my_uart_peripheral ==
  /\ dev = "ready"
  /\ ~string_callback /\ ~user_data /\ stores = {}
  /\ my_uart_set_callback
  /\ UNCHANGED <<dev, string_callback, user_data, rxVars, txVars>>

\* One of its two stores, whose order the compiler may choose.
user_set_string_callback(field) ==
  /\ field \in stores
  /\ stores' = stores \ {field}
  /\ string_callback' = (string_callback \/ field = "string_callback")
  /\ user_data' = (user_data \/ field = "user_data")
  /\ UNCHANGED <<dev, rxVars, txVars>>

-----------------------------------------------------------------------------
(* Reception.                                                              *)

\* rx_buf_capacity == 0
RxBufFull_OffByOne(len) == len = RX_BUF_SIZE + 1
RxBufFull(len) == len = RX_BUF_SIZE

\* peripheral_callback: a counter is reached through user_data, if not NULL.
peripheral_callback(is_string) ==
  IF is_string THEN [tracker EXCEPT !.strings = @ + 1]
               ELSE [tracker EXCEPT !.overflows = @ + 1]

\* What is left in rx_buf once a chunk is handed over.
AfterChunk_KeepLast(data) == <<Last(data)>>
AfterChunk(data) == <<>>

\* uart_int_handler, for one character.  If user_data is still NULL, the
\* callback increments a counter at address 0: the firmware faults or goes on.
uart_int_handler(c) ==
  LET data == Append(rx_buf, c)
      is_string == c = NUL
      chunk == is_string \/ RxBufFull(Len(data))
  IN /\ rx_irq
     /\ Len(received) < MaxRx
     /\ rx_buf' = IF chunk THEN AfterChunk(data) ELSE data
     /\ IF chunk /\ string_callback
          THEN /\ chunks' = Append(chunks, [data |-> data,
                                            is_string |-> is_string,
                                            user_data |-> user_data,
                                            end |-> Len(received) + 1])
               /\ tracker' = IF user_data THEN peripheral_callback(is_string)
                                          ELSE tracker
               /\ dev' \in IF user_data THEN {dev} ELSE {dev, "fault"}
          ELSE UNCHANGED <<chunks, tracker, dev>>
     /\ received' = IF chunk /\ ~string_callback THEN <<>>
                                                 ELSE Append(received, c)
     /\ UNCHANGED <<stores, string_callback, user_data, rx_irq, txVars>>

-----------------------------------------------------------------------------
(* Transmission.                                                           *)

\* A thread calls user_set_string, which is about to copy.
my_uart_set_string(s) ==
  /\ dev = "ready"
  /\ copied = Idle
  /\ sets < MaxSets
  /\ s \in Settable
  /\ new' = s
  /\ copied' = 0
  /\ sets' = sets + 1
  /\ UNCHANGED <<dev, stores, string_callback, user_data, rxVars, str, current,
                 sent>>

\* memcpy copies a byte.
CopyByte ==
  /\ copied # Idle
  /\ copied < Len(new)
  /\ str' = [str EXCEPT ![copied] = new[copied + 1]]
  /\ copied' = copied + 1
  /\ UNCHANGED <<dev, stores, string_callback, user_data, rxVars, new, current,
                 sets, sent>>

\* user_set_string terminates the string and returns.
Terminated_Missing == str
Terminated == [str EXCEPT ![Len(new)] = NUL]
SetStringEnds ==
  /\ copied = Len(new)
  /\ str' = Terminated
  /\ copied' = Idle
  /\ new' = <<>>
  /\ current' = new
  /\ UNCHANGED <<dev, stores, string_callback, user_data, rxVars, sets, sent>>

\* strlen; MAX_STR_LEN + 1 stands for any result past the end of the array.
strlen ==
  CHOOSE n \in 0..MAX_STR_LEN + 1 :
    /\ \A i \in 0..n - 1 : str[i] # NUL
    /\ n <= MAX_STR_LEN => str[n] = NUL

\* The button is pressed: transmit_string puts out data->str and a NUL.
transmit_string ==
  /\ dev = "ready"
  /\ Len(sent) < MaxTx
  /\ sent' = Append(sent, [text |-> [i \in 1..strlen |-> str[i - 1]],
                           old |-> current,
                           new |-> IF copied = Idle THEN current ELSE new])
  /\ UNCHANGED <<dev, stores, string_callback, user_data, rxVars, str, new,
                 copied, current, sets>>

Boot == init_uart \/ InitFails \/ InitSucceeds \/ main_my_uart_peripheral

Next ==
  /\ dev # "fault"
  /\ \/ Boot
     \/ \E field \in {"string_callback", "user_data"} :
          user_set_string_callback(field)
     \/ \E c \in {"a", NUL} : uart_int_handler(c)
     \/ \E s \in Settable : my_uart_set_string(s)
     \/ CopyByte \/ SetStringEnds \/ transmit_string

Spec == Init /\ [][Next]_vars

-----------------------------------------------------------------------------
(* Properties.                                                             *)

\* Every variable has its type, and data->rx_buf[data->rx_data_len] is inside
\* the array whenever uart_int_handler stores the next character.
TypeOK ==
  /\ dev \in {"off", "uart", "ready", "failed", "fault"}
  /\ stores \subseteq {"string_callback", "user_data"}
  /\ string_callback \in BOOLEAN /\ user_data \in BOOLEAN /\ rx_irq \in BOOLEAN
  /\ rx_buf \in Seq(Char) /\ Len(rx_buf) < RX_BUF_SIZE
  /\ tracker \in [strings : Nat, overflows : Nat]
  /\ str \in [0..MAX_STR_LEN -> Char]
  /\ new \in Settable /\ current \in Settable
  /\ copied \in {Idle} \cup 0..Len(new)
  /\ received \in Seq(Char)
  /\ chunks \in Seq([data : Seq(Char), is_string : BOOLEAN,
                     user_data : BOOLEAN, end : Nat])
  /\ sets \in Nat
  /\ sent \in Seq([text : Seq(Char), old : Settable, new : Settable])

\* Whenever the button is pressed, also while user_set_string is half done,
\* data->str has a terminator, so that strlen does not leave the array.
StrTerminated == str[MAX_STR_LEN] = NUL

\* No access leaves an array: neither a store in rx_buf or str, nor a strlen.
InBounds == TypeOK /\ StrTerminated

\* A transmission that does not interrupt a change of the string is exactly the
\* string that was set last, whatever longer strings the array held before.
SettledTransmission ==
  \A i \in 1..Len(sent) : sent[i].old = sent[i].new => sent[i].text = sent[i].old

\* text starts with a part of the string set and goes on with the string held.
\* Only past the end of held may it go on with what an even older string left.
CutFrom(text, held, set) ==
  \E k \in 0..Len(set) :
    IF k <= Len(held) THEN text = SubSeq(set, 1, k) \o SubSeq(held, k + 1, Len(held))
                      ELSE IsPrefix(SubSeq(set, 1, k), text)

\* A transmission that interrupts a change of the string is cut from the two
\* strings, at one place: the new one up to there, then the rest of the old one.
\* Where the two strings are the same, it is that string (SettledTransmission).
TornTransmission ==
  \A i \in 1..Len(sent) : CutFrom(sent[i].text, sent[i].old, sent[i].new)

\* "Can be changed during run-time": a string that is transmitted was set, also
\* if it is just being changed.
TransmitsWhole ==
  \A i \in 1..Len(sent) : sent[i].text \in {sent[i].old, sent[i].new}

\* Where the i-th of the chunks ch ends in what was received.
Cut(ch, i) == IF i = 0 THEN 0 ELSE ch[i].end

\* Each chunk is what was received after the one before it.
Segments(ch, rec) ==
  \A i \in 1..Len(ch) :
    /\ Cut(ch, i - 1) < Cut(ch, i) /\ Cut(ch, i) <= Len(rec)
    /\ ch[i].data = SubSeq(rec, Cut(ch, i - 1) + 1, Cut(ch, i))

\* The chunks handed to peripheral_callback, one after the other, and then what
\* rx_buf holds, are exactly the characters received.
NothingLost ==
  /\ Segments(chunks, received)
  /\ rx_buf = SubSeq(received, Cut(chunks, Len(chunks)) + 1, Len(received))

\* The chunks that were handed over with user_data, as a string and as a full
\* rx_buf.
Strings == {i \in 1..Len(chunks) : chunks[i].user_data /\ Last(chunks[i].data) = NUL}
Overflows ==
  {i \in 1..Len(chunks) : /\ chunks[i].user_data
                          /\ Len(chunks[i].data) = RX_BUF_SIZE
                          /\ Last(chunks[i].data) # NUL}

\* The counters are those of the chunks that were handed over with user_data:
\* a string for each that ends in a NUL, an overflow for each full rx_buf.
TrackerCounts ==
  tracker = [strings |-> Cardinality(Strings), overflows |-> Cardinality(Overflows)]

\* "Pointer to data accesible from the callback function": the callback is
\* called with the user_data it was registered with.
UserDataPresent == \A i \in 1..Len(chunks) : chunks[i].user_data
=============================================================================
