------------------------- MODULE UartPeripheralProofs -------------------------
(***************************************************************************)
(* Theorems about the my_uart_peripheral driver and its application, for   *)
(* buffers and strings of any size.                                        *)
(***************************************************************************)
EXTENDS UartPeripheral, CommonLemmas, FiniteSetTheorems, TLAPS

Chunk == [data : Seq(Char), is_string : BOOLEAN, user_data : BOOLEAN, end : Nat]
Transmission == [text : Seq(Char), old : Settable, new : Settable]

-----------------------------------------------------------------------------
(* Strings and the array that holds one.                                   *)

LEMMA SettableString ==
  ASSUME NEW s \in Settable
  PROVE  /\ s \in Seq(Char) /\ Len(s) \in 0..MAX_STR_LEN
         /\ \A i \in 1..Len(s) : s[i] \in Char /\ s[i] # NUL
<1>1. PICK n \in 0..MAX_STR_LEN : s \in [1..n -> Letter]
  BY DEF Settable
<1>2. n \in Nat
  BY SizesAssumption
<1>3. s \in Seq(Letter) /\ Len(s) = n
  BY <1>1, <1>2
<1>4. \A i \in 1..n : s[i] \in Char /\ s[i] # NUL
  BY <1>1 DEF Char, Letter, NUL
<1>5. QED
  BY <1>2, <1>3, <1>4 DEF Char

LEMMA EmptySettable == <<>> \in Settable
<1>1. 0 \in 0..MAX_STR_LEN /\ <<>> \in [1..0 -> Letter]
  BY SizesAssumption
<1>2. QED
  BY <1>1 DEF Settable

\* In an array with a NUL, strlen is the position of the first one.
LEMMA strlen_First ==
  ASSUME str \in [0..MAX_STR_LEN -> Char], NEW k \in 0..MAX_STR_LEN, str[k] = NUL
  PROVE  /\ strlen \in 0..k
         /\ str[strlen] = NUL
         /\ \A i \in 0..strlen - 1 : str[i] # NUL
<1> DEFINE Good(n) == /\ \A i \in 0..n - 1 : str[i] # NUL
                      /\ n <= MAX_STR_LEN => str[n] = NUL
           T == {n \in 0..MAX_STR_LEN : str[n] = NUL}
<1>1. T \in SUBSET Nat /\ T # {}
  BY SizesAssumption
<1>2. PICK x \in T : \A y \in T : x <= y
  BY <1>1, LeastNat
<1>3. x \in 0..MAX_STR_LEN + 1 /\ Good(x)
  BY <1>2, SizesAssumption
<1>4. strlen \in 0..MAX_STR_LEN + 1 /\ Good(strlen)
  BY <1>3 DEF strlen
<1>5. strlen <= k
  <2>1. SUFFICES ASSUME k < strlen PROVE FALSE
    BY <1>4, SizesAssumption
  <2>2. k \in 0..strlen - 1
    BY <1>4, <2>1, SizesAssumption
  <2>3. QED
    BY <1>4, <2>2
<1>6. QED
  BY <1>4, <1>5, SizesAssumption

\* What transmit_string puts out.
Text == [i \in 1..strlen |-> str[i - 1]]

LEMMA TextType ==
  ASSUME TypeOK, StrTerminated
  PROVE  Text \in Seq(Char)
<1>1. MAX_STR_LEN \in 0..MAX_STR_LEN /\ str \in [0..MAX_STR_LEN -> Char]
  BY SizesAssumption DEF TypeOK
<1>2. strlen \in 0..MAX_STR_LEN
  BY <1>1, strlen_First DEF StrTerminated
<1> DEFINE n == strlen
<1>3. n \in 0..MAX_STR_LEN /\ Text = [i \in 1..n |-> str[i - 1]]
  BY <1>2 DEF Text
<1> HIDE DEF n
<1>4. n \in Nat /\ \A i \in 1..n : str[i - 1] \in Char
  BY <1>1, <1>3, SizesAssumption
<1>5. QED
  BY <1>3, <1>4

-----------------------------------------------------------------------------
(* Type correctness, with the terminator that keeps strlen in the array.   *)

LEMMA BaseInit == Init => InBounds
<1> SUFFICES ASSUME Init PROVE InBounds
  OBVIOUS
<1>1. current \in Settable /\ new \in Settable /\ copied \in {Idle} \cup 0..Len(new)
  BY EmptySettable DEF Init
<1>2. /\ current \in Seq(Char) /\ Len(current) \in 0..MAX_STR_LEN
      /\ \A i \in 1..Len(current) : current[i] \in Char
  BY <1>1, SettableString
<1>3. str \in [0..MAX_STR_LEN -> Char] /\ str[MAX_STR_LEN] = NUL
  BY <1>2, SizesAssumption DEF Init, ArrayOf, Char
<1>4. /\ rx_buf \in Seq(Char) /\ Len(rx_buf) < RX_BUF_SIZE
      /\ received \in Seq(Char) /\ chunks \in Seq(Chunk) /\ sent \in Seq(Transmission)
  BY SizesAssumption DEF Init
<1>5. tracker \in [strings : Nat, overflows : Nat]
  BY DEF Init
<1>6. QED
  BY <1>1, <1>3, <1>4, <1>5 DEF Init, InBounds, TypeOK, StrTerminated, Chunk, Transmission

\* A character is stored inside of rx_buf, and a full rx_buf is emptied at once.
LEMMA BaseReceive ==
  ASSUME InBounds, NEW c \in {"a", NUL}, uart_int_handler(c)
  PROVE  InBounds'
<1> DEFINE data == Append(rx_buf, c)
           chunk == c = NUL \/ RxBufFull(Len(data))
           r == [data |-> data, is_string |-> c = NUL, user_data |-> user_data,
                 end |-> Len(received) + 1]
<1>1. /\ rx_buf \in Seq(Char) /\ Len(rx_buf) < RX_BUF_SIZE /\ c \in Char
      /\ received \in Seq(Char) /\ Len(received) \in Nat
      /\ chunks \in Seq(Chunk) /\ tracker \in [strings : Nat, overflows : Nat]
      /\ user_data \in BOOLEAN
  BY DEF InBounds, TypeOK, Chunk, Char, Letter
<1>2. data \in Seq(Char) /\ Len(data) = Len(rx_buf) + 1
  BY <1>1
<1>3. r \in Chunk
  BY <1>1, <1>2 DEF Chunk
<1>4. rx_buf' \in Seq(Char) /\ Len(rx_buf') < RX_BUF_SIZE
  <2>1. CASE chunk
    BY <2>1, SizesAssumption DEF uart_int_handler, AfterChunk
  <2>2. CASE ~chunk
    BY <1>1, <1>2, <2>2, SizesAssumption DEF uart_int_handler, RxBufFull
  <2>3. QED
    BY <2>1, <2>2
<1>5. received' \in Seq(Char)
  <2>1. received' = <<>> \/ received' = Append(received, c)
    BY DEF uart_int_handler
  <2>2. <<>> \in Seq(Char) /\ Append(received, c) \in Seq(Char)
    BY <1>1
  <2>3. QED
    BY <2>1, <2>2
<1>6. chunks' \in Seq(Chunk)
  <2>1. chunks' = chunks \/ chunks' = Append(chunks, r)
    BY DEF uart_int_handler
  <2> HIDE DEF r
  <2>2. chunks \in Seq(Chunk) /\ Append(chunks, r) \in Seq(Chunk)
    BY <1>1, <1>3
  <2>3. QED
    BY <2>1, <2>2
<1>7. tracker' \in [strings : Nat, overflows : Nat]
  <2>1. \/ tracker' = tracker
        \/ tracker' = [tracker EXCEPT !.strings = @ + 1]
        \/ tracker' = [tracker EXCEPT !.overflows = @ + 1]
    BY DEF uart_int_handler, peripheral_callback
  <2>2. QED
    BY <1>1, <2>1
<1>8. dev' \in {dev, "fault"} /\ dev \in {"off", "uart", "ready", "failed", "fault"}
  BY DEF uart_int_handler, InBounds, TypeOK
<1>9. UNCHANGED <<stores, string_callback, user_data, rx_irq, txVars>>
  BY DEF uart_int_handler
<1>10. QED
  BY <1>4, <1>5, <1>6, <1>7, <1>8, <1>9
  DEF InBounds, TypeOK, StrTerminated, Chunk, txVars

\* memcpy stays below the last byte of the array, which no string reaches.
LEMMA BaseCopy ==
  ASSUME InBounds, CopyByte
  PROVE  InBounds'
<1>1. /\ new \in Settable /\ str \in [0..MAX_STR_LEN -> Char]
      /\ copied \in 0..Len(new) /\ copied < Len(new)
  BY DEF InBounds, TypeOK, CopyByte
<1>2. Len(new) \in 0..MAX_STR_LEN /\ \A i \in 1..Len(new) : new[i] \in Char
  BY <1>1, SettableString
<1>3. new[copied + 1] \in Char
  BY <1>1, <1>2, SizesAssumption
<1>4. str' \in [0..MAX_STR_LEN -> Char] /\ str'[MAX_STR_LEN] = NUL
  BY <1>1, <1>2, <1>3, SizesAssumption DEF CopyByte, InBounds, StrTerminated
<1>5. copied' \in 0..Len(new')
  BY <1>1, <1>2 DEF CopyByte
<1>6. QED
  BY <1>4, <1>5 DEF CopyByte, InBounds, TypeOK, StrTerminated, rxVars

LEMMA BaseSet ==
  ASSUME InBounds, SetStringEnds
  PROVE  InBounds'
<1>1. /\ new \in Settable /\ str \in [0..MAX_STR_LEN -> Char]
      /\ Len(new) \in 0..MAX_STR_LEN
  BY SettableString DEF InBounds, TypeOK
<1>2. str' \in [0..MAX_STR_LEN -> Char] /\ str'[MAX_STR_LEN] = NUL
  BY <1>1, SizesAssumption
  DEF SetStringEnds, Terminated, InBounds, StrTerminated, Char
<1>3. /\ copied' = Idle /\ new' = <<>> /\ current' = new
      /\ UNCHANGED <<dev, stores, string_callback, user_data, rxVars, sets, sent>>
  BY DEF SetStringEnds
<1>4. QED
  BY <1>1, <1>2, <1>3, EmptySettable DEF InBounds, TypeOK, StrTerminated, rxVars

LEMMA BaseTransmit ==
  ASSUME InBounds, transmit_string
  PROVE  InBounds'
<1> DEFINE r == [text |-> Text, old |-> current,
                 new |-> IF copied = Idle THEN current ELSE new]
<1>1. r \in Transmission
  BY TextType DEF InBounds, TypeOK, Transmission
<1>2. /\ sent' = Append(sent, r)
      /\ UNCHANGED <<dev, stores, string_callback, user_data, rxVars, str, new,
                     copied, current, sets>>
  BY DEF transmit_string, Text
<1> HIDE DEF r
<1>3. sent' \in Seq(Transmission)
  BY <1>1, <1>2 DEF InBounds, TypeOK, Transmission
<1>4. QED
  BY <1>2, <1>3 DEF InBounds, TypeOK, StrTerminated, rxVars, Transmission

LEMMA BaseInductive ==
  ASSUME InBounds, [Next]_vars
  PROVE  InBounds'
<1>1. CASE Boot
  BY <1>1 DEF Boot, init_uart, InitFails, InitSucceeds, main_my_uart_peripheral,
     my_uart_set_callback, InBounds, TypeOK, StrTerminated, rxVars, txVars
<1>2. CASE \E field \in {"string_callback", "user_data"} : user_set_string_callback(field)
  BY <1>2 DEF user_set_string_callback, InBounds, TypeOK, StrTerminated, rxVars, txVars
<1>3. CASE \E c \in {"a", NUL} : uart_int_handler(c)
  BY <1>3, BaseReceive
<1>4. CASE \E s \in Settable : my_uart_set_string(s)
  <2>1. PICK s \in Settable : my_uart_set_string(s)
    BY <1>4
  <2>2. copied' \in {Idle} \cup 0..Len(new')
    BY <2>1, SettableString DEF my_uart_set_string
  <2>3. QED
    BY <2>1, <2>2 DEF my_uart_set_string, InBounds, TypeOK, StrTerminated, rxVars
<1>5. CASE CopyByte
  BY <1>5, BaseCopy
<1>6. CASE SetStringEnds
  BY <1>6, BaseSet
<1>7. CASE transmit_string
  BY <1>7, BaseTransmit
<1>8. CASE UNCHANGED vars
  BY <1>8 DEF vars, InBounds, TypeOK, StrTerminated, rxVars, txVars
<1>9. QED
  BY <1>1, <1>2, <1>3, <1>4, <1>5, <1>6, <1>7, <1>8 DEF Next

\* For an rx_buf of any size, uart_int_handler never stores a character outside
\* of it; for strings of any length, memcpy never writes outside of data->str, and
\* at every moment of a change data->str has a terminator for strlen.
THEOREM InBoundsCorrect == Spec => []InBounds
BY BaseInit, BaseInductive, PTL DEF Spec

-----------------------------------------------------------------------------
(* Transmission.                                                           *)

\* data->str holds the string s.
Holds(s) == (\A i \in 0..Len(s) - 1 : str[i] = s[i + 1]) /\ str[Len(s)] = NUL

\* The strengthening of SettledTransmission: what memcpy has copied is in the
\* array; while nothing is copied, or a string onto itself, the array holds the
\* string that was set last.
TxInv ==
  /\ copied # Idle => \A i \in 0..copied - 1 : str[i] = new[i + 1]
  /\ copied = Idle \/ new = current => Holds(current)
  /\ SettledTransmission

\* An array that holds a string is transmitted as that string.
LEMMA TextOfHeld ==
  ASSUME InBounds, NEW s \in Settable, Holds(s)
  PROVE  Text = s
<1>1. /\ s \in Seq(Char) /\ Len(s) \in 0..MAX_STR_LEN
      /\ \A i \in 1..Len(s) : s[i] # NUL
      /\ str \in [0..MAX_STR_LEN -> Char]
  BY SettableString DEF InBounds, TypeOK
<1>2. strlen \in 0..Len(s) /\ str[strlen] = NUL
  BY <1>1, strlen_First DEF Holds
<1>3. strlen = Len(s)
  <2>1. SUFFICES ASSUME strlen < Len(s) PROVE FALSE
    BY <1>1, <1>2, SizesAssumption
  <2>2. strlen \in 0..Len(s) - 1 /\ strlen + 1 \in 1..Len(s)
    BY <1>1, <1>2, <2>1, SizesAssumption
  <2>3. str[strlen] = s[strlen + 1]
    BY <2>2 DEF Holds
  <2>4. QED
    BY <1>1, <1>2, <2>2, <2>3
<1>4. ASSUME NEW i \in 1..Len(s)
      PROVE  str[i - 1] = s[i]
  <2>1. i - 1 \in 0..Len(s) - 1 /\ (i - 1) + 1 = i
    BY <1>1, SizesAssumption
  <2>2. QED
    BY <2>1 DEF Holds
<1>5. Text = [i \in 1..Len(s) |-> s[i]]
  BY <1>3, <1>4 DEF Text
<1>6. QED
  BY <1>1, <1>5

LEMMA TxInit == Init => TxInv
<1> SUFFICES ASSUME Init PROVE TxInv
  OBVIOUS
<1>1. current \in Settable /\ copied = Idle /\ str = ArrayOf(current) /\ sent = <<>>
  BY DEF Init
<1>2. Len(current) \in 0..MAX_STR_LEN
  BY <1>1, SettableString
<1>3. Holds(current)
  BY <1>1, <1>2, SizesAssumption DEF Holds, ArrayOf
<1>4. QED
  BY <1>1, <1>3 DEF TxInv, SettledTransmission

LEMMA TxSet ==
  ASSUME InBounds, TxInv, NEW s \in Settable, my_uart_set_string(s)
  PROVE  TxInv'
<1>1. /\ copied = Idle /\ copied' = 0
      /\ UNCHANGED <<str, current, sent>>
  BY DEF my_uart_set_string
<1>2. Holds(current)'
  BY <1>1 DEF TxInv, Holds
<1>3. QED
  BY <1>1, <1>2 DEF TxInv, SettledTransmission

\* A byte that is copied changes nothing if it is the one that is there.
LEMMA TxCopy ==
  ASSUME InBounds, TxInv, CopyByte
  PROVE  TxInv'
<1>1. /\ new \in Settable /\ current \in Settable
      /\ str \in [0..MAX_STR_LEN -> Char]
      /\ copied # Idle /\ copied \in 0..Len(new) /\ copied < Len(new)
      /\ Len(new) \in 0..MAX_STR_LEN
      /\ UNCHANGED <<new, current, sent>>
      /\ copied' = copied + 1
      /\ str' = [str EXCEPT ![copied] = new[copied + 1]]
  BY SettableString DEF InBounds, TypeOK, CopyByte
<1>2. copied \in 0..MAX_STR_LEN
  BY <1>1, SizesAssumption
<1>3. /\ str'[copied] = new[copied + 1]
      /\ \A i \in 0..MAX_STR_LEN : i # copied => str'[i] = str[i]
  BY <1>1, <1>2
<1>4. ASSUME NEW i \in 0..copied' - 1
      PROVE  str'[i] = new'[i + 1]
  <2>1. CASE i = copied
    BY <1>1, <1>3, <2>1
  <2>2. CASE i \in 0..copied - 1
    <3>1. i \in 0..MAX_STR_LEN /\ i # copied
      BY <1>1, <2>2, SizesAssumption
    <3>2. QED
      BY <1>1, <1>3, <2>2, <3>1 DEF TxInv
  <2>3. i = copied \/ i \in 0..copied - 1
    BY <1>1, SizesAssumption
  <2>4. QED
    BY <2>1, <2>2, <2>3
<1>5. ASSUME new = current
      PROVE  Holds(current)'
  <2>1. Holds(current)
    BY <1>5 DEF TxInv
  <2>2. ASSUME NEW i \in 0..MAX_STR_LEN
        PROVE  str'[i] = str[i]
    <3>1. copied \in 0..Len(current) - 1
      BY <1>1, <1>5, SizesAssumption
    <3>2. str[copied] = current[copied + 1]
      BY <2>1, <3>1 DEF Holds
    <3>3. QED
      BY <1>3, <1>5, <3>2
  <2>3. str' = str
    BY <1>1, <2>2
  <2>4. QED
    BY <1>1, <2>1, <2>3 DEF Holds
<1>6. copied' # Idle
  BY <1>1, SizesAssumption DEF Idle
<1>7. QED
  BY <1>1, <1>4, <1>5, <1>6 DEF TxInv, SettledTransmission

LEMMA TxSetEnds ==
  ASSUME InBounds, TxInv, SetStringEnds
  PROVE  TxInv'
<1>1. /\ new \in Settable /\ str \in [0..MAX_STR_LEN -> Char]
      /\ Len(new) \in 0..MAX_STR_LEN /\ copied = Len(new)
      /\ str' = [str EXCEPT ![Len(new)] = NUL]
      /\ copied' = Idle /\ current' = new /\ sent' = sent
  BY SettableString DEF InBounds, TypeOK, SetStringEnds, Terminated
<1>2. copied # Idle
  BY <1>1, SizesAssumption DEF Idle
<1>3. /\ str'[Len(new)] = NUL
      /\ \A i \in 0..Len(new) - 1 : str'[i] = str[i]
  BY <1>1, SizesAssumption
<1>4. Holds(current)'
  BY <1>1, <1>2, <1>3 DEF TxInv, Holds
<1>5. QED
  BY <1>1, <1>4 DEF TxInv, SettledTransmission

LEMMA TxTransmit ==
  ASSUME InBounds, TxInv, transmit_string
  PROVE  TxInv'
<1> DEFINE r == [text |-> Text, old |-> current,
                 new |-> IF copied = Idle THEN current ELSE new]
<1>1. /\ sent' = Append(sent, r)
      /\ UNCHANGED <<str, new, copied, current>>
  BY DEF transmit_string, Text
<1>2. r \in Transmission
  BY TextType DEF InBounds, TypeOK, Transmission
<1>3. r.old = r.new => r.text = r.old
  <2>1. SUFFICES ASSUME r.old = r.new PROVE Text = current
    OBVIOUS
  <2>2. Holds(current)
    BY <2>1 DEF TxInv
  <2>3. QED
    BY <2>2, TextOfHeld DEF InBounds, TypeOK
<1> HIDE DEF r
<1>4. sent \in Seq(Transmission)
  BY DEF InBounds, TypeOK, Transmission
<1>5. /\ Len(sent') = Len(sent) + 1 /\ Len(sent) \in Nat
      /\ \A i \in 1..Len(sent) : sent'[i] = sent[i]
      /\ sent'[Len(sent) + 1] = r
  BY <1>1, <1>2, <1>4
<1>6. ASSUME NEW i \in 1..Len(sent'), sent'[i].old = sent'[i].new
      PROVE  sent'[i].text = sent'[i].old
  <2>1. CASE i = Len(sent) + 1
    BY <1>3, <1>5, <1>6, <2>1
  <2>2. CASE i \in 1..Len(sent)
    BY <1>5, <1>6, <2>2 DEF TxInv, SettledTransmission
  <2>3. QED
    BY <1>5, <2>1, <2>2
<1>7. SettledTransmission'
  BY <1>6 DEF SettledTransmission
<1>8. QED
  BY <1>1, <1>7 DEF TxInv, Holds

\* What the array holds, at every moment of a change.
LEMMA TxInvariant == Spec => []TxInv
<1>1. InBounds /\ TxInv /\ [Next]_vars => TxInv'
  <2> SUFFICES ASSUME InBounds, TxInv, [Next]_vars PROVE TxInv'
    OBVIOUS
  <2>1. CASE UNCHANGED txVars
    BY <2>1 DEF txVars, TxInv, Holds, SettledTransmission
  <2>2. CASE \E s \in Settable : my_uart_set_string(s)
    BY <2>2, TxSet
  <2>3. CASE CopyByte
    BY <2>3, TxCopy
  <2>4. CASE SetStringEnds
    BY <2>4, TxSetEnds
  <2>5. CASE transmit_string
    BY <2>5, TxTransmit
  <2>6. CASE Boot \/ UNCHANGED vars
    BY <2>1, <2>6 DEF Boot, init_uart, InitFails, InitSucceeds,
       main_my_uart_peripheral, vars
  <2>7. CASE \/ \E field \in {"string_callback", "user_data"} :
                  user_set_string_callback(field)
             \/ \E c \in {"a", NUL} : uart_int_handler(c)
    BY <2>1, <2>7 DEF user_set_string_callback, uart_int_handler
  <2>8. QED
    BY <2>2, <2>3, <2>4, <2>5, <2>6, <2>7 DEF Next
<1>2. QED
  BY <1>1, TxInit, InBoundsCorrect, PTL DEF Spec

\* For strings of any length, the button transmits exactly the string set last,
\* except while user_set_string replaces it by another one.
THEOREM SettledCorrect == Spec => []SettledTransmission
<1>1. TxInv => SettledTransmission
  BY DEF TxInv
<1>2. QED
  BY <1>1, TxInvariant, PTL

-----------------------------------------------------------------------------
(* Transmission during a change of the string.                             *)

\* The array holds what is left of the string s from index n on.
Remains(s, n) ==
  \A i \in n..Len(s) : str[i] = IF i < Len(s) THEN s[i + 1] ELSE NUL

\* The strengthening of TornTransmission: while memcpy is under way, the part of
\* the string set last that it has not reached is still in the array.
TornInv ==
  /\ copied # Idle => Remains(current, copied)
  /\ TornTransmission

\* What the button finds after n bytes of the new string have been copied.
LEMMA TextCut ==
  ASSUME InBounds, NEW s \in Settable, NEW t \in Settable, NEW n \in 0..Len(t),
         \A i \in 0..n - 1 : str[i] = t[i + 1],
         Remains(s, n)
  PROVE  CutFrom(Text, s, t)
<1>1. /\ s \in Seq(Char) /\ Len(s) \in 0..MAX_STR_LEN
      /\ \A i \in 1..Len(s) : s[i] # NUL
      /\ t \in Seq(Char) /\ Len(t) \in 0..MAX_STR_LEN
      /\ \A i \in 1..Len(t) : t[i] # NUL
  BY SettableString
<1>2. /\ MAX_STR_LEN \in Nat /\ n \in Nat /\ Len(s) \in Nat /\ Len(t) \in Nat
      /\ n <= Len(t) /\ Len(s) <= MAX_STR_LEN /\ Len(t) <= MAX_STR_LEN
  BY <1>1, SizesAssumption
<1>3. str \in [0..MAX_STR_LEN -> Char] /\ str[MAX_STR_LEN] = NUL
  BY DEF InBounds, TypeOK, StrTerminated
<1>4. /\ strlen \in 0..MAX_STR_LEN /\ str[strlen] = NUL
      /\ \A i \in 0..strlen - 1 : str[i] # NUL
  BY <1>2, <1>3, strlen_First
<1> DEFINE m == strlen
<1>5. m \in Nat /\ m <= MAX_STR_LEN /\ str[m] = NUL
  BY <1>2, <1>4
<1>6. Text = [i \in 1..m |-> str[i - 1]] /\ Text \in Seq(Char)
  BY TextType DEF Text, InBounds
<1>7. Len(Text) = m /\ \A i \in 1..m : Text[i] = str[i - 1]
  BY <1>5, <1>6
<1> HIDE DEF m
<1>8. m >= n
  <2>1. SUFFICES ASSUME m < n PROVE FALSE
    BY <1>2, <1>5
  <2>2. m \in 0..n - 1 /\ m + 1 \in 1..Len(t)
    BY <1>2, <1>5, <2>1
  <2>3. str[m] = t[m + 1]
    BY <2>2
  <2>4. QED
    BY <1>1, <1>5, <2>2, <2>3
<1> DEFINE front == SubSeq(t, 1, n)
<1>9. /\ front \in Seq(Char) /\ Len(front) = n
      /\ \A i \in 1..n : front[i] = t[i]
  BY <1>1, <1>2
<1> HIDE DEF front
<1>10. ASSUME NEW i \in 1..n
       PROVE  i \in 1..m /\ Text[i] = front[i]
  <2>1. i \in 1..m /\ i - 1 \in 0..n - 1 /\ (i - 1) + 1 = i
    BY <1>2, <1>5, <1>8
  <2>2. str[i - 1] = t[i]
    BY <2>1
  <2>3. QED
    BY <1>7, <1>9, <2>1, <2>2
<1>11. CASE n <= Len(s)
  <2> DEFINE back == SubSeq(s, n + 1, Len(s))
             whole == front \o back
  <2>1. n \in 0..Len(s)
    BY <1>2, <1>11
  <2>2. /\ back \in Seq(Char) /\ Len(back) = Len(s) - n
        /\ \A i \in 1..Len(s) - n : back[i] = s[i + n]
    BY <1>1, <2>1, Segment
  <2> HIDE DEF back
  <2>3. /\ whole \in Seq(Char) /\ Len(whole) = Len(front) + Len(back)
        /\ \A i \in 1..Len(front) + Len(back) :
             whole[i] = IF i <= Len(front) THEN front[i] ELSE back[i - Len(front)]
    <3>1. front \in Seq(Char) /\ back \in Seq(Char)
      BY <1>9, <2>2
    <3>2. QED
      BY <3>1, ConcatElements
  <2> HIDE DEF whole
  <2>4. Len(front) + Len(back) = Len(s)
    BY <1>2, <1>9, <2>2
  <2>5. m = Len(s)
    <3>1. str[Len(s)] = NUL
      BY <1>2, <1>11 DEF Remains
    <3>2. m <= Len(s)
      <4>1. Len(s) \in 0..MAX_STR_LEN
        BY <1>1
      <4>2. strlen \in 0..Len(s)
        BY <1>3, <3>1, <4>1, strlen_First
      <4>3. QED
        BY <1>2, <4>2 DEF m
    <3>3. SUFFICES ASSUME m < Len(s) PROVE FALSE
      BY <1>2, <1>5, <3>2
    <3>4. m \in n..Len(s) /\ m + 1 \in 1..Len(s)
      BY <1>2, <1>5, <1>8, <3>3
    <3>5. str[m] = s[m + 1]
      BY <3>3, <3>4 DEF Remains
    <3>6. QED
      BY <1>1, <1>5, <3>4, <3>5
  <2>6. ASSUME NEW i \in 1..Len(s)
        PROVE  Text[i] = whole[i]
    <3>1. i \in 1..Len(front) + Len(back)
      BY <2>4
    <3>2. CASE i <= n
      <4>1. i \in 1..n
        BY <1>2, <3>2
      <4>2. whole[i] = front[i]
        BY <1>9, <2>3, <3>1, <3>2
      <4>3. QED
        BY <1>10, <4>1, <4>2
    <3>3. CASE ~(i <= n)
      <4>1. /\ i - n \in 1..Len(s) - n /\ (i - n) + n = i
            /\ i - 1 \in n..Len(s) /\ i - 1 < Len(s) /\ (i - 1) + 1 = i
        BY <1>2, <3>3
      <4>2. whole[i] = back[i - n]
        BY <1>9, <2>3, <3>1, <3>3
      <4>3. back[i - n] = s[i]
        BY <2>2, <4>1
      <4>4. str[i - 1] = s[i]
        BY <4>1 DEF Remains
      <4>5. Text[i] = str[i - 1]
        BY <1>7, <2>5
      <4>6. QED
        BY <4>2, <4>3, <4>4, <4>5
    <3>4. QED
      BY <3>2, <3>3
  <2>7. Text = whole
    <3> DEFINE p == Text
               l == Len(s)
    <3>1. /\ p \in Seq(Char) /\ whole \in Seq(Char) /\ l \in Nat
          /\ Len(p) = l /\ Len(whole) = l
          /\ \A i \in 1..l : p[i] = whole[i]
      BY <1>2, <1>6, <1>7, <2>3, <2>4, <2>5, <2>6
    <3> HIDE DEF p, l
    <3>2. p = whole
      BY <3>1, SameElements
    <3>3. QED
      BY <3>2 DEF p
  <2>8. QED
    BY <1>11, <2>7 DEF CutFrom, whole, front, back
<1>12. CASE ~(n <= Len(s))
  <2>1. SubSeq(Text, 1, n) = [i \in 1..n |-> Text[i]]
    BY <1>2, <1>6, <1>7, <1>8
  <2>2. front = [i \in 1..n |-> front[i]]
    BY <1>9
  <2>3. [i \in 1..n |-> Text[i]] = [i \in 1..n |-> front[i]]
    BY <1>10
  <2>4. SubSeq(front, 1, n) = front
    BY <1>9
  <2>5. Len(front) = n /\ Len(front) <= Len(Text)
    BY <1>7, <1>8, <1>9
  <2>6. SubSeq(front, 1, Len(front)) = SubSeq(Text, 1, Len(front))
    BY <2>1, <2>2, <2>3, <2>4, <2>5
  <2>7. IsPrefix(front, Text)
    BY <2>5, <2>6 DEF IsPrefix
  <2>8. QED
    BY <1>12, <2>7 DEF CutFrom, front
<1>13. QED
  BY <1>11, <1>12

LEMMA TornSet ==
  ASSUME InBounds, TxInv, TornInv, NEW s \in Settable, my_uart_set_string(s)
  PROVE  TornInv'
<1>1. /\ copied = Idle /\ copied' = 0
      /\ UNCHANGED <<str, current, sent>>
  BY DEF my_uart_set_string
<1>2. Holds(current)
  BY <1>1 DEF TxInv
<1>3. Len(current) \in Nat
  BY SettableString, SizesAssumption DEF InBounds, TypeOK
<1>4. Remains(current, 0)
  <2> SUFFICES ASSUME NEW i \in 0..Len(current)
               PROVE  str[i] = IF i < Len(current) THEN current[i + 1] ELSE NUL
    BY DEF Remains
  <2>1. i \in 0..Len(current) - 1 \/ i = Len(current)
    BY <1>3
  <2>2. QED
    BY <1>2, <1>3, <2>1 DEF Holds
<1>5. Remains(current, copied)'
  BY <1>1, <1>4 DEF Remains
<1>6. TornTransmission'
  BY <1>1 DEF TornInv, TornTransmission
<1>7. QED
  BY <1>5, <1>6 DEF TornInv

\* memcpy goes upwards: what it has not reached is not changed.
LEMMA TornCopy ==
  ASSUME InBounds, TornInv, CopyByte
  PROVE  TornInv'
<1>1. /\ str \in [0..MAX_STR_LEN -> Char]
      /\ copied # Idle /\ copied \in 0..Len(new)
      /\ UNCHANGED <<current, sent>>
      /\ copied' = copied + 1
      /\ str' = [str EXCEPT ![copied] = new[copied + 1]]
      /\ current \in Settable /\ new \in Settable
  BY DEF InBounds, TypeOK, CopyByte
<1>2. /\ Len(current) \in Nat /\ Len(current) <= MAX_STR_LEN /\ MAX_STR_LEN \in Nat
      /\ copied \in Nat
  BY <1>1, SettableString, SizesAssumption
<1>3. ASSUME NEW i \in copied'..Len(current)
      PROVE  str'[i] = IF i < Len(current) THEN current[i + 1] ELSE NUL
  <2>1. i \in copied..Len(current) /\ i # copied /\ i \in 0..MAX_STR_LEN
    BY <1>1, <1>2
  <2>2. str'[i] = str[i]
    BY <1>1, <2>1
  <2>3. QED
    BY <1>1, <2>1, <2>2 DEF TornInv, Remains
<1>4. QED
  BY <1>1, <1>3 DEF TornInv, Remains, TornTransmission

LEMMA TornTransmit ==
  ASSUME InBounds, TxInv, TornInv, transmit_string
  PROVE  TornInv'
<1> DEFINE r == [text |-> Text, old |-> current,
                 new |-> IF copied = Idle THEN current ELSE new]
<1>1. /\ sent' = Append(sent, r)
      /\ UNCHANGED <<str, new, copied, current>>
  BY DEF transmit_string, Text
<1>2. r \in Transmission
  BY TextType DEF InBounds, TypeOK, Transmission
<1>3. CutFrom(r.text, r.old, r.new)
  <2>1. current \in Settable /\ new \in Settable
    BY DEF InBounds, TypeOK
  <2>2. CASE copied = Idle
    <3>1. Text = current
      BY <2>1, <2>2, TextOfHeld DEF TxInv
    <3>2. current \in Seq(Char) /\ Len(current) \in Nat
      BY <2>1, SettableString, SizesAssumption
    <3>3. SubSeq(current, 1, 0) \o SubSeq(current, 1, Len(current)) = current
      BY <3>2
    <3>4. 0 \in 0..Len(current) /\ 0 <= Len(current) /\ 0 + 1 = 1
      BY <3>2
    <3>5. CutFrom(current, current, current)
      BY <3>3, <3>4 DEF CutFrom
    <3>6. QED
      BY <2>2, <3>1, <3>5
  <2>3. CASE copied # Idle
    <3>1. copied \in 0..Len(new)
      BY <2>3 DEF InBounds, TypeOK
    <3>2. CutFrom(Text, current, new)
      BY <2>1, <2>3, <3>1, TextCut DEF TxInv, TornInv
    <3>3. QED
      BY <2>3, <3>2
  <2>4. QED
    BY <2>2, <2>3
<1> HIDE DEF r
<1>4. sent \in Seq(Transmission)
  BY DEF InBounds, TypeOK, Transmission
<1>5. /\ Len(sent') = Len(sent) + 1 /\ Len(sent) \in Nat
      /\ \A i \in 1..Len(sent) : sent'[i] = sent[i]
      /\ sent'[Len(sent) + 1] = r
  BY <1>1, <1>2, <1>4
<1>6. ASSUME NEW i \in 1..Len(sent')
      PROVE  CutFrom(sent'[i].text, sent'[i].old, sent'[i].new)
  <2>1. CASE i = Len(sent) + 1
    BY <1>3, <1>5, <2>1
  <2>2. CASE i \in 1..Len(sent)
    BY <1>5, <2>2 DEF TornInv, TornTransmission
  <2>3. QED
    BY <1>5, <2>1, <2>2
<1>7. TornTransmission'
  BY <1>6 DEF TornTransmission, CutFrom
<1>8. QED
  BY <1>1, <1>7 DEF TornInv, Remains

\* For strings of any length, a button press during a change of the string
\* transmits the beginning of the new one and the rest of the old one, cut at
\* one place.
THEOREM TornCorrect == Spec => []TornTransmission
<1>1. Init => TornInv
  BY DEF Init, TornInv, TornTransmission
<1>2. InBounds /\ TxInv /\ TornInv /\ [Next]_vars => TornInv'
  <2> SUFFICES ASSUME InBounds, TxInv, TornInv, [Next]_vars PROVE TornInv'
    OBVIOUS
  <2>1. CASE UNCHANGED txVars
    BY <2>1 DEF txVars, TornInv, Remains, TornTransmission
  <2>2. CASE \E s \in Settable : my_uart_set_string(s)
    BY <2>2, TornSet
  <2>3. CASE CopyByte
    BY <2>3, TornCopy
  <2>4. CASE SetStringEnds
    BY <2>4 DEF SetStringEnds, TornInv, TornTransmission
  <2>5. CASE transmit_string
    BY <2>5, TornTransmit
  <2>6. CASE Boot \/ UNCHANGED vars
    BY <2>1, <2>6 DEF Boot, init_uart, InitFails, InitSucceeds,
       main_my_uart_peripheral, vars
  <2>7. CASE \/ \E field \in {"string_callback", "user_data"} :
                  user_set_string_callback(field)
             \/ \E c \in {"a", NUL} : uart_int_handler(c)
    BY <2>1, <2>7 DEF user_set_string_callback, uart_int_handler
  <2>8. QED
    BY <2>2, <2>3, <2>4, <2>5, <2>6, <2>7 DEF Next
<1>3. TornInv => TornTransmission
  BY DEF TornInv
<1>4. QED
  BY <1>1, <1>2, <1>3, TxInvariant, InBoundsCorrect, PTL DEF Spec

-----------------------------------------------------------------------------
(* Reception.                                                              *)

\* The strengthening of NothingLost: no chunk is handed over, and received is
\* only forgotten, before there is a callback.
RxInv ==
  /\ ~string_callback => chunks = <<>>
  /\ NothingLost

LEMMA CutRange ==
  ASSUME NEW ch \in Seq(Chunk), NEW rec \in Seq(Char), Segments(ch, rec),
         NEW i \in 0..Len(ch)
  PROVE  Cut(ch, i) \in Nat /\ Cut(ch, i) <= Len(rec)
<1>1. CASE i = 0
  BY <1>1 DEF Cut
<1>2. CASE i # 0
  <2>1. i \in 1..Len(ch) /\ ch[i] \in Chunk
    BY <1>2
  <2>2. QED
    BY <1>2, <2>1 DEF Cut, Segments, Chunk
<1>3. QED
  BY <1>1, <1>2

\* Another character does not change the segments.
LEMMA SegmentsKept ==
  ASSUME NEW ch \in Seq(Chunk), NEW rec \in Seq(Char), NEW c \in Char,
         Segments(ch, rec)
  PROVE  Segments(ch, Append(rec, c))
<1> SUFFICES ASSUME NEW i \in 1..Len(ch)
             PROVE  /\ Cut(ch, i - 1) < Cut(ch, i)
                    /\ Cut(ch, i) <= Len(Append(rec, c))
                    /\ ch[i].data
                         = SubSeq(Append(rec, c), Cut(ch, i - 1) + 1, Cut(ch, i))
  BY DEF Segments
<1> DEFINE a == Cut(ch, i - 1)
           b == Cut(ch, i)
<1>1. a < b /\ b <= Len(rec) /\ ch[i].data = SubSeq(rec, a + 1, b)
  BY DEF Segments
<1>2. i - 1 \in 0..Len(ch) /\ i \in 0..Len(ch)
  OBVIOUS
<1>3. a \in Nat /\ b \in Nat /\ a <= Len(rec)
  BY <1>2, CutRange
<1> HIDE DEF a, b
<1>4. SubSeq(Append(rec, c), a + 1, b) = SubSeq(rec, a + 1, b)
  BY <1>1, <1>3, SegmentKept
<1>5. Len(Append(rec, c)) = Len(rec) + 1 /\ Len(rec) \in Nat
  OBVIOUS
<1>6. b <= Len(Append(rec, c))
  BY <1>1, <1>3, <1>5
<1>7. QED
  BY <1>1, <1>4, <1>6 DEF a, b

\* A chunk with all that was received after the last one.
LEMMA SegmentsAppend ==
  ASSUME NEW ch \in Seq(Chunk), NEW rec \in Seq(Char), Segments(ch, rec),
         NEW r \in Chunk, r.end = Len(rec), Cut(ch, Len(ch)) < Len(rec),
         r.data = SubSeq(rec, Cut(ch, Len(ch)) + 1, Len(rec))
  PROVE  /\ Segments(Append(ch, r), rec)
         /\ Cut(Append(ch, r), Len(Append(ch, r))) = Len(rec)
<1> DEFINE d == Append(ch, r)
<1>1. /\ Len(d) = Len(ch) + 1 /\ Len(ch) \in Nat
      /\ \A i \in 1..Len(ch) : d[i] = ch[i]
      /\ d[Len(ch) + 1] = r
  OBVIOUS
<1> HIDE DEF d
<1>2. \A i \in 0..Len(ch) : Cut(d, i) = Cut(ch, i)
  BY <1>1 DEF Cut
<1>3. Cut(d, Len(ch) + 1) = Len(rec)
  BY <1>1 DEF Cut
<1>4. ASSUME NEW i \in 1..Len(d)
      PROVE  /\ Cut(d, i - 1) < Cut(d, i) /\ Cut(d, i) <= Len(rec)
             /\ d[i].data = SubSeq(rec, Cut(d, i - 1) + 1, Cut(d, i))
  <2>1. CASE i = Len(ch) + 1
    <3>1. i - 1 = Len(ch) /\ Len(ch) \in 0..Len(ch)
      BY <1>1, <2>1
    <3>2. Cut(d, i - 1) = Cut(ch, Len(ch)) /\ Cut(d, i) = Len(rec)
      BY <1>2, <1>3, <2>1, <3>1
    <3>3. d[i].data = SubSeq(rec, Cut(ch, Len(ch)) + 1, Len(rec))
      BY <1>1, <2>1
    <3>4. Len(rec) <= Len(rec)
      OBVIOUS
    <3>5. QED
      BY <3>2, <3>3, <3>4
  <2>2. CASE i \in 1..Len(ch)
    <3>1. i \in 0..Len(ch) /\ i - 1 \in 0..Len(ch)
      BY <1>1, <2>2
    <3>2. Cut(d, i - 1) = Cut(ch, i - 1) /\ Cut(d, i) = Cut(ch, i) /\ d[i] = ch[i]
      BY <1>1, <1>2, <2>2, <3>1
    <3>3. QED
      BY <2>2, <3>2 DEF Segments
  <2>3. QED
    BY <1>1, <2>1, <2>2
<1>5. Segments(d, rec)
  BY <1>4 DEF Segments
<1>6. QED
  BY <1>1, <1>3, <1>5 DEF d

\* A character that completes no chunk.
LEMMA RxCollect ==
  ASSUME InBounds, RxInv, NEW c \in Char,
         rx_buf' = Append(rx_buf, c), received' = Append(received, c),
         UNCHANGED <<chunks, string_callback>>
  PROVE  RxInv'
<1>1. /\ chunks \in Seq(Chunk) /\ received \in Seq(Char)
      /\ Len(received') = Len(received) + 1
      /\ Segments(chunks, received)
  BY DEF InBounds, TypeOK, Chunk, RxInv, NothingLost
<1> DEFINE a == Cut(chunks, Len(chunks))
<1>2. a \in Nat /\ a <= Len(received)
  BY <1>1, CutRange
<1>3. rx_buf = SubSeq(received, a + 1, Len(received))
  BY DEF RxInv, NothingLost
<1> HIDE DEF a
<1>4. rx_buf' = SubSeq(received', a + 1, Len(received'))
  BY <1>1, <1>2, <1>3, SegmentGrows
<1>5. Segments(chunks', received')
  BY <1>1, SegmentsKept
<1>6. NothingLost'
  BY <1>4, <1>5 DEF NothingLost, a
<1>7. QED
  BY <1>6 DEF RxInv

\* A character that completes a chunk, with a callback to hand it to: the chunk
\* is what came after the one before it.
LEMMA RxHandOver ==
  ASSUME InBounds, RxInv, NEW c \in Char, NEW r \in Chunk,
         r.data = Append(rx_buf, c), r.end = Len(received) + 1,
         string_callback, string_callback',
         rx_buf' = <<>>, received' = Append(received, c), chunks' = Append(chunks, r)
  PROVE  RxInv'
<1>1. /\ chunks \in Seq(Chunk) /\ received \in Seq(Char) /\ received' \in Seq(Char)
      /\ Len(received) \in Nat /\ Len(received') = Len(received) + 1
      /\ Segments(chunks, received)
  BY DEF InBounds, TypeOK, Chunk, RxInv, NothingLost
<1> DEFINE a == Cut(chunks, Len(chunks))
<1>2. a \in Nat /\ a <= Len(received)
  BY <1>1, CutRange
<1>3. rx_buf = SubSeq(received, a + 1, Len(received))
  BY DEF RxInv, NothingLost
<1> HIDE DEF a
<1>4. r.data = SubSeq(received', a + 1, Len(received'))
  BY <1>1, <1>2, <1>3, SegmentGrows
<1>5. Segments(chunks, received')
  BY <1>1, SegmentsKept
<1>6. a < Len(received') /\ r.end = Len(received')
  BY <1>1, <1>2
<1>7. Segments(chunks', received') /\ Cut(chunks', Len(chunks')) = Len(received')
  BY <1>1, <1>4, <1>5, <1>6, SegmentsAppend DEF a
<1>8. SubSeq(received', Len(received') + 1, Len(received')) = <<>>
  BY <1>1
<1>9. NothingLost'
  BY <1>7, <1>8 DEF NothingLost
<1>10. QED
  BY <1>9 DEF RxInv

\* For an rx_buf of any size, what is handed to peripheral_callback is what was
\* received, without a gap and without an overlap, and the rest is in rx_buf.
THEOREM NothingLostCorrect == Spec => []NothingLost
<1>1. Init => RxInv
  <2> SUFFICES ASSUME Init PROVE RxInv
    OBVIOUS
  <2>1. chunks = <<>> /\ received = <<>> /\ rx_buf = <<>>
    BY DEF Init
  <2>2. Cut(<<>>, Len(<<>>)) = 0 /\ SubSeq(<<>>, 1, 0) = <<>>
    BY DEF Cut
  <2>3. QED
    BY <2>1, <2>2 DEF RxInv, NothingLost, Segments
<1>2. InBounds /\ RxInv /\ [Next]_vars => RxInv'
  <2> SUFFICES ASSUME InBounds, RxInv, [Next]_vars PROVE RxInv'
    OBVIOUS
  <2>1. CASE \E c \in {"a", NUL} : uart_int_handler(c)
    <3>1. PICK c \in {"a", NUL} : uart_int_handler(c)
      BY <2>1
    <3> DEFINE data == Append(rx_buf, c)
               chunk == c = NUL \/ RxBufFull(Len(data))
               r == [data |-> data, is_string |-> c = NUL, user_data |-> user_data,
                     end |-> Len(received) + 1]
    <3>2. /\ c \in Char /\ string_callback' = string_callback
          /\ rx_buf \in Seq(Char) /\ received \in Seq(Char)
      BY <3>1 DEF Char, Letter, uart_int_handler, InBounds, TypeOK
    <3>3. CASE ~chunk
      <4>1. /\ rx_buf' = data /\ received' = Append(received, c)
            /\ UNCHANGED chunks
        BY <3>1, <3>3 DEF uart_int_handler
      <4>2. QED
        BY <3>2, <4>1, RxCollect
    <3>4. CASE chunk /\ string_callback
      <4>1. /\ rx_buf' = <<>> /\ received' = Append(received, c)
            /\ chunks' = Append(chunks, r)
        BY <3>1, <3>4 DEF uart_int_handler, AfterChunk
      <4>2. data \in Seq(Char) /\ Len(received) + 1 \in Nat
        BY <3>2
      <4>3. r \in Chunk /\ r.data = data /\ r.end = Len(received) + 1
        BY <4>2 DEF Chunk, InBounds, TypeOK
      <4> HIDE DEF r
      <4>4. QED
        BY <3>2, <3>4, <4>1, <4>3, RxHandOver
    <3>5. CASE chunk /\ ~string_callback
      <4>1. rx_buf' = <<>> /\ received' = <<>> /\ chunks' = <<>>
        BY <3>1, <3>5 DEF uart_int_handler, AfterChunk, RxInv
      <4>2. Cut(<<>>, Len(<<>>)) = 0 /\ SubSeq(<<>>, 1, 0) = <<>>
        BY DEF Cut
      <4>3. QED
        BY <4>1, <4>2 DEF RxInv, NothingLost, Segments
    <3>6. QED
      BY <3>3, <3>4, <3>5
  <2>2. CASE UNCHANGED rxVars /\ (string_callback => string_callback')
    BY <2>2 DEF rxVars, RxInv, NothingLost
  <2>3. CASE Boot
    <3>1. /\ UNCHANGED <<chunks, received, rx_buf, string_callback>>
      BY <2>3 DEF Boot, init_uart, InitFails, InitSucceeds, main_my_uart_peripheral,
                  rxVars
    <3>2. QED
      BY <3>1 DEF RxInv, NothingLost
  <2>4. CASE \E field \in {"string_callback", "user_data"} :
               user_set_string_callback(field)
    BY <2>2, <2>4 DEF user_set_string_callback
  <2>5. CASE \/ \E s \in Settable : my_uart_set_string(s)
             \/ CopyByte \/ SetStringEnds \/ transmit_string
    BY <2>2, <2>5 DEF my_uart_set_string, CopyByte, SetStringEnds, transmit_string
  <2>6. CASE UNCHANGED vars
    BY <2>2, <2>6 DEF vars
  <2>7. QED
    BY <2>1, <2>3, <2>4, <2>5, <2>6 DEF Next
<1>3. RxInv => NothingLost
  BY DEF RxInv
<1>4. QED
  BY <1>1, <1>2, <1>3, InBoundsCorrect, PTL DEF Spec

-----------------------------------------------------------------------------
(* The application's counters.                                             *)

\* A chunk that is appended is counted, if it is to be counted.
LEMMA CountedAppend ==
  ASSUME InBounds, NEW r \in Chunk, chunks' = Append(chunks, r)
  PROVE  LET n == Len(chunks) + 1
             string == r.user_data /\ Last(r.data) = NUL
             overflow == r.user_data /\ Len(r.data) = RX_BUF_SIZE /\ Last(r.data) # NUL
         IN /\ n \notin Strings /\ n \notin Overflows
            /\ Strings' = IF string THEN Strings \cup {n} ELSE Strings
            /\ Overflows' = IF overflow THEN Overflows \cup {n} ELSE Overflows
<1>1. chunks \in Seq(Chunk)
  BY DEF InBounds, TypeOK, Chunk
<1>2. /\ Len(chunks) \in Nat /\ Len(chunks') = Len(chunks) + 1
      /\ \A i \in 1..Len(chunks) : chunks'[i] = chunks[i]
      /\ chunks'[Len(chunks) + 1] = r
  BY <1>1
<1>3. /\ 1..Len(chunks') = 1..Len(chunks) \cup {Len(chunks) + 1}
      /\ Len(chunks) + 1 \notin 1..Len(chunks)
  BY <1>2
<1>4. QED
  BY <1>2, <1>3 DEF Strings, Overflows

LEMMA CountedFinite ==
  ASSUME InBounds
  PROVE  IsFiniteSet(Strings) /\ IsFiniteSet(Overflows)
<1>1. Len(chunks) \in Nat
  BY DEF InBounds, TypeOK
<1>2. IsFiniteSet(1..Len(chunks))
  BY <1>1, FS_Interval
<1>3. Strings \in SUBSET (1..Len(chunks)) /\ Overflows \in SUBSET (1..Len(chunks))
  BY DEF Strings, Overflows
<1>4. QED
  BY <1>2, <1>3, FS_Subset

LEMMA TrackerReceive ==
  ASSUME InBounds, TrackerCounts, NEW c \in {"a", NUL}, uart_int_handler(c)
  PROVE  TrackerCounts'
<1> DEFINE data == Append(rx_buf, c)
           chunk == c = NUL \/ RxBufFull(Len(data))
           r == [data |-> data, is_string |-> c = NUL, user_data |-> user_data,
                 end |-> Len(received) + 1]
           n == Len(chunks) + 1
<1>1. /\ rx_buf \in Seq(Char) /\ received \in Seq(Char) /\ c \in Char
      /\ user_data \in BOOLEAN
  BY DEF InBounds, TypeOK, Char, Letter
<1>2. CASE ~(chunk /\ string_callback)
  <2>1. UNCHANGED <<chunks, tracker>>
    BY <1>2 DEF uart_int_handler
  <2>2. QED
    BY <2>1 DEF TrackerCounts, Strings, Overflows
<1>3. CASE chunk /\ string_callback
  <2>1. /\ chunks' = Append(chunks, r)
        /\ tracker' = IF user_data THEN peripheral_callback(c = NUL) ELSE tracker
    BY <1>3 DEF uart_int_handler
  <2>2. data \in Seq(Char) /\ Last(data) = c
    BY <1>1 DEF Last
  <2>3. r \in Chunk /\ r.data = data /\ r.user_data = user_data
    BY <1>1, <2>2 DEF Chunk
  <2>4. c # NUL => Len(data) = RX_BUF_SIZE
    BY <1>3 DEF RxBufFull
  <2> HIDE DEF r, data
  <2>5. /\ n \notin Strings /\ n \notin Overflows
        /\ Strings' = IF user_data /\ c = NUL THEN Strings \cup {n} ELSE Strings
        /\ Overflows' = IF user_data /\ c # NUL THEN Overflows \cup {n} ELSE Overflows
    BY <2>1, <2>2, <2>3, <2>4, CountedAppend
  <2> HIDE DEF n
  <2>6. IsFiniteSet(Strings) /\ IsFiniteSet(Overflows)
    BY CountedFinite
  <2>7. /\ Cardinality(Strings \cup {n}) = Cardinality(Strings) + 1
        /\ Cardinality(Overflows \cup {n}) = Cardinality(Overflows) + 1
    BY <2>5, <2>6, FS_AddElement
  <2>8. tracker = [strings |-> Cardinality(Strings), overflows |-> Cardinality(Overflows)]
    BY DEF TrackerCounts
  <2>9. CASE ~user_data
    BY <2>1, <2>5, <2>8, <2>9 DEF TrackerCounts
  <2>10. CASE user_data /\ c = NUL
    <3>1. tracker' = [tracker EXCEPT !.strings = @ + 1]
      BY <2>1, <2>10 DEF peripheral_callback
    <3>2. Strings' = Strings \cup {n} /\ Overflows' = Overflows
      BY <2>5, <2>10
    <3>3. QED
      BY <2>7, <2>8, <3>1, <3>2 DEF TrackerCounts
  <2>11. CASE user_data /\ c # NUL
    <3>1. tracker' = [tracker EXCEPT !.overflows = @ + 1]
      BY <2>1, <2>11 DEF peripheral_callback
    <3>2. Strings' = Strings /\ Overflows' = Overflows \cup {n}
      BY <2>5, <2>11
    <3>3. QED
      BY <2>7, <2>8, <3>1, <3>2 DEF TrackerCounts
  <2>12. QED
    BY <2>9, <2>10, <2>11
<1>4. QED
  BY <1>2, <1>3

\* For an rx_buf of any size, the counters are the numbers of strings and of
\* full buffers that were handed over with user_data.
THEOREM TrackerCorrect == Spec => []TrackerCounts
<1>1. Init => TrackerCounts
  <2> SUFFICES ASSUME Init PROVE TrackerCounts
    OBVIOUS
  <2>1. Strings = {} /\ Overflows = {}
    BY DEF Init, Strings, Overflows
  <2>2. Cardinality({}) = 0
    BY FS_EmptySet
  <2>3. QED
    BY <2>1, <2>2 DEF Init, TrackerCounts
<1>2. InBounds /\ TrackerCounts /\ [Next]_vars => TrackerCounts'
  <2> SUFFICES ASSUME InBounds, TrackerCounts, [Next]_vars PROVE TrackerCounts'
    OBVIOUS
  <2>1. CASE UNCHANGED <<chunks, tracker>>
    BY <2>1 DEF TrackerCounts, Strings, Overflows
  <2>2. CASE \E c \in {"a", NUL} : uart_int_handler(c)
    BY <2>2, TrackerReceive
  <2>3. CASE Boot
    BY <2>1, <2>3 DEF Boot, init_uart, InitFails, InitSucceeds,
       main_my_uart_peripheral, rxVars
  <2>4. CASE \E field \in {"string_callback", "user_data"} :
               user_set_string_callback(field)
    BY <2>1, <2>4 DEF user_set_string_callback, rxVars
  <2>5. CASE \/ \E s \in Settable : my_uart_set_string(s)
             \/ CopyByte \/ SetStringEnds \/ transmit_string
    BY <2>1, <2>5
    DEF my_uart_set_string, CopyByte, SetStringEnds, transmit_string, rxVars
  <2>6. CASE UNCHANGED vars
    BY <2>1, <2>6 DEF vars, rxVars
  <2>7. QED
    BY <2>2, <2>3, <2>4, <2>5, <2>6 DEF Next
<1>3. QED
  BY <1>1, <1>2, InBoundsCorrect, PTL DEF Spec
=============================================================================
