----------------------------- MODULE BootProofs -----------------------------
(***************************************************************************)
(* Theorems about main and two of the parts that it starts: the message    *)
(* queue of the application, for items and queues of any size, and the     *)
(* temperature sensor, for every value of its register.                    *)
(***************************************************************************)
EXTENDS Boot, Mcp9808, CommonLemmas, TLAPS

-----------------------------------------------------------------------------
(* The order of main's calls.                                              *)

\* main makes fourteen calls: two that use USB, the other parts, the work queue.
LEMMA CallsParts ==
  /\ Len(Calls) = 14
  /\ Calls[1] = "main_cdc_acm" /\ Calls[2] = "main_shell_module"
  /\ \A k \in 3..8 : k - 2 \in 1..6 /\ Calls[k] = Others[k - 2]
  /\ \A k \in 9..14 : k - 8 \in 1..6 /\ Calls[k] = Work[k - 8]
<1> DEFINE first == <<"main_cdc_acm", "main_shell_module">>
           Name == {"main_cdc_acm", "main_shell_module", "main_my_uart_peripheral",
                    "main_my_uart_peripheral_b", "main_mcp9808", "main_app",
                    "main_dhcpv4_client", "main_http_get", "init", "start", "items",
                    "w0", "w1", "w2"}
           start == first \o Others
<1>1. /\ first \in Seq(Name) /\ Len(first) = 2
      /\ first[1] = "main_cdc_acm" /\ first[2] = "main_shell_module"
  OBVIOUS
<1>2. Others \in Seq(Name) /\ Len(Others) = 6
  BY DEF Others
<1>3. Work \in Seq(Name) /\ Len(Work) = 6
  BY DEF Work
<1>4. Calls = start \o Work
  BY DEF Calls
<1> HIDE DEF first, Name
<1>5. /\ start \in Seq(Name) /\ Len(start) = 8
      /\ \A k \in 1..8 : start[k] = IF k <= 2 THEN first[k] ELSE Others[k - 2]
  <2>1. /\ start \in Seq(Name) /\ Len(start) = Len(first) + Len(Others)
        /\ \A k \in 1..Len(first) + Len(Others) :
             start[k] = IF k <= Len(first) THEN first[k] ELSE Others[k - Len(first)]
    <3>1. first \in Seq(Name) /\ Others \in Seq(Name)
      BY <1>1, <1>2
    <3>2. QED
      BY <3>1, ConcatElements
  <2>2. QED
    BY <1>1, <1>2, <2>1
<1> HIDE DEF start
<1>6. /\ Len(start \o Work) = 14
      /\ \A k \in 1..14 :
           (start \o Work)[k] = IF k <= 8 THEN start[k] ELSE Work[k - 8]
  <2>1. start \in Seq(Name) /\ Work \in Seq(Name)
    BY <1>3, <1>5
  <2>2. /\ Len(start \o Work) = Len(start) + Len(Work)
        /\ \A k \in 1..Len(start) + Len(Work) :
             (start \o Work)[k] = IF k <= Len(start) THEN start[k]
                                   ELSE Work[k - Len(start)]
    BY <2>1, ConcatElements
  <2>3. Len(start) = 8 /\ Len(Work) = 6 /\ 8 + 6 = 14
    BY <1>3, <1>5
  <2>4. QED
    BY <2>2, <2>3
<1>7. (start \o Work)[1] = "main_cdc_acm" /\ (start \o Work)[2] = "main_shell_module"
  <2>1. 1 \in 1..8 /\ 2 \in 1..8 /\ 1 \in 1..14 /\ 2 \in 1..14
    OBVIOUS
  <2>2. (start \o Work)[1] = start[1] /\ (start \o Work)[2] = start[2]
    BY <1>6, <2>1
  <2>3. start[1] = first[1] /\ start[2] = first[2]
    BY <1>5, <2>1
  <2>4. QED
    BY <1>1, <2>2, <2>3
<1>8. ASSUME NEW k \in 3..8
      PROVE  k - 2 \in 1..6 /\ (start \o Work)[k] = Others[k - 2]
  <2>1. k \in Int /\ 3 <= k /\ k <= 8
    OBVIOUS
  <2>2. k - 2 \in 1..6 /\ k \in 1..14 /\ k \in 1..8 /\ ~(k <= 2)
    BY <2>1
  <2>3. QED
    BY <1>5, <1>6, <2>1, <2>2
<1>9. ASSUME NEW k \in 9..14
      PROVE  k - 8 \in 1..6 /\ (start \o Work)[k] = Work[k - 8]
  <2>1. k \in Int /\ 9 <= k /\ k <= 14
    OBVIOUS
  <2>2. k - 8 \in 1..6 /\ k \in 1..14 /\ ~(k <= 8)
    BY <2>1
  <2>3. QED
    BY <1>6, <2>1, <2>2
<1>10. QED
  BY <1>4, <1>6, <1>7, <1>8, <1>9

\* Each call is made once only.
LEMMA CallsOnce ==
  ASSUME NEW k \in 1..14
  PROVE  /\ Calls[k] = "main_cdc_acm" => k = 1
         /\ Calls[k] = "init" => k = 9
         /\ Calls[k] = "w0" => k = 12
         /\ Calls[k] = "w1" => k = 13
         /\ Calls[k] = "w2" => k = 14
         /\ k < 12 => Calls[k] \notin Items
<1>1. CASE k = 1 \/ k = 2
  BY <1>1, CallsParts DEF Items
<1>2. CASE k \in 3..8
  <2>1. k - 2 \in {1, 2, 3, 4, 5, 6} /\ Calls[k] = Others[k - 2]
    BY <1>2, CallsParts
  <2>2. Calls[k] \notin {"main_cdc_acm", "init", "w0", "w1", "w2"}
    BY <2>1 DEF Others
  <2>3. QED
    BY <2>2 DEF Items
<1>3. CASE k \in 9..14
  <2>1. k - 8 \in 1..6 /\ Calls[k] = Work[k - 8]
    BY <1>3, CallsParts
  <2>2. PICK j \in {1, 2, 3, 4, 5, 6} : k = j + 8 /\ Calls[k] = Work[j]
    BY <2>1
  <2>3. QED
    BY <2>2 DEF Work, Items
<1>4. k = 1 \/ k = 2 \/ k \in 3..8 \/ k \in 9..14
  OBVIOUS
<1>5. QED
  BY <1>1, <1>2, <1>3, <1>4

LEMMA CallStep ==
  ASSUME TypeOK, NEW call, Does(call)
  PROVE  /\ main' = main + 1 /\ main' \in 1..14 /\ Calls[main'] = call
         /\ call = "main_cdc_acm" => main = 0
<1>1. main \in 0..13 /\ Calls[main + 1] = call /\ main' = main + 1
  BY CallsParts DEF Does, TypeOK
<1>2. main + 1 \in 1..14
  BY <1>1
<1>3. QED
  BY <1>1, <1>2, CallsOnce

-----------------------------------------------------------------------------
(* The two users of USB.                                                   *)

\* The inductive invariant of LoopbackNotLockedOut: nobody has enabled USB before
\* main_cdc_acm is called, because the shell's thread is not even started.
UsbInv ==
  /\ LoopbackNotLockedOut
  /\ main = 0 => ~usb /\ shell = "none"

LEMMA UsbInit ==
  ASSUME Init
  PROVE  UsbInv
<1>1. /\ main = 0 /\ loopback = "none" /\ shell = "none" /\ usb = FALSE /\ dtr = FALSE
      /\ parts = {} /\ my_work_q = <<>> /\ worker = "none" /\ ran = <<>>
      /\ usbWorks \in BOOLEAN
  BY DEF Init
<1>2. <<>> \in Seq(Items) /\ 0 \in 0..14 /\ {} \subseteq Range(Others)
  OBVIOUS
<1>3. TypeOK
  BY <1>1, <1>2 DEF TypeOK
<1>4. QED
  BY <1>1, <1>3 DEF UsbInv, LoopbackNotLockedOut

LEMMA UsbMain ==
  ASSUME UsbInv, Main
  PROVE  UsbInv'
<1>0. TypeOK /\ (loopback = "failed" => "loopback" \notin ready \/ ~usbWorks)
  BY DEF UsbInv, LoopbackNotLockedOut
<1>1. CASE main_cdc_acm
  <2>1. main = 0 /\ main' \in 1..14
    BY <1>0, <1>1, CallStep DEF main_cdc_acm
  <2>2. ~usb
    BY <2>1 DEF UsbInv
  <2>3. "error" \in usb_enable => ~usbWorks
    BY <2>2 DEF usb_enable
  <2>4. /\ loopback' \in {"failed", "polling"}
        /\ usb' \in BOOLEAN
        /\ loopback' = "failed" => "loopback" \notin ready \/ ~usbWorks
    BY <1>0, <1>1, <2>3 DEF main_cdc_acm, TypeOK
  <2>5. UNCHANGED <<shell, dtr, parts, my_work_q, worker, ran, ready, usbWorks>>
    BY <1>1 DEF main_cdc_acm, workVars
  <2>6. TypeOK'
    BY <1>0, <2>1, <2>4, <2>5 DEF TypeOK
  <2>7. QED
    BY <2>1, <2>4, <2>5, <2>6 DEF UsbInv, LoopbackNotLockedOut
<1>2. CASE main_shell_module
  <2>1. main' \in 1..14
    BY <1>0, <1>2, CallStep DEF main_shell_module
  <2>2. shell' = "start" /\ UNCHANGED <<loopback, usb, dtr, parts, workVars, ready, usbWorks>>
    BY <1>2 DEF main_shell_module
  <2>3. TypeOK'
    BY <1>0, <2>1, <2>2 DEF TypeOK, workVars
  <2>4. QED
    BY <1>0, <2>1, <2>2, <2>3 DEF UsbInv, LoopbackNotLockedOut
<1>3. CASE StartsPart
  <2>1. PICK i \in 1..Len(Others) : Does(Others[i]) /\ parts' = parts \cup {Others[i]}
    BY <1>3 DEF StartsPart
  <2>2. main' \in 1..14
    BY <1>0, <2>1, CallStep
  <2>3. UNCHANGED <<loopback, shell, usb, dtr, workVars, ready, usbWorks>>
    BY <1>3 DEF StartsPart
  <2>4. parts' \subseteq Range(Others)
    <3>1. i \in DOMAIN Others
      BY DEF Others
    <3>2. Others[i] \in Range(Others)
      BY <3>1 DEF Range
    <3>3. QED
      BY <1>0, <2>1, <3>2 DEF TypeOK
  <2>5. TypeOK'
    BY <1>0, <2>2, <2>3, <2>4 DEF TypeOK, workVars
  <2>6. QED
    BY <1>0, <2>2, <2>3, <2>5 DEF UsbInv, LoopbackNotLockedOut
<1>4. CASE k_work_queue_init \/ k_work_queue_start \/ k_work_init \/ k_work_submit_to_queue
  <2>1. \E call : Does(call)
    BY <1>4 DEF k_work_queue_init, k_work_queue_start, k_work_init, k_work_submit_to_queue
  <2>2. main' \in 1..14
    BY <1>0, <2>1, CallStep
  <2>3. UNCHANGED <<loopback, shell, usb, dtr, parts, ran, ready, usbWorks>>
    BY <1>4
    DEF k_work_queue_init, k_work_queue_start, k_work_init, k_work_submit_to_queue, workVars
  <2>4. my_work_q' \in Seq(Items) /\ worker' \in {"none", "idle", "busy"}
    <3>1. CASE k_work_queue_init
      BY <1>0, <3>1 DEF k_work_queue_init, TypeOK
    <3>2. CASE k_work_queue_start
      BY <1>0, <3>2 DEF k_work_queue_start, TypeOK
    <3>3. CASE k_work_init
      BY <1>0, <3>3 DEF k_work_init, TypeOK, workVars
    <3>4. CASE k_work_submit_to_queue
      BY <1>0, <3>4 DEF k_work_submit_to_queue, TypeOK
    <3>5. QED
      BY <1>4, <3>1, <3>2, <3>3, <3>4
  <2>5. TypeOK'
    BY <1>0, <2>2, <2>3, <2>4 DEF TypeOK
  <2>6. QED
    BY <1>0, <2>2, <2>3, <2>5 DEF UsbInv, LoopbackNotLockedOut
<1>5. QED
  BY <1>1, <1>2, <1>3, <1>4 DEF Main

LEMMA UsbOthers ==
  ASSUME UsbInv,
         thread_shell_module \/ HostOpensPort \/ work_handler \/ UNCHANGED bootVars
  PROVE  UsbInv'
<1>0. /\ TypeOK /\ (loopback = "failed" => "loopback" \notin ready \/ ~usbWorks)
      /\ main = 0 => ~usb /\ shell = "none"
  BY DEF UsbInv, LoopbackNotLockedOut
<1>1. CASE thread_shell_module
  <2>1. /\ shell # "none" /\ shell' \in {"wait", "ended"} /\ usb' \in BOOLEAN
        /\ UNCHANGED <<main, loopback, dtr, parts, workVars, ready, usbWorks>>
    BY <1>0, <1>1 DEF thread_shell_module, TypeOK
  <2>2. TypeOK'
    BY <1>0, <2>1 DEF TypeOK, workVars
  <2>3. QED
    BY <1>0, <2>1, <2>2 DEF UsbInv, LoopbackNotLockedOut
<1>2. CASE HostOpensPort
  <2>1. TypeOK'
    BY <1>0, <1>2 DEF HostOpensPort, TypeOK, workVars
  <2>2. QED
    BY <1>0, <1>2, <2>1 DEF HostOpensPort, UsbInv, LoopbackNotLockedOut
<1>3. CASE work_handler
  <2>1. /\ my_work_q' \in Seq(Items) /\ ran' \in Seq(Items)
        /\ worker' \in {"none", "idle", "busy"}
    <3>1. CASE /\ my_work_q # <<>> /\ worker' = "busy"
               /\ my_work_q' = Tail(my_work_q)
               /\ ran' = Append(ran, Head(my_work_q))
      <4>1. Head(my_work_q) \in Items /\ Tail(my_work_q) \in Seq(Items)
        BY <1>0, <3>1 DEF TypeOK
      <4>2. QED
        BY <1>0, <3>1, <4>1 DEF TypeOK
    <3>2. CASE worker' = "idle" /\ UNCHANGED <<my_work_q, ran>>
      BY <1>0, <3>2 DEF TypeOK
    <3>3. QED
      BY <1>3, <3>1, <3>2 DEF work_handler
  <2>2. UNCHANGED <<main, loopback, shell, usb, dtr, parts, ready, usbWorks>>
    BY <1>3 DEF work_handler
  <2>3. TypeOK'
    BY <1>0, <2>1, <2>2 DEF TypeOK
  <2>4. QED
    BY <1>0, <2>2, <2>3 DEF UsbInv, LoopbackNotLockedOut
<1>4. CASE UNCHANGED bootVars
  <2>1. TypeOK'
    BY <1>0, <1>4 DEF bootVars, TypeOK, workVars
  <2>2. QED
    BY <1>0, <1>4, <2>1 DEF bootVars, UsbInv, LoopbackNotLockedOut
<1>5. QED
  BY <1>1, <1>2, <1>3, <1>4

\* Whatever the hardware does and however late the shell's thread runs, the
\* loopback fails for a reason of its own only: the shell never enables USB first.
THEOREM LoopbackCorrect == Spec => []LoopbackNotLockedOut
<1>1. Init => UsbInv
  BY UsbInit
<1>2. UsbInv /\ [Next]_vars => UsbInv'
  BY UsbMain, UsbOthers DEF Next, AppStep, vars
<1>3. UsbInv => LoopbackNotLockedOut
  BY DEF UsbInv
<1>4. QED
  BY <1>1, <1>2, <1>3, PTL DEF Spec

-----------------------------------------------------------------------------
(* The work queue.                                                         *)

\* The items that main has submitted after n calls.
Submitted(n) ==
  IF n < 12 THEN <<>>
  ELSE IF n = 12 THEN <<"w0">>
  ELSE IF n = 13 THEN <<"w0", "w1">>
  ELSE <<"w0", "w1", "w2">>

\* The last three calls, and they only, submit an item, each one its own.
LEMMA CallsSubmit ==
  ASSUME NEW k \in 0..13
  PROVE  /\ Calls[k + 1] \notin Items => Submitted(k + 1) = Submitted(k)
         /\ Calls[k + 1] \in Items => Submitted(k + 1) = Append(Submitted(k), Calls[k + 1])
<1>1. CASE k < 11
  <2>1. k + 1 \in 1..14 /\ k + 1 < 12
    BY <1>1
  <2>2. Calls[k + 1] \notin Items /\ Submitted(k + 1) = <<>> /\ Submitted(k) = <<>>
    BY <2>1, CallsOnce DEF Submitted
  <2>3. QED
    BY <2>2
<1>2. CASE k >= 11
  <2>1. Calls[12] = Work[4] /\ Calls[13] = Work[5] /\ Calls[14] = Work[6]
    <3>1. 12 \in 9..14 /\ 13 \in 9..14 /\ 14 \in 9..14 /\ 12 - 8 = 4 /\ 13 - 8 = 5 /\ 14 - 8 = 6
      OBVIOUS
    <3>2. QED
      BY <3>1, CallsParts
  <2>2. Calls[12] = "w0" /\ Calls[13] = "w1" /\ Calls[14] = "w2"
    BY <2>1 DEF Work
  <2>3. /\ Submitted(11) = <<>> /\ Submitted(12) = <<"w0">>
        /\ Submitted(13) = <<"w0", "w1">> /\ Submitted(14) = <<"w0", "w1", "w2">>
    BY DEF Submitted
  <2>4. /\ <<"w0">> = Append(<<>>, "w0") /\ <<"w0", "w1">> = Append(<<"w0">>, "w1")
        /\ <<"w0", "w1", "w2">> = Append(<<"w0", "w1">>, "w2")
    OBVIOUS
  <2>5. CASE k = 11 /\ k + 1 = 12
    BY <2>2, <2>3, <2>4, <2>5 DEF Items
  <2>6. CASE k = 12 /\ k + 1 = 13
    BY <2>2, <2>3, <2>4, <2>6 DEF Items
  <2>7. CASE k = 13 /\ k + 1 = 14
    BY <2>2, <2>3, <2>4, <2>7 DEF Items
  <2>8. QED
    BY <1>2, <2>5, <2>6, <2>7
<1>3. QED
  BY <1>1, <1>2

\* The oldest item goes over from those that wait to those that ran.
LEMMA MoveHead ==
  ASSUME NEW S, NEW s \in Seq(S), NEW t \in Seq(S), t # <<>>
  PROVE  Append(s, Head(t)) \o Tail(t) = s \o t
<1>1. /\ 1 \in 0..Len(t) /\ SubSeq(t, 1 + 1, Len(t)) = Tail(t) /\ Head(t) \in S
      /\ s \o <<Head(t)>> = Append(s, Head(t))
  <2>1. Len(t) \in Nat \ {0} /\ Head(t) \in S
    OBVIOUS
  <2>2. 1 \in 0..Len(t)
    BY <2>1
  <2>3. s \o <<Head(t)>> = Append(s, Head(t))
    BY <2>1
  <2>4. SubSeq(t, 1 + 1, Len(t)) = Tail(t)
    BY <2>1
  <2>5. QED
    BY <2>1, <2>2, <2>3, <2>4
<1>2. SubSeq(t, 1, 1) = <<Head(t)>>
  <2> DEFINE p == SubSeq(t, 1, 1)
             q == <<Head(t)>>
  <2>1. Len(t) \in Nat /\ Len(t) >= 1 /\ t[1] = Head(t) /\ Head(t) \in S
    OBVIOUS
  <2>2. p \in Seq(S) /\ Len(p) = 1 /\ p[1] = Head(t)
    BY <2>1
  <2>3. q \in Seq(S) /\ Len(q) = 1 /\ q[1] = Head(t)
    BY <2>1
  <2> HIDE DEF p, q
  <2>4. \A i \in 1..1 : p[i] = q[i]
    BY <2>2, <2>3
  <2>5. p = q
    BY <2>2, <2>3, <2>4, SameElements
  <2>6. QED
    BY <2>5 DEF p, q
<1>3. (s \o SubSeq(t, 1, 1)) \o SubSeq(t, 1 + 1, Len(t)) = s \o t
  BY <1>1, MoveChunk
<1>4. QED
  BY <1>1, <1>2, <1>3

LEMMA ConcatAppend ==
  ASSUME NEW S, NEW s \in Seq(S), NEW t \in Seq(S), NEW e \in S
  PROVE  s \o Append(t, e) = Append(s \o t, e)
<1>1. <<e>> \in Seq(S) /\ s \o t \in Seq(S)
  OBVIOUS
<1>2. (s \o t) \o <<e>> = s \o (t \o <<e>>)
  BY <1>1, ConcatAssociative
<1>3. QED
  BY <1>1, <1>2

\* The inductive invariant of WorkInOrder: which items main has submitted follows
\* from how far it is.
WorkInv ==
  /\ UsbInv
  /\ ran \o my_work_q = Submitted(main)

LEMMA WorkMain ==
  ASSUME WorkInv, Main
  PROVE  ran' \o my_work_q' = Submitted(main')
<1>0. /\ TypeOK /\ main \in 0..14 /\ my_work_q \in Seq(Items) /\ ran \in Seq(Items)
      /\ ran \o my_work_q = Submitted(main)
  BY DEF WorkInv, UsbInv, LoopbackNotLockedOut, TypeOK
<1>1. ASSUME NEW call, Does(call)
      PROVE  /\ main \in 0..13 /\ main' = main + 1 /\ Calls[main + 1] = call
             /\ call \notin Items => Submitted(main') = Submitted(main)
             /\ call \in Items => Submitted(main') = Append(Submitted(main), call)
  <2>1. main \in 0..13 /\ main' = main + 1 /\ Calls[main + 1] = call
    BY <1>0, <1>1, CallsParts DEF Does
  <2>2. QED
    BY <2>1, CallsSubmit
\* The calls that leave the work queue as it is.
<1>2. ASSUME UNCHANGED <<my_work_q, ran>>, NEW call, Does(call), call \notin Items
      PROVE  ran' \o my_work_q' = Submitted(main')
  BY <1>0, <1>1, <1>2
<1>3. CASE main_cdc_acm \/ main_shell_module \/ k_work_queue_start \/ k_work_init
  <2>1. \E call : Does(call) /\ call \notin Items
    BY <1>3 DEF main_cdc_acm, main_shell_module, k_work_queue_start, k_work_init, Items
  <2>2. UNCHANGED <<my_work_q, ran>>
    BY <1>3
    DEF main_cdc_acm, main_shell_module, k_work_queue_start, k_work_init, workVars
  <2>3. QED
    BY <1>2, <2>1, <2>2
<1>4. CASE StartsPart
  <2>1. PICK i \in 1..Len(Others) : Does(Others[i])
    BY <1>4 DEF StartsPart
  <2>2. Others[i] \notin Items
    <3>1. i \in {1, 2, 3, 4, 5, 6}
      BY DEF Others
    <3>2. QED
      BY <3>1 DEF Others, Items
  <2>3. UNCHANGED <<my_work_q, ran>>
    BY <1>4 DEF StartsPart, workVars
  <2>4. QED
    BY <1>2, <2>1, <2>2, <2>3
<1>5. CASE k_work_queue_init
  <2>1. Does("init") /\ my_work_q' = <<>> /\ ran' = ran
    BY <1>5 DEF k_work_queue_init
  <2>2. /\ main \in 0..13 /\ main' = main + 1 /\ Calls[main + 1] = "init"
        /\ Submitted(main') = Submitted(main)
    BY <1>1, <2>1 DEF Items
  <2>3. main = 8
    <3>1. main + 1 \in 1..14
      BY <2>2
    <3>2. main + 1 = 9
      BY <2>2, <3>1, CallsOnce
    <3>3. QED
      BY <2>2, <3>2
  <2>4. Submitted(main) = <<>>
    BY <2>3 DEF Submitted
  <2>5. ran = <<>>
    BY <1>0, <2>4
  <2>6. QED
    BY <2>1, <2>2, <2>4, <2>5
<1>6. CASE k_work_submit_to_queue
  <2>1. PICK i \in Items : Does(i) /\ my_work_q' = Append(my_work_q, i)
    BY <1>6 DEF k_work_submit_to_queue
  <2>2. ran' = ran
    BY <1>6 DEF k_work_submit_to_queue
  <2>3. Submitted(main') = Append(Submitted(main), i)
    BY <1>1, <2>1
  <2>4. ran \o Append(my_work_q, i) = Append(ran \o my_work_q, i)
    BY <1>0, ConcatAppend
  <2>5. QED
    BY <1>0, <2>1, <2>2, <2>3, <2>4
<1>7. QED
  BY <1>3, <1>4, <1>5, <1>6 DEF Main

LEMMA WorkOthers ==
  ASSUME WorkInv,
         thread_shell_module \/ HostOpensPort \/ work_handler \/ UNCHANGED bootVars
  PROVE  ran' \o my_work_q' = Submitted(main')
<1>0. /\ my_work_q \in Seq(Items) /\ ran \in Seq(Items)
      /\ ran \o my_work_q = Submitted(main)
  BY DEF WorkInv, UsbInv, LoopbackNotLockedOut, TypeOK
<1>1. main' = main
  BY DEF thread_shell_module, HostOpensPort, work_handler, bootVars
<1>2. CASE UNCHANGED <<my_work_q, ran>>
  BY <1>0, <1>1, <1>2
<1>3. CASE /\ my_work_q # <<>> /\ my_work_q' = Tail(my_work_q)
           /\ ran' = Append(ran, Head(my_work_q))
  <2>1. Append(ran, Head(my_work_q)) \o Tail(my_work_q) = ran \o my_work_q
    BY <1>0, <1>3, MoveHead
  <2>2. QED
    BY <1>0, <1>1, <1>3, <2>1
<1>4. QED
  BY <1>2, <1>3
  DEF thread_shell_module, HostOpensPort, work_handler, bootVars, workVars

\* What the invariant says of the submitted items, call by call.
LEMMA SubmittedInOrder ==
  ASSUME NEW n \in 0..14
  PROVE  /\ IsPrefix(Submitted(n), <<"w0", "w1", "w2">>)
         /\ ToSet(Submitted(n)) = Items \cap {Calls[k] : k \in 1..n}
<1> DEFINE all == <<"w0", "w1", "w2">>
<1>1. /\ Calls[12] = "w0" /\ Calls[13] = "w1" /\ Calls[14] = "w2"
      /\ \A k \in 1..14 : k < 12 => Calls[k] \notin Items
  <2>1. Calls[12] = Work[4] /\ Calls[13] = Work[5] /\ Calls[14] = Work[6]
    <3>1. 12 \in 9..14 /\ 13 \in 9..14 /\ 14 \in 9..14 /\ 12 - 8 = 4 /\ 13 - 8 = 5 /\ 14 - 8 = 6
      OBVIOUS
    <3>2. QED
      BY <3>1, CallsParts
  <2>2. QED
    BY <2>1, CallsOnce DEF Work
<1>2. n < 12 \/ n = 12 \/ n = 13 \/ n = 14
  OBVIOUS
<1>3. IsPrefix(Submitted(n), all)
  <2>1. IsPrefix(<<>>, all) /\ IsPrefix(<<"w0">>, all) /\ IsPrefix(<<"w0", "w1">>, all)
        /\ IsPrefix(all, all)
    BY DEF IsPrefix
  <2>2. QED
    BY <1>2, <2>1 DEF Submitted
<1>4. Items \cap {Calls[k] : k \in 1..n} =
        {x \in Items : (x = "w0" /\ n >= 12) \/ (x = "w1" /\ n >= 13) \/ (x = "w2" /\ n >= 14)}
  <2>1. ASSUME NEW k \in 1..n, Calls[k] \in Items
        PROVE  (Calls[k] = "w0" /\ n >= 12) \/ (Calls[k] = "w1" /\ n >= 13)
                 \/ (Calls[k] = "w2" /\ n >= 14)
    <3>1. k \in 1..14
      OBVIOUS
    <3>2. k = 12 \/ k = 13 \/ k = 14
      BY <1>1, <2>1, <3>1
    <3>3. QED
      BY <1>1, <3>2
  <2>2. /\ n >= 12 => "w0" \in {Calls[k] : k \in 1..n}
        /\ n >= 13 => "w1" \in {Calls[k] : k \in 1..n}
        /\ n >= 14 => "w2" \in {Calls[k] : k \in 1..n}
    BY <1>1
  <2>3. QED
    BY <2>1, <2>2
<1>5. ToSet(Submitted(n)) =
        {x \in Items : (x = "w0" /\ n >= 12) \/ (x = "w1" /\ n >= 13) \/ (x = "w2" /\ n >= 14)}
  BY <1>2 DEF ToSet, Submitted, Items
<1>6. QED
  BY <1>3, <1>4, <1>5

\* However the work queue's thread comes in between main's calls, no item is
\* forgotten, run twice or run before an older one.
THEOREM WorkCorrect == Spec => []WorkInOrder
<1>1. Init => WorkInv
  <2> SUFFICES ASSUME Init PROVE WorkInv
    OBVIOUS
  <2>1. main = 0 /\ my_work_q = <<>> /\ ran = <<>>
    BY DEF Init
  <2>2. ran \o my_work_q = Submitted(main)
    BY <2>1 DEF Submitted
  <2>3. QED
    BY <2>2, UsbInit DEF WorkInv
<1>2. WorkInv /\ [Next]_vars => WorkInv'
  <2> SUFFICES ASSUME WorkInv, [Next]_vars PROVE WorkInv'
    OBVIOUS
  <2>1. UsbInv'
    BY UsbMain, UsbOthers DEF WorkInv, Next, AppStep, vars
  <2>2. ran' \o my_work_q' = Submitted(main')
    BY WorkMain, WorkOthers DEF Next, AppStep, vars
  <2>3. Submitted(main)' = Submitted(main')
    BY DEF Submitted
  <2>4. QED
    BY <2>1, <2>2, <2>3 DEF WorkInv
<1>3. WorkInv => WorkInOrder
  <2> SUFFICES ASSUME WorkInv PROVE WorkInOrder
    OBVIOUS
  <2>1. main \in 0..14 /\ ran \o my_work_q = Submitted(main)
    BY DEF WorkInv, UsbInv, LoopbackNotLockedOut, TypeOK
  <2>2. QED
    BY <2>1, SubmittedInOrder DEF WorkInOrder
<1>4. QED
  BY <1>1, <1>2, <1>3, PTL DEF Spec

-----------------------------------------------------------------------------
(* The messages of the application.                                        *)

\* An item that starts with the characters of its message, which a NUL follows
\* unless they fill it.
Sound ==
  {x \in App!Item :
     /\ \A i \in 0..x.chars - 1 : x.data[i] = x.line /\ x.line # 0
     /\ x.chars < MSG_BODY_SIZE => x.data[x.chars] = 0}

SoundPrinted ==
  {p \in App!Printed : p.text = [i \in 1..p.chars |-> p.line]}

\* The inductive invariant of AppFaithful.
AppInv ==
  /\ App!TypeOK
  /\ app_msgq \in Seq(Sound)
  /\ rx_buf \in Sound
  /\ printed \in Seq(SoundPrinted)

\* A sound item is printed as its message.
LEMMA CharsSound ==
  ASSUME NEW x \in Sound
  PROVE  App!Chars(x.data) = [i \in 1..x.chars |-> x.line]
<1> DEFINE Ends(k) == /\ k = MSG_BODY_SIZE \/ x.data[k] = 0
                      /\ \A i \in 0..k - 1 : x.data[i] # 0
           len == CHOOSE k \in 0..MSG_BODY_SIZE : Ends(k)
<1>1. /\ x.chars \in 0..MSG_BODY_SIZE
      /\ \A i \in 0..x.chars - 1 : x.data[i] = x.line /\ x.line # 0
      /\ x.chars < MSG_BODY_SIZE => x.data[x.chars] = 0
  BY DEF Sound, App!Item
<1>2. Ends(x.chars)
  BY <1>1, SizesAssumption
<1>3. len \in 0..MSG_BODY_SIZE /\ Ends(len)
  BY <1>1, <1>2
<1>4. App!Chars(x.data) = [i \in 1..len |-> x.data[i - 1]]
  BY DEF App!Chars
<1> HIDE DEF len
<1>5. len = x.chars
  <2>1. ~(len < x.chars)
    <3> SUFFICES ASSUME len < x.chars
                 PROVE  FALSE
      OBVIOUS
    <3>1. len \in 0..x.chars - 1 /\ len # MSG_BODY_SIZE
      BY <1>1, <1>3, SizesAssumption
    <3>2. QED
      BY <1>1, <1>3, <3>1
  <2>2. ~(x.chars < len)
    <3> SUFFICES ASSUME x.chars < len
                 PROVE  FALSE
      OBVIOUS
    <3>1. x.chars \in 0..len - 1 /\ x.chars < MSG_BODY_SIZE
      BY <1>1, <1>3, SizesAssumption
    <3>2. QED
      BY <1>1, <1>3, <3>1
  <2>3. QED
    BY <1>1, <1>3, <2>1, <2>2, SizesAssumption
<1>6. \A i \in 1..x.chars : x.data[i - 1] = x.line
  <2> SUFFICES ASSUME NEW i \in 1..x.chars
               PROVE  x.data[i - 1] = x.line
    OBVIOUS
  <2>1. i - 1 \in 0..x.chars - 1
    BY <1>1, SizesAssumption
  <2>2. QED
    BY <1>1, <2>1
<1>7. QED
  BY <1>4, <1>5, <1>6

\* send_app builds a sound item.
LEMMA ItemSound ==
  ASSUME App!TypeOK, offered < MaxMessages,
         NEW size \in 0..MSG_BODY_SIZE, NEW z \in 0..MSG_BODY_SIZE
  PROVE  App!item(size, z) \in Sound /\ App!item(size, z).line = offered + 1
<1> USE SizesAssumption
<1> DEFINE x == App!item(size, z)
<1>1. offered \in Nat /\ offered + 1 \in 1..MaxMessages
  BY DEF App!TypeOK
<1>2. App!Index \cup 0..size - 1 = App!Index
  BY DEF App!Index
<1>3. /\ x.line = offered + 1 /\ x.chars = (IF z < size THEN z ELSE size)
      /\ x.size = size
      /\ x.data = [i \in App!Index |->
                      IF i >= size THEN 0 ELSE IF i = z THEN 0 ELSE offered + 1]
  BY <1>2 DEF App!item, App!Fill
<1>4. x.data \in [App!Index -> App!Byte]
  <2>1. 0 \in App!Byte /\ offered + 1 \in App!Byte
    BY <1>1 DEF App!Byte
  <2>2. QED
    BY <1>3, <2>1
<1>5. x.chars \in 0..MSG_BODY_SIZE /\ x.chars <= size /\ x.chars <= z
  BY <1>3
<1>6. x \in App!Item
  <2>1. x = [line |-> x.line, chars |-> x.chars, size |-> x.size, data |-> x.data]
    BY DEF App!item
  <2>2. x.line \in 0..MaxMessages /\ x.size \in 0..MSG_BODY_SIZE
    BY <1>1, <1>3
  <2> HIDE DEF x
  <2>3. QED
    BY <1>4, <1>5, <2>1, <2>2 DEF App!Item
<1>7. x.line # 0
  BY <1>1, <1>3
<1> HIDE DEF x
<1>8. ASSUME NEW i \in 0..x.chars - 1
      PROVE  x.data[i] = x.line
  <2>1. i \in App!Index /\ ~(i >= size) /\ i # z
    BY <1>3, <1>5 DEF App!Index
  <2>2. QED
    BY <1>3, <2>1
<1>9. x.chars < MSG_BODY_SIZE => x.data[x.chars] = 0
  <2> SUFFICES ASSUME x.chars < MSG_BODY_SIZE
               PROVE  x.data[x.chars] = 0
    OBVIOUS
  <2>1. x.chars \in App!Index /\ (x.chars >= size \/ x.chars = z)
    BY <1>3, <1>5 DEF App!Index
  <2>2. QED
    BY <1>3, <2>1
<1>10. x \in Sound
  BY <1>6, <1>7, <1>8, <1>9 DEF Sound
<1>11. QED
  BY <1>3, <1>10 DEF x

\* The three steps of the queue.
LEMMA AppSend ==
  ASSUME AppInv,
         NEW size \in 0..MSG_BODY_SIZE + 1, NEW z \in 0..MSG_BODY_SIZE,
         App!send_app(size, z)
  PROVE  AppInv'
<1>1. /\ offered < MaxMessages /\ offered' = offered + 1
      /\ UNCHANGED <<thread, rx_buf, printed>>
      /\ app_msgq' = IF App!TooLong(size) THEN app_msgq
                     ELSE App!k_msgq_put(app_msgq, App!item(size, z))
  BY DEF App!send_app
<1>2. /\ App!TypeOK /\ app_msgq \in Seq(Sound) /\ Len(app_msgq) <= QUEUE_LEN
      /\ rx_buf \in Sound /\ printed \in Seq(SoundPrinted)
  BY DEF AppInv, App!TypeOK
<1>3. offered' \in 0..MaxMessages
  BY <1>1, <1>2, SizesAssumption DEF App!TypeOK
<1>4. app_msgq' \in Seq(Sound) /\ Len(app_msgq') <= QUEUE_LEN
  <2>1. CASE App!TooLong(size)
    BY <1>1, <1>2, <2>1
  <2>2. CASE ~App!TooLong(size)
    <3> DEFINE x == App!item(size, z)
    <3>1. size \in 0..MSG_BODY_SIZE
      BY <2>2, SizesAssumption DEF App!TooLong
    <3>2. x \in Sound
      BY <1>1, <1>2, <3>1, ItemSound
    <3> HIDE DEF x
    <3>3. app_msgq' = App!k_msgq_put(app_msgq, x)
      BY <1>1, <2>2 DEF x
    <3>4. QED
      BY <1>2, <3>2, <3>3, SizesAssumption DEF App!k_msgq_put
  <2>3. QED
    BY <2>1, <2>2
<1>5. app_msgq' \in Seq(App!Item)
  <2>1. Sound \subseteq App!Item
    BY DEF Sound
  <2>2. \A i \in 1..Len(app_msgq') : app_msgq'[i] \in Sound
    BY <1>4
  <2>3. QED
    BY <1>4, <2>1, <2>2
<1>6. App!TypeOK'
  BY <1>1, <1>2, <1>3, <1>4, <1>5 DEF App!TypeOK
<1>7. QED
  BY <1>1, <1>2, <1>4, <1>6 DEF AppInv

LEMMA AppGet ==
  ASSUME AppInv, App!k_msgq_get
  PROVE  AppInv'
<1>1. /\ App!TypeOK /\ app_msgq \in Seq(Sound) /\ app_msgq # <<>>
      /\ app_msgq \in Seq(App!Item) /\ Len(app_msgq) <= QUEUE_LEN
      /\ printed \in Seq(SoundPrinted)
      /\ rx_buf' = Head(app_msgq) /\ app_msgq' = Tail(app_msgq)
      /\ thread' = "recv" /\ UNCHANGED <<offered, printed>>
  BY DEF AppInv, App!TypeOK, App!k_msgq_get
<1>2. /\ rx_buf' \in Sound /\ app_msgq' \in Seq(Sound)
      /\ rx_buf' \in App!Item /\ app_msgq' \in Seq(App!Item)
      /\ Len(app_msgq') <= QUEUE_LEN
  BY <1>1, SizesAssumption
<1>3. App!TypeOK'
  BY <1>1, <1>2 DEF App!TypeOK
<1>4. QED
  BY <1>1, <1>2, <1>3 DEF AppInv

LEMMA AppPrint ==
  ASSUME AppInv, App!recv_app
  PROVE  /\ AppInv'
         /\ \E p \in SoundPrinted :
              p.line = rx_buf.line /\ printed' = Append(printed, p)
<1> DEFINE p == [line |-> rx_buf.line, chars |-> rx_buf.chars,
                 text |-> App!Chars(rx_buf.data)]
<1>1. /\ App!TypeOK /\ rx_buf \in Sound /\ rx_buf \in App!Item
      /\ app_msgq \in Seq(Sound)
      /\ printed \in Seq(SoundPrinted) /\ printed \in Seq(App!Printed)
      /\ printed' = Append(printed, p) /\ thread' = "wait"
      /\ UNCHANGED <<app_msgq, rx_buf, offered>>
  BY DEF AppInv, App!TypeOK, App!recv_app, App!AfterRecv
<1>2. p.text = [i \in 1..p.chars |-> p.line]
  BY <1>1, CharsSound
<1>3. /\ p.line = rx_buf.line /\ p.line \in 0..MaxMessages
      /\ p.chars \in 0..MSG_BODY_SIZE
  BY <1>1 DEF App!Item
<1>4. p.text \in Seq(App!Byte)
  <2>1. p.text \in [1..p.chars -> App!Byte] /\ p.chars \in Nat
    BY <1>2, <1>3, SizesAssumption DEF App!Byte
  <2> HIDE DEF p
  <2>2. QED
    BY <2>1
<1>5. p \in App!Printed
  BY <1>3, <1>4 DEF App!Printed
<1> HIDE DEF p
<1>6. p \in SoundPrinted
  BY <1>2, <1>5 DEF SoundPrinted
<1>7. printed' \in Seq(SoundPrinted) /\ printed' \in Seq(App!Printed)
  BY <1>1, <1>5, <1>6
<1>8. App!TypeOK'
  BY <1>1, <1>7 DEF App!TypeOK
<1>9. QED
  BY <1>1, <1>3, <1>6, <1>7, <1>8 DEF AppInv

LEMMA AppInit == Init => AppInv
<1> USE SizesAssumption
<1> SUFFICES ASSUME Init PROVE AppInv
  OBVIOUS
<1> DEFINE none == [line |-> 0, chars |-> 0, size |-> 0, data |-> [i \in App!Index |-> 0]]
<1>1. /\ thread = "wait" /\ app_msgq = <<>> /\ rx_buf = none
      /\ offered = 0 /\ printed = <<>>
  BY DEF Init, App!Init
<1>2. none \in App!Item
  <2>1. [i \in App!Index |-> 0] \in [App!Index -> App!Byte]
    BY DEF App!Byte
  <2>2. QED
    BY <2>1 DEF App!Item
<1>3. none \in Sound
  <2>1. 0 < MSG_BODY_SIZE /\ 0 \in App!Index
    BY DEF App!Index
  <2>2. none.chars = 0 /\ none.data[0] = 0
    BY <2>1
  <2> HIDE DEF none
  <2>3. QED
    BY <1>2, <2>2 DEF Sound
<1>4. /\ <<>> \in Seq(Sound) /\ <<>> \in Seq(App!Item) /\ Len(<<>>) = 0
      /\ <<>> \in Seq(SoundPrinted) /\ <<>> \in Seq(App!Printed)
  OBVIOUS
<1>5. App!TypeOK
  BY <1>1, <1>2, <1>4 DEF App!TypeOK
<1>6. QED
  BY <1>1, <1>3, <1>4, <1>5 DEF AppInv

\* Only the queue's own steps change its variables.
LEMMA AppSteps == [Next]_vars => [App!Next]_appVars
BY DEF Next, Main, main_cdc_acm, main_shell_module, StartsPart, k_work_queue_init,
       k_work_queue_start, k_work_init, k_work_submit_to_queue, thread_shell_module,
       HostOpensPort, work_handler, AppStep, vars

LEMMA AppInvariant == Spec => []AppInv
<1>1. AppInv /\ [Next]_vars => AppInv'
  <2> SUFFICES ASSUME AppInv, [App!Next]_appVars
               PROVE  AppInv'
    BY AppSteps
  <2>1. CASE App!Next
    BY <2>1, AppSend, AppGet, AppPrint DEF App!Next, App!thread_app
  <2>2. CASE UNCHANGED appVars
    BY <2>2 DEF appVars, AppInv, App!TypeOK
  <2>3. QED
    BY <2>1, <2>2
<1>2. QED
  BY <1>1, AppInit, PTL DEF Spec

\* For items of any size: what is printed for a message is its characters up to
\* the first NUL, whatever was sent before it and whatever was dropped.
THEOREM AppFaithfulCorrect == Spec => []AppFaithful
<1>1. AppInv => AppFaithful
  BY DEF AppInv, SoundPrinted, AppFaithful, App!AppFaithful
<1>2. QED
  BY <1>1, AppInvariant, PTL

-----------------------------------------------------------------------------
(* The message queue implements a lossy FIFO of messages.                  *)

\* One step offers a message, delivers one, or does neither.
LEMMA AppFifoStep ==
  ASSUME AppInv, [App!Next]_appVars
  PROVE  [App!AppFifo!Next]_App!AppFifo!vars
<1> DEFINE held == App!InHand \o app_msgq
           queue == Lines(held)
           delivered == Lines(printed)
<1>1. /\ App!TypeOK /\ app_msgq \in Seq(App!Item) /\ rx_buf \in App!Item
      /\ offered \in Nat /\ printed \in Seq(SoundPrinted)
  BY SizesAssumption DEF AppInv, App!TypeOK
<1>2. App!InHand \in Seq(App!Item) /\ held \in Seq(App!Item)
  <2>1. App!InHand = <<>> \/ App!InHand = <<rx_buf>>
    BY DEF App!InHand
  <2>2. <<>> \in Seq(App!Item) /\ <<rx_buf>> \in Seq(App!Item)
    BY <1>1
  <2>3. App!InHand \in Seq(App!Item)
    BY <2>1, <2>2
  <2>4. QED
    BY <1>1, <2>3
<1>3. CASE UNCHANGED <<offered, held, printed>>
  BY <1>3 DEF App!AppFifo!vars
<1>4. ASSUME NEW size \in 0..MSG_BODY_SIZE + 1, NEW z \in 0..MSG_BODY_SIZE,
             App!send_app(size, z)
      PROVE  App!AppFifo!Offer
  <2> DEFINE x == App!item(size, z)
  <2>1. /\ offered < MaxMessages /\ offered' = offered + 1
        /\ UNCHANGED <<thread, rx_buf, printed>>
        /\ \/ app_msgq' = app_msgq
           \/ app_msgq' = Append(app_msgq, x) /\ ~App!TooLong(size)
    BY <1>4 DEF App!send_app, App!k_msgq_put
  <2>2. ~App!TooLong(size) => x \in App!Item /\ x.line = offered + 1
    <3> SUFFICES ASSUME ~App!TooLong(size)
                 PROVE  x \in App!Item /\ x.line = offered + 1
      OBVIOUS
    <3>1. size \in 0..MSG_BODY_SIZE
      BY SizesAssumption DEF App!TooLong
    <3>2. x \in Sound /\ x.line = offered + 1
      BY <1>1, <2>1, <3>1, ItemSound
    <3> HIDE DEF x
    <3>3. QED
      BY <3>2 DEF Sound
  <2> HIDE DEF x
  <2>3. App!InHand' = App!InHand
    BY <2>1 DEF App!InHand
  <2>4. \/ held' = held
        \/ held' = Append(held, x) /\ x \in App!Item /\ x.line = offered + 1
    <3>1. CASE app_msgq' = app_msgq
      BY <2>3, <3>1
    <3>2. CASE app_msgq' = Append(app_msgq, x) /\ ~App!TooLong(size)
      <4>1. x \in App!Item /\ x.line = offered + 1
        BY <2>2, <3>2
      <4>2. App!InHand \o Append(app_msgq, x) = Append(held, x)
        BY <1>1, <1>2, <4>1
      <4>3. QED
        BY <2>3, <3>2, <4>1, <4>2
    <3>3. QED
      BY <2>1, <3>1, <3>2
  <2> HIDE DEF held
  <2>5. queue' \in {queue, Append(queue, offered + 1)}
    BY <1>2, <2>4, Lines_Append
  <2>6. QED
    BY <2>1, <2>5 DEF App!AppFifo!Offer, Lines, held
<1>5. CASE App!k_msgq_get
  <2>1. /\ app_msgq # <<>> /\ App!InHand = <<>>
        /\ App!InHand' = <<Head(app_msgq)>> /\ app_msgq' = Tail(app_msgq)
        /\ UNCHANGED <<offered, printed>>
    BY <1>5 DEF App!k_msgq_get, App!InHand
  <2>2. <<Head(app_msgq)>> \o Tail(app_msgq) = <<>> \o app_msgq
    BY <1>1, <2>1
  <2>3. QED
    BY <1>3, <2>1, <2>2
<1>6. CASE App!recv_app
  <2>1. PICK p \in SoundPrinted :
          p.line = rx_buf.line /\ printed' = Append(printed, p)
    BY <1>6, AppPrint
  <2>2. /\ App!InHand = <<rx_buf>> /\ App!InHand' = <<>>
        /\ UNCHANGED <<offered, app_msgq>>
    BY <1>6 DEF App!recv_app, App!AfterRecv, App!InHand
  <2>3. held = <<rx_buf>> \o app_msgq /\ held' = app_msgq
    BY <1>1, <2>2
  <2> HIDE DEF held
  <2>4. queue # <<>> /\ Head(queue) = rx_buf.line /\ queue' = Tail(queue)
    BY <1>1, <2>3, Lines_Cons
  <2>5. delivered' = Append(delivered, Head(queue))
    BY <1>1, <2>1, <2>4, Lines_Append
  <2>6. App!AppFifo!Deliver
    BY <2>2, <2>4, <2>5 DEF App!AppFifo!Deliver, Lines, held
  <2>7. QED
    BY <2>6 DEF App!AppFifo!Next
<1>7. CASE UNCHANGED appVars
  <2>1. UNCHANGED <<thread, offered, app_msgq, rx_buf, printed>>
    BY <1>7 DEF appVars
  <2>2. QED
    BY <1>3, <2>1 DEF App!InHand
<1>8. QED
  BY <1>4, <1>5, <1>6, <1>7 DEF App!Next, App!thread_app, App!AppFifo!Next

\* Every message is dropped at once or printed, at most once and in the order in
\* which the messages were sent, also those sent before main_app.
THEOREM AppFifoCorrect == Spec => AppFifoSpec
<1>1. Init => App!AppFifo!Init
  BY DEF Init, App!Init, App!AppFifo!Init, App!InHand
<1>2. AppInv /\ [Next]_vars => [App!AppFifo!Next]_App!AppFifo!vars
  BY AppFifoStep, AppSteps
<1>3. QED
  BY <1>1, <1>2, AppInvariant, PTL
  DEF Spec, AppFifoSpec, App!AppFifoSpec, App!AppFifo!Spec

\* So no message is printed twice, before an older one, or without having been sent.
THEOREM AppInOrder == Spec => []App!AppFifo!InOrder
<1> DEFINE queue == Lines(App!InHand \o app_msgq)
           delivered == Lines(printed)
           Order == Ordered(offered, queue, delivered)
<1>1. App!AppFifo!Init => Order
  BY DEF App!AppFifo!Init, Ordered, Lines
<1>2. Order /\ [App!AppFifo!Next]_App!AppFifo!vars => Order'
  <2> SUFFICES ASSUME Order, [App!AppFifo!Next]_App!AppFifo!vars
               PROVE  Order'
    OBVIOUS
  <2>1. CASE App!AppFifo!Offer
    <3>1. /\ offered' = offered + 1 /\ delivered' = delivered
          /\ queue' \in {queue, Append(queue, offered + 1)}
      BY <2>1 DEF App!AppFifo!Offer, Lines
    <3> HIDE DEF queue, delivered
    <3>2. Ordered(offered + 1, queue', delivered)
      BY <3>1, Ordered_Offer
    <3>3. QED
      BY <3>1, <3>2
  <2>2. CASE App!AppFifo!Deliver
    <3>1. /\ offered' = offered /\ queue # <<>> /\ queue' = Tail(queue)
          /\ delivered' = Append(delivered, Head(queue))
      BY <2>2 DEF App!AppFifo!Deliver, Lines
    <3> HIDE DEF queue, delivered
    <3>2. Ordered(offered, Tail(queue), Append(delivered, Head(queue)))
      BY <3>1, Ordered_Deliver
    <3>3. QED
      BY <3>1, <3>2
  <2>3. CASE UNCHANGED App!AppFifo!vars
    <3>1. offered' = offered /\ queue' = queue /\ delivered' = delivered
      BY <2>3 DEF App!AppFifo!vars, Lines
    <3> HIDE DEF queue, delivered
    <3>2. QED
      BY <3>1
  <2>4. QED
    BY <2>1, <2>2, <2>3 DEF App!AppFifo!Next
<1>3. Order => App!AppFifo!InOrder
  BY DEF Ordered, App!AppFifo!InOrder, App!AppFifo!Increasing, Lines
<1>4. QED
  BY <1>1, <1>2, <1>3, AppFifoCorrect, PTL DEF AppFifoSpec, App!AppFifoSpec, App!AppFifo!Spec

-----------------------------------------------------------------------------
(* The temperature sensor, whose thread main_mcp9808 starts: its           *)
(* conversions.                                                            *)

\* Quotients and remainders by the powers of two of the conversions.
LEMMA Divide16 ==
  ASSUME NEW a \in Nat
  PROVE  \E q \in Nat, m \in Nat :
           m < 16 /\ a = 16 * q + m /\ a \div 16 = q /\ a % 16 = m
OBVIOUS

LEMMA Divide256 ==
  ASSUME NEW a \in Nat
  PROVE  \E q \in Nat, m \in Nat :
           m < 256 /\ a = 256 * q + m /\ a \div 256 = q /\ a % 256 = m
OBVIOUS

LEMMA Divide8192 ==
  ASSUME NEW a \in Nat
  PROVE  \E q \in Nat, m \in Nat :
           m < 8192 /\ a = 8192 * q + m /\ a \div 8192 = q /\ a % 8192 = m
OBVIOUS

LEMMA DivMod256 ==
  ASSUME NEW q \in Nat, NEW m \in Nat, m < 256
  PROVE  (m + 256 * q) \div 256 = q /\ (m + 256 * q) % 256 = m
OBVIOUS

LEMMA Swapped ==
  ASSUME NEW r \in Nat, r < 65536
  PROVE  Raw(r) \in Nat /\ Raw(r) < 65536 /\ sys_be16_to_cpu(Raw(r)) = r
<1>1. PICK h \in Nat, l \in Nat :
        l < 256 /\ r = 256 * h + l /\ r \div 256 = h /\ r % 256 = l
  BY Divide256
<1>2. h < 256
  BY <1>1
<1>3. Raw(r) = h + 256 * l
  BY <1>1 DEF Raw
<1>4. (h + 256 * l) \div 256 = l /\ (h + 256 * l) % 256 = h
  BY <1>2, DivMod256
<1>5. sys_be16_to_cpu(Raw(r)) = l
          + 256 * h
  BY <1>3, <1>4 DEF sys_be16_to_cpu
<1>6. QED
  BY <1>1, <1>2, <1>3, <1>5

\* The 13 bits of a register, as a number in two's complement.
Signed(x) == IF x < 4096 THEN x ELSE x - 8192

LEMMA Decoded ==
  ASSUME NEW r \in Nat, r < 65536
  PROVE  /\ r % 8192 \in Nat /\ r % 8192 < 8192
         /\ temp_signed_from_reg(r) = Signed(r % 8192)
         /\ temp_reg_from_signed(Signed(r % 8192)) = r % 8192
<1>1. PICK b \in Nat, x \in Nat :
        x < 8192 /\ r = 8192 * b + x /\ r \div 8192 = b /\ r % 8192 = x
  BY Divide8192
<1>2. CASE x < 4096
  <2>1. r \div 4096 = 2 * b /\ r % 4096 = x
    BY <1>1, <1>2
  <2>0. (2 * b) % 2 = 0
    BY <1>1
  <2>2. temp_signed_from_reg(r) = x
    BY <2>1, <2>0 DEF temp_signed_from_reg, SIGN_BIT
  <2>3. x % 4096 = x
    BY <1>2
  <2>4. QED
    BY <1>1, <1>2, <2>2, <2>3 DEF temp_reg_from_signed, SIGN_BIT, Signed
<1>3. CASE x >= 4096
  <2>1. r \div 4096 = 2 * b + 1 /\ r % 4096 = x - 4096
    BY <1>1, <1>3
  <2>0. (2 * b + 1) % 2 = 1
    BY <1>1
  <2>2. temp_signed_from_reg(r) = x - 8192
    BY <1>1, <2>1, <2>0 DEF temp_signed_from_reg, SIGN_BIT
  <2>3. (x - 8192) % 4096 = x - 4096
    BY <1>1, <1>3
  <2>4. QED
    BY <1>1, <1>3, <2>2, <2>3 DEF temp_reg_from_signed, SIGN_BIT, Signed
<1>4. QED
  BY <1>1, <1>2, <1>3

\* A number of sixteenths, split exactly into whole and millionths.
LEMMA Sixteenths ==
  ASSUME NEW m \in Nat, m < 16
  PROVE  (m * 1000000) \div 16 = m * 62500
OBVIOUS

LEMMA ZeroQuotient == Quotient(0, 16) = 0
<1>1. 0 \div 16 = 0
  OBVIOUS
<1>2. QED
  BY <1>1 DEF Quotient

LEMMA Exact ==
  ASSUME NEW t \in Int, -4096 <= t, t <= 4095
  PROVE  LET val1 == Quotient(t, 16)
             val2 == Quotient((t - val1 * 16) * 1000000, 16)
         IN /\ val1 \in Int /\ -256 <= val1 /\ val1 <= 255
            /\ val2 \in Int /\ -999999 <= val2 /\ val2 <= 999999
            /\ val1 * 1000000 + val2 = 62500 * t
            /\ \/ val1 >= 0 /\ val2 >= 0
               \/ val1 <= 0 /\ val2 <= 0
<1> DEFINE val1 == Quotient(t, 16)
           val2 == Quotient((t - val1 * 16) * 1000000, 16)
           Good(v, w) == /\ v \in Int /\ -256 <= v /\ v <= 255
                         /\ w \in Int /\ -999999 <= w /\ w <= 999999
                         /\ v * 1000000 + w = 62500 * t
                         /\ \/ v >= 0 /\ w >= 0
                            \/ v <= 0 /\ w <= 0
<1>2. ASSUME t >= 0
      PROVE  Good(val1, val2)
  <2>1. PICK q \in Nat, m \in Nat : m < 16 /\ t = 16 * q + m /\ t \div 16 = q
    BY <1>2, Divide16
  <2>2. val1 = q
    BY <1>2, <2>1 DEF Quotient
  <2>3. (t - q * 16) * 1000000 = m * 1000000 /\ m * 1000000 >= 0
    BY <2>1
  <2>4. val2 = m * 62500
    <3>1. Quotient((t - q * 16) * 1000000, 16) = m * 62500
      BY <2>1, <2>3, Sixteenths DEF Quotient
    <3>2. QED
      BY <2>2, <3>1
  <2>5. Good(q, m * 62500)
    BY <2>1
  <2> HIDE DEF val1, val2, Good
  <2>6. QED
    BY <2>2, <2>4, <2>5
<1>3. ASSUME t < 0
      PROVE  Good(val1, val2)
  <2>0. PICK a \in Nat : t = -a /\ -t = a
    BY <1>3
  <2>1. PICK q \in Nat, m \in Nat : m < 16 /\ a = 16 * q + m /\ a \div 16 = q
    BY Divide16
  <2>2. val1 = -q
    BY <1>3, <2>0, <2>1 DEF Quotient
  <2>3. CASE m > 0
    <3> DEFINE n == (t - (-q) * 16) * 1000000
    <3>1. /\ n \in Int /\ ~(n >= 0) /\ -n = m * 1000000
      BY <2>0, <2>1, <2>3
    <3> HIDE DEF n
    <3>2. Quotient(n, 16) = -(m * 62500)
      BY <2>1, <3>1, Sixteenths DEF Quotient
    <3>3. val2 = -(m * 62500)
      BY <2>2, <3>2 DEF n
    <3>4. Good(-q, -(m * 62500))
      BY <2>0, <2>1
    <3> HIDE DEF val1, val2, Good
    <3>5. QED
      BY <2>2, <3>3, <3>4
  <2>4. CASE m = 0
    <3>1. (t - (-q) * 16) * 1000000 = 0
      BY <2>0, <2>1, <2>4
    <3>2. val2 = 0
      BY <2>2, <3>1, ZeroQuotient
    <3>3. Good(-q, 0)
      BY <2>0, <2>1, <2>4
    <3> HIDE DEF val1, val2, Good
    <3>4. QED
      BY <2>2, <3>2, <3>3
  <2>5. QED
    BY <2>1, <2>3, <2>4
<1>4. Good(val1, val2)
  BY <1>2, <1>3
<1>5. QED
  BY <1>4

-----------------------------------------------------------------------------
(* Its samples.                                                            *)

\* What is printed of a register.
LEMMA SampleOf ==
  ASSUME NEW r \in Nat, r < 65536
  PROVE  LET s == channel_get(r)
         IN /\ s \in [val1 : Int, val2 : Int]
            /\ -256 <= s.val1 /\ s.val1 <= 255
            /\ -1000000 < s.val2 /\ s.val2 < 1000000
            /\ s.val1 * 1000000 + s.val2 = Microcelsius(r)
            /\ (s.val1 >= 0 /\ s.val2 >= 0) \/ (s.val1 <= 0 /\ s.val2 <= 0)
            /\ temp_reg_from_signed(temp_signed_from_reg(r)) = r % 8192
<1> DEFINE t == Signed(r % 8192)
           v == Quotient(t, 16)
           w == Quotient((t - v * 16) * 1000000, 16)
<1>1. /\ r % 8192 \in Nat /\ r % 8192 < 8192
      /\ temp_signed_from_reg(r) = t
      /\ temp_reg_from_signed(t) = r % 8192
  BY Decoded
<1>2. t \in Int /\ -4096 <= t /\ t <= 4095
  BY <1>1 DEF Signed
<1>3. Microcelsius(r) = 62500 * t
  BY <1>1 DEF Microcelsius, Signed
<1>4. channel_get(r) = [val1 |-> v, val2 |-> w]
  BY <1>1 DEF channel_get, SCALE
<1> HIDE DEF t
<1>5. /\ v \in Int /\ -256 <= v /\ v <= 255
      /\ w \in Int /\ -999999 <= w /\ w <= 999999
      /\ v * 1000000 + w = 62500 * t
      /\ \/ v >= 0 /\ w >= 0
         \/ v <= 0 /\ w <= 0
  BY <1>2, Exact
<1> HIDE DEF v, w
<1> DEFINE s == channel_get(r)
<1>6. s \in [val1 : Int, val2 : Int] /\ s.val1 = v /\ s.val2 = w
  BY <1>4, <1>5
<1> HIDE DEF s
<1>7. /\ -256 <= s.val1 /\ s.val1 <= 255
      /\ -1000000 < s.val2 /\ s.val2 < 1000000
      /\ s.val1 * 1000000 + s.val2 = 62500 * t
      /\ (s.val1 >= 0 /\ s.val2 >= 0) \/ (s.val1 <= 0 /\ s.val2 <= 0)
  BY <1>5, <1>6
<1>8. QED
  BY <1>1, <1>3, <1>6, <1>7 DEF s

\* The time before it, up to 1193 hours, fits its buffer.
LEMMA StampOf ==
  ASSUME NEW n \in Nat, n <= 4294967
  PROVE  LET s == now_str(n)
         IN Digits(s[1]) + 1 + Padded(s[2]) + 1 + Padded(s[3])
              + 1 + 3 + 1 <= 16
<1> DEFINE s == now_str(n)
<1>1. s[1] = n \div 3600 /\ s[2] = (n \div 60) % 60 /\ s[3] = n % 60
  BY DEF now_str
<1>2. s[1] \in Nat /\ s[1] <= 1193
  <2>1. n \div 3600 \in Nat /\ n \div 3600 <= 1193
    OBVIOUS
  <2>2. QED
    BY <1>1, <2>1
<1>3. s[2] \in Nat /\ s[2] < 60 /\ s[3] \in Nat /\ s[3] < 60
  <2>1. (n \div 60) % 60 \in Nat /\ (n \div 60) % 60 < 60 /\ n % 60 \in Nat /\ n % 60 < 60
    OBVIOUS
  <2>2. QED
    BY <1>1, <2>1
<1> HIDE DEF s
<1>4. Digits(s[1]) \in 1..4
  BY <1>2 DEF Digits
<1>5. Padded(s[2]) = 2 /\ Padded(s[3]) = 2
  BY <1>3 DEF Padded, Digits
<1>6. Digits(s[1]) + 1 + Padded(s[2]) + 1 + Padded(s[3])
        + 1 + 3 + 1 <= 16
  BY <1>4, <1>5
<1>7. QED
  BY <1>6 DEF s

\* The inductive invariant of SampleExact: the thread runs only with a device
\* that was initialised, reg_val is the register as this turn's fetch found it,
\* and temp is its conversion.
SampleInv ==
  /\ SampleExact
  /\ dev = "none" => sampler = "start"
  /\ sampler \in {"fetch", "get", "print", "sleep"} => dev = "ready"
  /\ dev = "ready" => sensorRes = RESOLUTION
  /\ sampler \in {"get", "print", "sleep"} => wire \in Register /\ reg_val = wire
  /\ sampler \in {"print", "sleep"} => temp = channel_get(wire)

LEMMA RegisterValue ==
  ASSUME NEW r \in Register
  PROVE  r \in Nat /\ r < 65536 /\ r # -1
BY RegisterAssumption

LEMMA SampleStep ==
  ASSUME SampleInv, [SensorNext]_sensorVars
  PROVE  SampleInv'
<1>0. /\ RESOLUTION \in 0..3 /\ SensorTypeOK /\ StampFits
      /\ \A r \in Register : r \in Nat /\ r < 65536 /\ r # -1
  BY RegisterValue, ResolutionAssumption DEF SampleInv, SampleExact
<1>1. CASE my_i2c_mcp9808_init
  <2>1. /\ dev = "none" /\ sampler = "start" /\ sampler' = "start"
        /\ dev' \in {"ready", "failed"} /\ sensorRes' \in 0..3
        /\ dev' = "ready" => sensorRes' = RESOLUTION
        /\ UNCHANGED <<reg_val, temp, sensor, wire, stamp>>
    BY <1>0, <1>1 DEF my_i2c_mcp9808_init, set_temperature_resolution,
      SampleInv, SensorTypeOK
  <2>2. SensorTypeOK' /\ StampFits'
    BY <1>0, <2>1 DEF SensorTypeOK, StampFits
  <2>3. QED
    BY <2>1, <2>2 DEF SampleInv, SampleExact
<1>2. CASE Start
  <2>1. /\ sampler = "start" /\ dev # "none"
        /\ sampler' = IF dev = "ready" THEN "fetch" ELSE "ended"
        /\ UNCHANGED <<dev, reg_val, temp, sensor, sensorRes, wire, stamp>>
    BY <1>2 DEF Start
  <2>2. SensorTypeOK' /\ StampFits'
    BY <1>0, <2>1 DEF SensorTypeOK, StampFits
  <2>3. QED
    BY <2>1, <2>2 DEF SampleInv, SampleExact
<1>3. CASE sample_fetch
  <2>1. /\ sampler = "fetch" /\ sampler' = "get" /\ sensor \in Register
        /\ wire' = sensor
        /\ reg_val' = sys_be16_to_cpu(Raw(sensor))
        /\ UNCHANGED <<dev, temp, sensor, sensorRes, stamp>>
    BY <1>0, <1>3 DEF sample_fetch, SensorTypeOK
  <2>2. reg_val' = sensor /\ reg_val' \in Nat /\ reg_val' < 65536
    <3>1. sys_be16_to_cpu(Raw(sensor)) = sensor
      BY <1>0, <2>1, Swapped
    <3>2. QED
      BY <1>0, <2>1, <3>1
  <2>3. SensorTypeOK' /\ StampFits'
    BY <1>0, <2>1, <2>2 DEF SensorTypeOK, StampFits
  <2>4. QED
    BY <2>1, <2>2, <2>3 DEF SampleInv, SampleExact
<1>4. CASE sample_fetch_error
  <2>1. /\ sampler = "fetch" /\ sampler' = "ended" /\ sensor \in Register
        /\ reg_val' \in {reg_val, Raw(sensor)}
        /\ UNCHANGED <<dev, temp, sensor, sensorRes, wire, stamp>>
    BY <1>0, <1>4 DEF sample_fetch_error, SensorTypeOK
  <2>2. reg_val' \in Nat /\ reg_val' < 65536
    <3>1. Raw(sensor) \in Nat /\ Raw(sensor) < 65536
      BY <1>0, <2>1, Swapped
    <3>2. QED
      BY <1>0, <2>1, <3>1 DEF SensorTypeOK
  <2>3. SensorTypeOK' /\ StampFits'
    BY <1>0, <2>1, <2>2 DEF SensorTypeOK, StampFits
  <2>4. QED
    BY <2>1, <2>3 DEF SampleInv, SampleExact
<1>5. CASE Get
  <2>1. /\ sampler = "get" /\ sampler' = "print"
        /\ temp' = channel_get(reg_val)
        /\ UNCHANGED <<dev, reg_val, sensor, sensorRes, wire, stamp>>
    BY <1>5 DEF Get
  <2>2. /\ wire \in Register /\ reg_val = wire /\ dev = "ready" /\ sensorRes = RESOLUTION
    BY <2>1 DEF SampleInv
  <2>3. /\ temp' \in [val1 : Int, val2 : Int]
        /\ -256 <= temp'.val1 /\ temp'.val1 <= 255
        /\ -1000000 < temp'.val2 /\ temp'.val2 < 1000000
        /\ temp'.val1 * 1000000 + temp'.val2 = Microcelsius(wire)
        /\ (temp'.val1 >= 0 /\ temp'.val2 >= 0) \/ (temp'.val1 <= 0 /\ temp'.val2 <= 0)
        /\ temp_reg_from_signed(temp_signed_from_reg(wire)) = wire % 8192
    BY <1>0, <2>1, <2>2, SampleOf
  <2>4. SensorTypeOK' /\ StampFits'
    BY <1>0, <2>1, <2>3 DEF SensorTypeOK, StampFits
  <2>5. Microcelsius(wire)' = Microcelsius(wire)
    BY <2>1 DEF Microcelsius
  <2>6. /\ wire' # -1 /\ sensorRes' = RESOLUTION
        /\ temp'.val1 * 1000000 + temp'.val2 = Microcelsius(wire')
        /\ (temp'.val1 >= 0 /\ temp'.val2 >= 0) \/ (temp'.val1 <= 0 /\ temp'.val2 <= 0)
        /\ temp_reg_from_signed(temp_signed_from_reg(reg_val')) = reg_val' % 8192
    BY <1>0, <2>1, <2>2, <2>3
  <2>7. SampleExact'
    BY <2>4, <2>6 DEF SampleExact
  <2>8. QED
    BY <2>1, <2>2, <2>7 DEF SampleInv
<1>6. CASE PrintSample
  <2>1. PICK now \in Uptime : /\ sampler = "print" /\ sampler' = "sleep"
                              /\ stamp' = now_str(now)
                              /\ UNCHANGED <<dev, reg_val, temp, sensor, sensorRes, wire>>
    BY <1>6 DEF PrintSample
  <2>2. StampFits'
    <3>1. now \in Nat /\ now <= 4294967
      BY UptimeAssumption
    <3>2. QED
      BY <2>1, <3>1, StampOf DEF StampFits
  <2>3. SensorTypeOK'
    BY <1>0, <2>1 DEF SensorTypeOK
  <2>4. QED
    BY <2>1, <2>2, <2>3 DEF SampleInv, SampleExact
<1>7. CASE Sleep
  <2>1. /\ sampler = "sleep" /\ sampler' = "fetch" /\ wire' = -1 /\ stamp' = <<>>
        /\ sensor' \in Register
        /\ UNCHANGED <<dev, reg_val, temp, sensorRes>>
    BY <1>7 DEF Sleep
  <2>2. SensorTypeOK' /\ StampFits'
    BY <1>0, <2>1 DEF SensorTypeOK, StampFits
  <2>3. QED
    BY <2>1, <2>2 DEF SampleInv, SampleExact
<1>8. CASE UNCHANGED sensorVars
  BY <1>8 DEF sensorVars, SampleInv, SampleExact, SensorTypeOK, StampFits
<1>9. QED
  BY <1>1, <1>2, <1>3, <1>4, <1>5, <1>6, <1>7, <1>8 DEF SensorNext

LEMMA SampleInit ==
  ASSUME SensorInit
  PROVE  SampleInv
<1>1. /\ dev = "none" /\ sampler = "start" /\ reg_val = 0
      /\ temp = [val1 |-> 0, val2 |-> 0] /\ sensor \in Register /\ sensorRes = 3
      /\ wire = -1 /\ stamp = <<>>
  BY DEF SensorInit
<1>2. /\ temp \in [val1 : Int, val2 : Int]
      /\ -256 <= temp.val1 /\ temp.val1 <= 255
      /\ -1000000 < temp.val2 /\ temp.val2 < 1000000
  BY <1>1
<1>3. QED
  BY <1>1, <1>2 DEF SampleInv, SampleExact, SensorTypeOK, StampFits

\* For any register value and uptime: what is printed is the value of the
\* register as this turn's fetch found it, exactly, and its time fits the buffer.
THEOREM SampleCorrect == SensorSpec => []SampleExact
<1>1. SensorInit => SampleInv
  BY SampleInit
<1>2. SampleInv /\ [SensorNext]_sensorVars => SampleInv'
  BY SampleStep
<1>3. SampleInv => SampleExact
  BY DEF SampleInv
<1>4. QED
  BY <1>1, <1>2, <1>3, PTL DEF SensorSpec
=============================================================================
