------------------------------ MODULE HttpProofs ------------------------------
(***************************************************************************)
(* Theorems about the HTTP server, for pages and requests of any size, and *)
(* about the HTTP client on its network, for pages and buffers of any size.*)
(***************************************************************************)
EXTENDS HttpServer, Network, CommonLemmas, TLAPS

-----------------------------------------------------------------------------
(* The page.                                                               *)

\* The first k bytes of content, as their positions.
Upto(k) == [i \in 1..k |-> i]

LEMMA Upto_Type ==
  ASSUME NEW k \in Nat, NEW n \in Nat, k <= n
  PROVE  Upto(k) \in Seq(1..n) /\ Len(Upto(k)) = k
BY DEF Upto

\* The next n bytes, after the first k.
LEMMA Upto_Extend ==
  ASSUME NEW k \in Nat, NEW n \in Nat
  PROVE  Upto(k) \o [i \in 1..n |-> k + i] = Upto(k + n)
<1> DEFINE p == Upto(k)
           q == [i \in 1..n |-> k + i]
<1>1. p \in Seq(Nat) /\ Len(p) = k /\ \A i \in 1..k : p[i] = i
  BY DEF Upto
<1>2. q \in Seq(Nat) /\ Len(q) = n /\ \A i \in 1..n : q[i] = k + i
  OBVIOUS
<1> HIDE DEF p, q
<1>3. p \in Seq(Nat) /\ q \in Seq(Nat)
  BY <1>1, <1>2
<1>4. /\ p \o q \in Seq(Nat) /\ Len(p \o q) = Len(p) + Len(q)
      /\ \A i \in 1..Len(p) + Len(q) :
           (p \o q)[i] = IF i <= Len(p) THEN p[i] ELSE q[i - Len(p)]
  BY <1>3, ConcatElements
<1>5. ASSUME NEW i \in 1..k + n
      PROVE  (p \o q)[i] = i
  <2>1. CASE i <= k
    BY <2>1, <1>1, <1>2, <1>4
  <2>2. CASE ~(i <= k)
    <3>1. (p \o q)[i] = q[i - k]
      BY <2>2, <1>1, <1>2, <1>4
    <3>2. i - k \in 1..n
      BY <2>2
    <3>3. q[i - k] = k + (i - k)
      BY <3>2, <1>2
    <3>4. QED
      BY <3>1, <3>3
  <2>3. QED
    BY <2>1, <2>2
<1>6. Len(p \o q) = k + n
  BY <1>1, <1>2, <1>4
<1>7. p \o q = Upto(k + n)
  <2> DEFINE v == p \o q
  <2>1. v \in Seq(Nat) /\ Len(v) = k + n /\ \A i \in 1..k + n : v[i] = i
    BY <1>4, <1>5, <1>6
  <2> HIDE DEF v
  <2>2. v = [i \in 1..k + n |-> v[i]]
    BY <2>1
  <2>3. v = [i \in 1..k + n |-> i]
    BY <2>1, <2>2
  <2>4. QED
    BY <2>3 DEF v, Upto
<1>8. QED
  BY <1>7 DEF p, q

\* req_state counts one more, or starts again.
LEMMA NextState_Range ==
  ASSUME NEW s \in 0..3, NEW c
  PROVE  NextState(s, c) \in {0, s + 1}
BY DEF NextState

-----------------------------------------------------------------------------
(* Type correctness, and the page.                                         *)

\* How far the page has come, at each control point.  That data and len stay
\* within content, and the page with them, follows only from their sum, so that
\* the two are proved together.
Progress ==
  /\ page = Upto(Len(page))
  /\ server = "recv" => page = <<>>
  /\ server = "send" => Len(page) = data /\ data + len = CONTENT
  /\ server = "close" /\ Len(page) \notin {0, CONTENT} => client = "reset"

PageInv == TypeOK /\ Progress

LEMMA PageStep ==
  ASSUME PageInv, [Next]_vars
  PROVE  PageInv'
<1> USE SizesAssumption
<1>0. TypeOK /\ Progress
  BY DEF PageInv
<1>1. CASE SetupFails \/ Listen
  BY <1>0, <1>1 DEF SetupFails, Listen, PageInv, TypeOK, Progress, loopVars
<1>2. CASE Accept
  <2>1. page' = Upto(Len(page')) /\ page' \in Seq(1..CONTENT) /\ page' = <<>>
    BY <1>2 DEF Accept, Upto
  <2>2. handled' \in 0..connected'
    BY <1>0, <1>2 DEF Accept, TypeOK
  <2>3. server' \in {"recv", "accept"} /\ client' \in {"none", "open", "shut", "reset"}
    BY <1>0, <1>2 DEF Accept, TypeOK
  <2>4. TypeOK'
    BY <1>0, <1>2, <2>1, <2>2, <2>3 DEF Accept, TypeOK
  <2>5. Progress'
    BY <2>1, <2>3 DEF Progress
  <2>6. QED
    BY <2>4, <2>5 DEF PageInv
<1>3. CASE Recv
  <2>1. /\ server = "recv" /\ inbox # <<>> /\ inbox' = Tail(inbox)
        /\ request' = Append(request, Head(inbox))
        /\ UNCHANGED <<client, connected, handled, page>>
    BY <1>3 DEF Recv
  <2>2. inbox' \in Seq(Byte) /\ request' \in Seq(Byte)
    BY <1>0, <2>1 DEF TypeOK
  <2>3. page = <<>> /\ Len(page) = 0
    BY <1>0, <2>1 DEF Progress
  <2>4. CASE NextState(req_state, Head(inbox)) = 4
    <3>1. /\ server' = "send" /\ data' = 0 /\ len' = CONTENT
          /\ UNCHANGED req_state
      BY <1>3, <2>4 DEF Recv, ContentLength
    <3>2. TypeOK'
      BY <1>0, <2>1, <2>2, <3>1 DEF TypeOK
    <3>3. Progress'
      BY <1>0, <2>1, <2>3, <3>1 DEF Progress
    <3>4. QED
      BY <3>2, <3>3 DEF PageInv
  <2>5. CASE NextState(req_state, Head(inbox)) # 4
    <3>1. /\ req_state' = NextState(req_state, Head(inbox))
          /\ UNCHANGED <<server, data, len>>
      BY <1>3, <2>5 DEF Recv
    <3>2. req_state' \in 0..3
      <4>1. req_state \in 0..3
        BY <1>0 DEF TypeOK
      <4>2. NextState(req_state, Head(inbox)) \in {0, req_state + 1}
        BY <4>1, NextState_Range
      <4>3. QED
        BY <4>1, <4>2, <2>5, <3>1
    <3>3. TypeOK'
      BY <1>0, <2>1, <2>2, <3>1, <3>2 DEF TypeOK
    <3>4. Progress'
      BY <1>0, <2>1, <2>3, <3>1 DEF Progress
    <3>5. QED
      BY <3>3, <3>4 DEF PageInv
  <2>6. QED
    BY <2>4, <2>5
<1>4. CASE RecvEnds
  BY <1>0, <1>4 DEF RecvEnds, PageInv, TypeOK, Progress, loopVars
<1>5. CASE Send
  <2>1. PICK n \in 1..len :
          /\ Advance(n)
          /\ page' = page \o [i \in 1..n |-> data + i]
    BY <1>5 DEF Send
  <2>2. /\ server = "send" /\ data \in Nat /\ len \in Nat /\ n \in Nat /\ n <= len
        /\ Len(page) = data /\ data + len = CONTENT
    BY <1>0, <1>5, <2>1 DEF Send, TypeOK, Progress
  <2>3. data' = data + n /\ len' = len - n
    BY <2>1 DEF Advance
  <2>4. page' = Upto(data + n)
    <3>1. page = Upto(data)
      BY <1>0, <2>2 DEF Progress
    <3>2. Upto(data) \o [i \in 1..n |-> data + i] = Upto(data + n)
      BY <2>2, Upto_Extend
    <3>3. QED
      BY <2>1, <3>1, <3>2
  <2>5. data + n \in Nat /\ data + n <= CONTENT
    BY <2>2
  <2>6. page' \in Seq(1..CONTENT) /\ Len(page') = data'
    BY <2>3, <2>4, <2>5, Upto_Type
  <2>7. data' \in 0..CONTENT /\ len' \in 0..CONTENT /\ data' + len' = CONTENT
    BY <2>2, <2>3, <2>5
  <2>8. TypeOK'
    BY <1>0, <1>5, <2>6, <2>7 DEF Send, TypeOK
  <2>9. Progress'
    BY <1>5, <2>2, <2>3, <2>4, <2>6, <2>7 DEF Send, Progress
  <2>10. QED
    BY <2>8, <2>9 DEF PageInv
<1>6. CASE SendEnds
  <2>1. TypeOK'
    BY <1>0, <1>6 DEF SendEnds, TypeOK, loopVars
  <2>2. Len(page) = CONTENT \/ client = "reset"
    BY <1>0, <1>6 DEF SendEnds, TypeOK, Progress
  <2>3. Progress'
    BY <1>0, <1>6, <2>2 DEF SendEnds, Progress, loopVars
  <2>4. QED
    BY <2>1, <2>3 DEF PageInv
<1>7. CASE Close
  BY <1>0, <1>7 DEF Close, PageInv, TypeOK, Progress, loopVars
<1>8. CASE Connects
  <2>1. TypeOK'
    BY <1>0, <1>8 DEF Connects, TypeOK, loopVars
  <2>2. QED
    BY <1>0, <1>8, <2>1 DEF Connects, PageInv, Progress, loopVars
<1>9. CASE Requests
  <2>1. inbox' \in Seq(Byte)
    BY <1>0, <1>9 DEF Requests, TypeOK
  <2>2. TypeOK'
    BY <1>0, <1>9, <2>1 DEF Requests, TypeOK, loopVars
  <2>3. QED
    BY <1>0, <1>9, <2>2 DEF Requests, PageInv, Progress, loopVars
<1>10. CASE Leaves
  BY <1>0, <1>10 DEF Leaves, PageInv, TypeOK, Progress, loopVars
<1>11. CASE UNCHANGED vars
  BY <1>0, <1>11 DEF vars, PageInv, TypeOK, Progress, loopVars
<1>12. QED
  BY <1>1, <1>2, <1>3, <1>4, <1>5, <1>6, <1>7, <1>8, <1>9, <1>10, <1>11
  DEF Next, thread_socket_dumb_http

LEMMA PageInvCorrect == Spec => []PageInv
<1>1. Init => PageInv
  BY SizesAssumption DEF Init, PageInv, TypeOK, Progress, Upto
<1>2. PageInv /\ [Next]_vars => PageInv'
  BY PageStep
<1>3. QED
  BY <1>1, <1>2, PTL DEF Spec

\* For every page, every way send cuts it, and every moment at which the client
\* leaves: the client gets content from its first byte on, nothing past its end,
\* and all of it unless it broke the connection.
THEOREM PageCorrect == Spec => []PageExact
<1>1. PageInv => PageExact
  BY DEF PageInv, Progress, Upto, PageExact
<1>2. QED
  BY <1>1, PageInvCorrect, PTL

-----------------------------------------------------------------------------
(* The end of the request.                                                 *)

\* The parts of END.
LEMMA End ==
  /\ END[1] = "cr" /\ END[2] = "lf" /\ END[3] = "cr" /\ END[4] = "lf"
BY DEF END

\* One byte more: what is matched then was matched, less one, before.
LEMMA MatchedAppend ==
  ASSUME NEW s \in Seq(Byte), NEW c \in Byte, NEW n \in 0..3
  PROVE  Matched(Append(s, c), n + 1) <=> Matched(s, n) /\ c = END[n + 1]
<1> DEFINE t == Append(s, c)
<1>1. /\ Len(s) \in Nat /\ Len(t) = Len(s) + 1
      /\ \A i \in 1..Len(s) : t[i] = s[i]
      /\ t[Len(s) + 1] = c
  OBVIOUS
<1> HIDE DEF t
<1>2. Len(t) - (n + 1) = Len(s) - n
  BY <1>1
<1>3. n <= Len(s) => \A i \in 1..n : t[Len(s) - n + i] = s[Len(s) - n + i]
  <2> SUFFICES ASSUME n <= Len(s), NEW i \in 1..n
               PROVE  t[Len(s) - n + i] = s[Len(s) - n + i]
    OBVIOUS
  <2>1. Len(s) - n + i \in 1..Len(s)
    BY <1>1
  <2>2. QED
    BY <1>1, <2>1
<1>4. ASSUME Matched(t, n + 1)
      PROVE  Matched(s, n) /\ c = END[n + 1]
  <2>1. n <= Len(s)
    BY <1>1, <1>4 DEF Matched
  <2>2. \A i \in 1..n + 1 : t[Len(s) - n + i] = END[i]
    BY <1>2, <1>4 DEF Matched
  <2>3. t[Len(s) - n + (n + 1)] = END[n + 1]
    BY <2>2
  <2>4. Len(s) - n + (n + 1) = Len(s) + 1
    BY <1>1
  <2>5. Matched(s, n)
    <3>1. ASSUME NEW i \in 1..n
          PROVE  s[Len(s) - n + i] = END[i]
      <4>1. i \in 1..n + 1
        OBVIOUS
      <4>2. t[Len(s) - n + i] = END[i]
        BY <2>2, <4>1
      <4>3. QED
        BY <1>3, <2>1, <4>2
    <3>2. QED
      BY <2>1, <3>1 DEF Matched
  <2>6. QED
    BY <1>1, <2>3, <2>4, <2>5
<1>5. ASSUME Matched(s, n), c = END[n + 1]
      PROVE  Matched(t, n + 1)
  <2>1. n <= Len(s) /\ \A i \in 1..n : s[Len(s) - n + i] = END[i]
    BY <1>5 DEF Matched
  <2>2. n + 1 <= Len(t)
    BY <1>1, <2>1
  <2>3. ASSUME NEW i \in 1..n + 1
        PROVE  t[Len(s) - n + i] = END[i]
    <3>1. CASE i = n + 1
      <4>1. Len(s) - n + i = Len(s) + 1
        BY <1>1, <3>1
      <4>2. QED
        BY <1>1, <1>5, <3>1, <4>1
    <3>2. CASE i \in 1..n
      BY <1>3, <2>1, <3>2
    <3>3. QED
      BY <3>1, <3>2
  <2>4. QED
    BY <1>2, <2>2, <2>3 DEF Matched
<1>6. QED
  BY <1>4, <1>5 DEF t

\* Nothing is always matched; more than nothing has its last byte last.
LEMMA MatchedLast ==
  ASSUME NEW s \in Seq(Byte)
  PROVE  /\ Matched(s, 0)
         /\ \A n \in 1..4 : Matched(s, n) => Len(s) >= 1 /\ s[Len(s)] = END[n]
<1>1. Len(s) \in Nat
  OBVIOUS
<1>2. Matched(s, 0)
  BY <1>1 DEF Matched
<1>3. ASSUME NEW n \in 1..4, Matched(s, n)
      PROVE  Len(s) >= 1 /\ s[Len(s)] = END[n]
  <2>1. n <= Len(s) /\ s[Len(s) - n + n] = END[n]
    BY <1>3 DEF Matched
  <2>2. Len(s) - n + n = Len(s)
    BY <1>1
  <2>3. QED
    BY <1>1, <2>1, <2>2
<1>4. QED
  BY <1>2, <1>3

\* A CR after a CR is still there, or just arrived.
LEMMA NoCrCrAppend ==
  ASSUME NEW s \in Seq(Byte), NEW c \in Byte, NoCrCr(Append(s, c))
  PROVE  /\ NoCrCr(s)
         /\ Len(s) >= 1 => ~(s[Len(s)] = "cr" /\ c = "cr")
<1> DEFINE t == Append(s, c)
<1>1. /\ Len(s) \in Nat /\ Len(t) = Len(s) + 1
      /\ \A i \in 1..Len(s) : t[i] = s[i]
      /\ t[Len(s) + 1] = c
  OBVIOUS
<1>2. \A i \in 1..Len(t) - 1 : ~(t[i] = "cr" /\ t[i + 1] = "cr")
  BY DEF NoCrCr
<1> HIDE DEF t
<1>3. Len(t) - 1 = Len(s)
  BY <1>1
<1>4. ASSUME NEW i \in 1..Len(s) - 1
      PROVE  ~(s[i] = "cr" /\ s[i + 1] = "cr")
  <2>1. i \in 1..Len(s) /\ i + 1 \in 1..Len(s)
    BY <1>1
  <2>2. QED
    BY <1>1, <1>2, <1>3, <2>1
<1>5. Len(s) >= 1 => ~(s[Len(s)] = "cr" /\ c = "cr")
  <2> SUFFICES ASSUME Len(s) >= 1
               PROVE  ~(s[Len(s)] = "cr" /\ c = "cr")
    OBVIOUS
  <2>1. Len(s) \in 1..Len(s)
    BY <1>1
  <2>2. QED
    BY <1>1, <1>2, <1>3, <2>1
<1>6. QED
  BY <1>4, <1>5 DEF NoCrCr

\* The chain of ifs keeps the longest match: the bytes before the one that broke
\* the match can begin another only after CR CR.
LEMMA NextState_Longest ==
  ASSUME NEW s \in Seq(Byte), NEW c \in Byte, NEW r \in 0..3,
         Matched(s, r)
  PROVE  /\ Matched(Append(s, c), NextState(r, c))
         /\ NoCrCr(Append(s, c)) /\ (\A n \in r + 1..4 : ~Matched(s, n)) =>
              \A n \in NextState(r, c) + 1..4 : ~Matched(Append(s, c), n)
<1> DEFINE t == Append(s, c)
<1>1. t \in Seq(Byte)
  OBVIOUS
<1>2. /\ \A n \in 0..3 : Matched(t, n + 1) <=> Matched(s, n) /\ c = END[n + 1]
      /\ Matched(t, 0)
  BY <1>1, MatchedAppend, MatchedLast
<1>3. NoCrCr(t) => ~(Len(s) >= 1 /\ s[Len(s)] = "cr" /\ c = "cr")
  BY NoCrCrAppend
<1> HIDE DEF t
<1>4. Matched(t, NextState(r, c))
  BY <1>2 DEF NextState
<1>5. ASSUME NoCrCr(t), \A n \in r + 1..4 : ~Matched(s, n),
             NEW n \in NextState(r, c) + 1..4, Matched(t, n)
      PROVE  FALSE
  <2> DEFINE m == n - 1
  <2>1. n \in 1..4 /\ m \in 0..3 /\ n = m + 1
    BY NextState_Range
  <2> HIDE DEF m
  <2>2. Matched(s, m) /\ c = END[m + 1]
    BY <1>2, <1>5, <2>1
  <2>3. m <= r
    <3>1. ~(m \in r + 1..4)
      BY <1>5, <2>2
    <3>2. QED
      BY <2>1, <3>1
  <2>4. CASE c = END[r + 1]
    <3>1. n \in r + 2..4
      BY <2>4 DEF NextState
    <3>2. QED
      BY <2>1, <2>3, <3>1
  <2>5. CASE c # END[r + 1]
    <3>1. m < r
      BY <2>1, <2>2, <2>3, <2>5
    <3>2. Len(s) >= 1 /\ s[Len(s)] = END[r]
      <4>1. r \in 1..4
        BY <2>1, <3>1
      <4>2. QED
        BY <4>1, MatchedLast
    <3>3. m \in 1..4 => s[Len(s)] = END[m]
      BY <2>2, MatchedLast
    <3>4. \/ m = 0 /\ r \in {1, 2, 3}
          \/ m = 1 /\ r \in {2, 3}
          \/ m = 2 /\ r = 3
      BY <2>1, <3>1
    <3>5. CASE m = 0 /\ (r = 1 \/ r = 3)
      BY <1>3, <1>5, <2>2, <3>2, <3>5, End
    <3>6. CASE m = 0 /\ r = 2
      BY <2>2, <2>5, <3>6, End
    <3>7. CASE m = 1 /\ r = 2
      BY <3>2, <3>3, <3>7, End
    <3>8. CASE m = 1 /\ r = 3
      BY <2>2, <2>5, <3>8, End
    <3>9. CASE m = 2 /\ r = 3
      BY <3>2, <3>3, <3>9, End
    <3>10. QED
      BY <3>4, <3>5, <3>6, <3>7, <3>8, <3>9
  <2>6. QED
    BY <2>4, <2>5
<1>6. QED
  BY <1>4, <1>5 DEF t

LEMMA MatchesStep ==
  ASSUME TypeOK, MatchesReference, [Next]_vars
  PROVE  MatchesReference'
<1>1. CASE Accept
  <2>1. request' = <<>> /\ req_state' = 0 /\ server' # "send"
    BY <1>1 DEF Accept
  <2>2. /\ Matched(<<>>, 0)
        /\ \A n \in 1..4 : ~Matched(<<>>, n)
    BY DEF Matched
  <2>3. QED
    BY <2>1, <2>2 DEF MatchesReference
<1>2. CASE Recv
  <2> DEFINE c == Head(inbox)
  <2>1. /\ server = "recv" /\ c \in Byte /\ request \in Seq(Byte) /\ req_state \in 0..3
        /\ request' = Append(request, c)
    BY <1>2 DEF Recv, TypeOK
  <2>2. Matched(request, req_state)
    BY <2>1 DEF MatchesReference
  <2>3. NoCrCr(Append(request, c)) => \A n \in req_state + 1..4 : ~Matched(request, n)
    BY <2>1, NoCrCrAppend DEF MatchesReference
  <2>4. /\ Matched(request', NextState(req_state, c))
        /\ NoCrCr(request') =>
             \A n \in NextState(req_state, c) + 1..4 : ~Matched(request', n)
    BY <2>1, <2>2, <2>3, NextState_Longest
  <2>5. CASE NextState(req_state, c) = 4
    <3>1. server' = "send"
      BY <1>2, <2>5 DEF Recv
    <3>2. QED
      BY <2>4, <2>5, <3>1 DEF MatchesReference
  <2>6. CASE NextState(req_state, c) # 4
    <3>1. server' = "recv" /\ req_state' = NextState(req_state, c)
      BY <1>2, <2>1, <2>6 DEF Recv
    <3>2. QED
      BY <2>4, <3>1 DEF MatchesReference
  <2>7. QED
    BY <2>5, <2>6
<1>3. CASE SetupFails \/ Listen \/ RecvEnds \/ SendEnds \/ Close
  BY <1>3 DEF SetupFails, Listen, RecvEnds, SendEnds, Close, MatchesReference, loopVars
<1>4. CASE Send
  BY <1>4 DEF Send, MatchesReference
<1>5. CASE Connects \/ Requests \/ Leaves
  BY <1>5 DEF Connects, Requests, Leaves, MatchesReference, loopVars
<1>6. CASE UNCHANGED vars
  BY <1>6 DEF vars, MatchesReference, loopVars
<1>7. QED
  BY <1>1, <1>2, <1>3, <1>4, <1>5, <1>6 DEF Next, thread_socket_dumb_http

\* For requests of any length: the page is sent only after CR LF CR LF, and while
\* no CR follows a CR no part of it is ever forgotten.
THEOREM MatchesCorrect == Spec => []MatchesReference
<1>1. Init => MatchesReference
  BY DEF Init, MatchesReference
<1>2. TypeOK /\ MatchesReference /\ [Next]_vars => MatchesReference'
  BY MatchesStep
<1>3. PageInv => TypeOK
  BY DEF PageInv
<1>4. QED
  BY <1>1, <1>2, <1>3, PageInvCorrect, PTL DEF Spec

-----------------------------------------------------------------------------
(* The HTTP client on its network.                                         *)

LEMMA Elements ==
  ASSUME NEW S, NEW s \in Seq(S)
  PROVE  Len(s) \in Nat /\ \A i \in 1..Len(s) : s[i] \in S
OBVIOUS

LEMMA WiderElements ==
  ASSUME NEW S, NEW T, S \subseteq T, NEW s \in Seq(S)
  PROVE  s \in Seq(T)
OBVIOUS

\* The byte at position i of a page is i, or the NUL byte.
LEMMA PageBytes ==
  ASSUME NEW p \in Http!Pages
  PROVE  /\ p \in Seq(0..MaxPage) /\ Len(p) \in 0..MaxPage
         /\ \A i \in 1..Len(p) : p[i] \in {0, i}
<1>1. PICK n \in 0..MaxPage, z \in 0..MaxPage :
        p = [i \in 1..n |-> IF i = z THEN 0 ELSE i]
  BY DEF Http!Pages
<1>2. \A i \in 1..n : (IF i = z THEN 0 ELSE i) \in 0..MaxPage
  BY <1>1, NetworkAssumption
<1>3. p \in Seq(0..MaxPage) /\ Len(p) = n
  BY <1>1, <1>2, NetworkAssumption
<1>4. QED
  BY <1>1, <1>3

\* The last m elements of a sequence are a suffix of it.
LEMMA LastElements ==
  ASSUME NEW S, NEW t \in Seq(S), NEW m \in 0..Len(t)
  PROVE  Http!IsSuffix(SubSeq(t, Len(t) - m + 1, Len(t)), t)
<1> DEFINE s == SubSeq(t, Len(t) - m + 1, Len(t))
<1>1. /\ s \in Seq(S) /\ Len(s) = m /\ Len(t) \in Nat
      /\ \A i \in 1..m : s[i] = t[Len(t) - m + i]
  OBVIOUS
<1> HIDE DEF s
<1> DEFINE rs == Http!Reverse(s)
           rt == Http!Reverse(t)
<1>2. /\ rs \in Seq(S) /\ Len(rs) = m
      /\ \A i \in 1..m : rs[i] = s[m - i + 1]
  <2>1. rs = [i \in 1..m |-> s[m - i + 1]]
    BY <1>1 DEF Http!Reverse
  <2>2. \A i \in 1..m : m - i + 1 \in 1..m
    BY <1>1
  <2>3. \A i \in 1..m : s[m - i + 1] \in S
    BY <1>1, <2>2
  <2>4. m \in Nat
    BY <1>1
  <2>5. QED
    BY <2>1, <2>3, <2>4
<1>3. /\ rt \in Seq(S) /\ Len(rt) = Len(t)
      /\ \A i \in 1..Len(t) : rt[i] = t[Len(t) - i + 1]
  <2>1. rt = [i \in 1..Len(t) |-> t[Len(t) - i + 1]]
    BY DEF Http!Reverse
  <2>2. \A i \in 1..Len(t) : Len(t) - i + 1 \in 1..Len(t)
    BY <1>1
  <2>3. \A i \in 1..Len(t) : t[Len(t) - i + 1] \in S
    BY <1>1, <2>2
  <2>4. QED
    BY <1>1, <2>1, <2>3
<1>4. ASSUME NEW i \in 1..m
      PROVE  rs[i] = rt[i]
  <2>1. m - i + 1 \in 1..m /\ i \in 1..Len(t)
    BY <1>1
  <2>2. Len(t) - m + (m - i + 1) = Len(t) - i + 1
    BY <1>1
  <2>3. QED
    BY <1>1, <1>2, <1>3, <2>1, <2>2
<1> HIDE DEF rs, rt
<1>5. SubSeq(rs, 1, m) = SubSeq(rt, 1, m)
  <2>1. /\ SubSeq(rs, 1, m) = [i \in 1..m |-> rs[i]]
        /\ SubSeq(rt, 1, m) = [i \in 1..m |-> rt[i]]
    BY <1>1, <1>2, <1>3
  <2>2. QED
    BY <1>4, <2>1
<1>6. Http!IsPrefix(rs, rt)
  BY <1>1, <1>2, <1>3, <1>5 DEF Http!IsPrefix
<1>7. QED
  BY <1>6 DEF Http!IsSuffix, s, rs, rt

\* response holds a chunk and its terminator, and still fits.
LEMMA StoredChunk ==
  ASSUME response \in [0..RESPONSE - 1 -> 0..MaxPage],
         NEW c \in Seq(0..MaxPage), Len(c) <= RESPONSE - 1
  PROVE  LET buf == Http!Stored(c)
         IN /\ buf \in [0..RESPONSE - 1 -> 0..MaxPage]
            /\ buf[Len(c)] = 0
            /\ \A i \in 0..Len(c) - 1 : buf[i] = c[i + 1]
<1> DEFINE buf == Http!Stored(c)
           new(i) == IF i < Len(c) THEN c[i + 1] ELSE IF i = Len(c) THEN 0 ELSE response[i]
<1>1. Len(c) \in 0..RESPONSE - 1
  BY NetworkAssumption
<1>2. (0..RESPONSE - 1) \cup {Len(c)} = 0..RESPONSE - 1
  BY <1>1
<1>3. buf = [i \in 0..RESPONSE - 1 |-> new(i)]
  BY <1>2 DEF Http!Stored
<1>0. \A j \in 1..Len(c) : c[j] \in 0..MaxPage
  BY Elements
<1>4. ASSUME NEW i \in 0..RESPONSE - 1
      PROVE  new(i) \in 0..MaxPage
  <2>1. CASE i < Len(c)
    <3>1. i + 1 \in 1..Len(c)
      BY <2>1, <1>1, NetworkAssumption
    <3>2. c[i + 1] \in 0..MaxPage
      BY <1>0, <3>1
    <3>3. QED
      BY <2>1, <3>2
  <2>2. CASE ~(i < Len(c))
    <3>1. 0 \in 0..MaxPage /\ response[i] \in 0..MaxPage
      BY NetworkAssumption
    <3>2. QED
      BY <2>2, <3>1
  <2>3. QED
    BY <2>1, <2>2
<1>5. \A i \in 0..Len(c) - 1 : i \in 0..RESPONSE - 1 /\ i < Len(c)
  BY <1>1, NetworkAssumption
<1>6. QED
  BY <1>1, <1>3, <1>4, <1>5


\* What is printed of a buffer with a NUL at n: what comes before its first NUL.
LEMMA TextUpToNul ==
  ASSUME NEW buf \in [0..RESPONSE - 1 -> 0..MaxPage],
         NEW n \in 0..RESPONSE - 1, buf[n] = 0
  PROVE  \E m \in 0..n :
           /\ Http!Text(buf) = [i \in 1..m |-> buf[i - 1]]
           /\ buf[m] = 0
           /\ \A i \in 0..m - 1 : buf[i] # 0
<1> DEFINE Ends(k) == /\ k = RESPONSE \/ buf[k] = 0
                      /\ \A i \in 0..k - 1 : buf[i] # 0
           text_len == CHOOSE k \in 0..RESPONSE : Ends(k)
           Nuls == {k \in 0..n : buf[k] = 0}
<1>1. PICK m \in Nuls : \A k \in Nuls : m <= k
  <2>1. n \in Nuls /\ Nuls \in SUBSET Nat
    OBVIOUS
  <2>2. QED
    BY <2>1, LeastNat
<1>2. m \in 0..RESPONSE /\ Ends(m)
  <2>1. ASSUME NEW i \in 0..m - 1
        PROVE  buf[i] # 0
    <3>1. i \in 0..n /\ ~(m <= i)
      BY <1>1
    <3>2. QED
      BY <1>1, <3>1
  <2>2. QED
    BY <1>1, <2>1, NetworkAssumption
<1>3. text_len \in 0..RESPONSE /\ Ends(text_len)
  BY <1>2
<1>4. Http!Text(buf) = [i \in 1..text_len |-> buf[i - 1]]
  BY DEF Http!Text
<1> HIDE DEF text_len
<1>5. text_len <= n
  <2> SUFFICES ASSUME n < text_len
               PROVE  FALSE
    BY <1>3, NetworkAssumption
  <2>1. n \in 0..text_len - 1
    BY <1>3, NetworkAssumption
  <2>2. QED
    BY <1>3, <2>1
<1>6. text_len \in 0..n /\ text_len # RESPONSE
  BY <1>3, <1>5, NetworkAssumption
<1>7. QED
  BY <1>3, <1>4, <1>6

-----------------------------------------------------------------------------
(* What was printed.                                                       *)

\* How much of the page was received.
Got == Len(served) - Len(pageLeft)

\* The inductive invariant of PrintedFaithful.  What was printed are positions
\* that were received; cut says for ever whether the server got less than the
\* request; and the server closes only after the page or such a request.
ClientInv ==
  /\ PrintedFaithful
  /\ Got \in 0..Len(served) /\ pageLeft = SubSeq(served, Got + 1, Len(served))
  /\ \A i \in 1..Len(printed) : printed[i] <= Got
  /\ http \in {"sleep", "resolve", "socket", "connect", "send"} => peer = "up"
  /\ http = "recv" => (cut <=> asked < REQUEST)
  /\ peer = "closed" => pageLeft = <<>> \/ cut
  /\ http = "close" => peer = "closed"

\* The first n elements of the rest of a sequence, and the rest after them.
LEMMA RestElements ==
  ASSUME NEW S, NEW p \in Seq(S), NEW k \in 0..Len(p), NEW n \in 0..Len(p) - k
  PROVE  LET q == SubSeq(p, k + 1, Len(p))
         IN /\ q \in Seq(S) /\ Len(q) = Len(p) - k
            /\ SubSeq(q, 1, n) \in Seq(S) /\ Len(SubSeq(q, 1, n)) = n
            /\ \A i \in 1..n : SubSeq(q, 1, n)[i] = p[k + i]
            /\ SubSeq(q, n + 1, Len(q)) = SubSeq(p, (k + n) + 1, Len(p))
<1> DEFINE q == SubSeq(p, k + 1, Len(p))
<1>1. Len(p) \in Nat /\ k \in Nat /\ n \in Nat
  OBVIOUS
<1>2. /\ q \in Seq(S) /\ Len(q) = Len(p) - k
      /\ \A i \in 1..Len(p) - k : q[i] = p[k + i]
  OBVIOUS
<1> HIDE DEF q
<1>3. /\ SubSeq(q, 1, n) \in Seq(S) /\ Len(SubSeq(q, 1, n)) = n
      /\ \A i \in 1..n : SubSeq(q, 1, n)[i] = q[i]
  BY <1>1, <1>2
<1>4. \A i \in 1..n : i \in 1..Len(p) - k
  BY <1>1
<1> DEFINE a == SubSeq(q, n + 1, Len(q))
           b == SubSeq(p, (k + n) + 1, Len(p))
           m == Len(p) - (k + n)
<1>5. /\ a \in Seq(S) /\ Len(a) = m
      /\ \A i \in 1..m : a[i] = q[n + i]
  BY <1>1, <1>2
<1>6. /\ b \in Seq(S) /\ Len(b) = m
      /\ \A i \in 1..m : b[i] = p[(k + n) + i]
  BY <1>1
<1>7. ASSUME NEW i \in 1..m
      PROVE  a[i] = b[i]
  <2>1. n + i \in 1..Len(p) - k /\ k + (n + i) = (k + n) + i
    BY <1>1
  <2>2. QED
    BY <1>2, <1>5, <1>6, <2>1
<1> HIDE DEF a, b, m
<1>8. a = b
  BY <1>5, <1>6, <1>7
<1>9. QED
  BY <1>2, <1>3, <1>4, <1>8 DEF a, b, q

\* Increasing numbers up to k, continued by k + 1, k + 2, and so on.
LEMMA PrintedGrows ==
  ASSUME NEW N \in Nat, NEW k \in 0..N, NEW m \in 0..N - k,
         NEW s \in Seq(1..N), NEW t \in Seq(1..N), Len(t) = m,
         \A i \in 1..m : t[i] = k + i,
         \A i \in 1..Len(s) : s[i] <= k,
         \A i, j \in 1..Len(s) : i < j => s[i] < s[j]
  PROVE  LET u == s \o t
         IN /\ u \in Seq(1..N)
            /\ \A i \in 1..Len(u) : u[i] <= k + m
            /\ \A i, j \in 1..Len(u) : i < j => u[i] < u[j]
<1> DEFINE u == s \o t
<1>1. /\ u \in Seq(1..N) /\ Len(u) = Len(s) + m
      /\ \A i \in 1..Len(s) + m : u[i] = IF i <= Len(s) THEN s[i] ELSE t[i - Len(s)]
  BY ConcatElements
<1>2. Len(s) \in Nat /\ \A i \in 1..Len(s) : s[i] \in 1..N
  BY Elements
<1>3. k \in Nat /\ m \in Nat
  OBVIOUS
<1> HIDE DEF u
<1>4. ASSUME NEW i \in 1..Len(s) + m
      PROVE  /\ i \in 1..Len(s) => u[i] = s[i] /\ u[i] \in Nat /\ u[i] <= k
             /\ i \notin 1..Len(s) => u[i] = k + (i - Len(s)) /\ i - Len(s) \in 1..m
  <2>1. CASE i \in 1..Len(s)
    <3>1. u[i] = s[i]
      BY <1>1, <1>2, <2>1
    <3>2. s[i] \in Nat /\ s[i] <= k
      BY <1>2, <2>1
    <3>3. QED
      BY <2>1, <3>1, <3>2
  <2>2. CASE i \notin 1..Len(s)
    <3>1. ~(i <= Len(s)) /\ i - Len(s) \in 1..m
      BY <1>2, <1>3, <2>2
    <3>2. u[i] = t[i - Len(s)]
      BY <1>1, <3>1
    <3>3. QED
      BY <2>2, <3>1, <3>2
  <2>3. QED
    BY <2>1, <2>2
<1>5. \A i \in 1..Len(u) : u[i] <= k + m
  BY <1>1, <1>2, <1>3, <1>4
<1>6. ASSUME NEW i \in 1..Len(s) + m, NEW j \in 1..Len(s) + m, i < j
      PROVE  u[i] < u[j]
  <2>1. CASE j \in 1..Len(s)
    <3>1. i \in 1..Len(s)
      BY <1>2, <1>3, <1>6, <2>1
    <3>2. u[i] = s[i] /\ u[j] = s[j]
      BY <1>4, <2>1, <3>1
    <3>3. s[i] < s[j]
      BY <1>6, <2>1, <3>1
    <3>4. QED
      BY <3>2, <3>3
  <2>2. CASE j \notin 1..Len(s) /\ i \in 1..Len(s)
    <3>1. u[i] \in Nat /\ u[i] <= k
      BY <1>4, <2>2
    <3>2. u[j] = k + (j - Len(s)) /\ j - Len(s) \in 1..m
      BY <1>4, <2>2
    <3>3. QED
      BY <1>2, <1>3, <3>1, <3>2
  <2>3. CASE j \notin 1..Len(s) /\ i \notin 1..Len(s)
    <3>1. u[i] = k + (i - Len(s)) /\ u[j] = k + (j - Len(s))
      BY <1>4, <2>3
    <3>2. QED
      BY <1>2, <1>3, <1>6, <3>1
  <2>4. QED
    BY <2>1, <2>2, <2>3
<1>7. QED
  BY <1>1, <1>5, <1>6 DEF u

\* recv: what is printed of the chunk continues what was printed before.
LEMMA RecvPrints ==
  ASSUME ClientInv, NEW n \in 1..RESPONSE - 1, n <= Len(pageLeft),
         response' = Http!Stored(SubSeq(pageLeft, 1, n)),
         pageLeft' = SubSeq(pageLeft, n + 1, Len(pageLeft)),
         printed' = printed \o Http!Text(response'),
         served' = served
  PROVE  /\ response' \in [0..RESPONSE - 1 -> 0..MaxPage]
         /\ Got' \in 0..Len(served) /\ pageLeft' = SubSeq(served, Got' + 1, Len(served))
         /\ printed' \in Seq(1..MaxPage)
         /\ \A i \in 1..Len(printed') : printed'[i] <= Got'
         /\ \A i, j \in 1..Len(printed') : i < j => printed'[i] < printed'[j]
         /\ 0 \notin Http!Range(served) => printed' \o pageLeft' = served
<1> DEFINE k == Got
           c == SubSeq(pageLeft, 1, n)
           t == Http!Text(response')
<1>0. MaxPage \in Nat
  BY NetworkAssumption
<1>1. /\ served \in Http!Pages /\ printed \in Seq(1..MaxPage)
      /\ response \in [0..RESPONSE - 1 -> 0..MaxPage]
      /\ \A i, j \in 1..Len(printed) : i < j => printed[i] < printed[j]
      /\ 0 \notin Http!Range(served) => printed \o pageLeft = served
  BY DEF ClientInv, PrintedFaithful, Http!PrintedFaithful, Http!TypeOK
<1>2. /\ served \in Seq(0..MaxPage) /\ Len(served) \in 0..MaxPage
      /\ \A i \in 1..Len(served) : served[i] \in {0, i}
  BY <1>1, PageBytes
<1>3. /\ k \in 0..Len(served) /\ pageLeft = SubSeq(served, k + 1, Len(served))
      /\ \A i \in 1..Len(printed) : printed[i] <= k
  BY DEF ClientInv
<1> HIDE DEF k
<1>4. pageLeft \in Seq(0..MaxPage) /\ Len(pageLeft) = Len(served) - k
  <2>1. 0 \in 0..Len(served) - k
    BY <1>2, <1>3
  <2>2. QED
    BY <1>2, <1>3, <2>1, RestElements
<1>5. n \in 0..Len(served) - k /\ n \in Nat /\ k \in Nat /\ Len(served) \in Nat
  BY <1>2, <1>3, <1>4
<1>6. /\ c \in Seq(0..MaxPage) /\ Len(c) = n
      /\ \A i \in 1..n : c[i] = served[k + i]
      /\ pageLeft' = SubSeq(served, (k + n) + 1, Len(served))
  <2> DEFINE q == SubSeq(served, k + 1, Len(served))
  <2>1. /\ SubSeq(q, 1, n) \in Seq(0..MaxPage) /\ Len(SubSeq(q, 1, n)) = n
        /\ \A i \in 1..n : SubSeq(q, 1, n)[i] = served[k + i]
        /\ SubSeq(q, n + 1, Len(q)) = SubSeq(served, (k + n) + 1, Len(served))
    <3> DEFINE S == 0..MaxPage
    <3>1. served \in Seq(S) /\ k \in 0..Len(served) /\ n \in 0..Len(served) - k
      BY <1>2, <1>3, <1>5
    <3> HIDE DEF S
    <3>2. /\ SubSeq(q, 1, n) \in Seq(S) /\ Len(SubSeq(q, 1, n)) = n
          /\ \A i \in 1..n : SubSeq(q, 1, n)[i] = served[k + i]
          /\ SubSeq(q, n + 1, Len(q)) = SubSeq(served, (k + n) + 1, Len(served))
      BY <3>1, RestElements
    <3>3. QED
      BY <3>2 DEF S
  <2>2. q = pageLeft
    BY <1>3
  <2> HIDE DEF q
  <2>3. QED
    BY <2>1, <2>2
<1>7. Len(pageLeft') = Len(served) - (k + n)
  <2>1. k + n \in 0..Len(served) /\ 0 \in 0..Len(served) - (k + n)
    BY <1>5
  <2>2. QED
    BY <1>2, <1>6, <2>1, RestElements
<1>8. Got' = k + n
  <2>1. Got' = Len(served) - Len(pageLeft')
    BY DEF Got
  <2>2. QED
    BY <1>5, <1>7, <2>1
<1> HIDE DEF c
<1>9. /\ response' \in [0..RESPONSE - 1 -> 0..MaxPage]
      /\ response'[n] = 0
      /\ \A i \in 0..n - 1 : response'[i] = c[i + 1]
  <2>1. Len(c) <= RESPONSE - 1 /\ response' = Http!Stored(c)
    BY <1>6 DEF c
  <2>2. QED
    BY <1>1, <1>6, <2>1, StoredChunk
<1>10. PICK m \in 0..n : /\ t = [i \in 1..m |-> response'[i - 1]]
                         /\ response'[m] = 0
                         /\ \A i \in 0..m - 1 : response'[i] # 0
  <2>1. n \in 0..RESPONSE - 1
    BY <1>5
  <2>2. QED
    BY <1>9, <2>1, TextUpToNul
<1>11. ASSUME NEW i \in 1..m
       PROVE  /\ t[i] = k + i /\ t[i] = c[i] /\ k + i \in 1..MaxPage
  <2>1. i \in 1..n /\ i - 1 \in 0..n - 1 /\ i - 1 \in 0..m - 1
    BY <1>5, <1>10
  <2>2. t[i] = c[i] /\ t[i] # 0
    <3>1. t[i] = response'[i - 1] /\ response'[i - 1] # 0
      BY <1>10, <2>1
    <3>2. response'[i - 1] = c[(i - 1) + 1] /\ (i - 1) + 1 = i
      BY <1>9, <2>1
    <3>3. QED
      BY <3>1, <3>2
  <2>3. k + i \in 1..Len(served) /\ k + i \in 1..MaxPage
    <3>1. k + i \in Nat /\ 1 <= k + i /\ k + i <= Len(served)
      BY <1>5, <2>1
    <3>2. Len(served) <= MaxPage
      BY <1>0, <1>2
    <3>3. QED
      BY <1>0, <1>5, <3>1, <3>2
  <2>4. served[k + i] \in {0, k + i}
    BY <1>2, <2>3
  <2>5. QED
    BY <1>6, <2>1, <2>2, <2>3, <2>4
<1>12. t \in Seq(1..MaxPage) /\ Len(t) = m
  <2>1. m \in Nat /\ t = [i \in 1..m |-> response'[i - 1]]
    BY <1>10
  <2>2. \A i \in 1..m : response'[i - 1] \in 1..MaxPage
    BY <1>11, <2>1
  <2> DEFINE S == 1..MaxPage
  <2>3. \A i \in 1..m : response'[i - 1] \in S
    BY <2>2
  <2> HIDE DEF S, t
  <2>4. t \in Seq(S)
    BY <2>1, <2>3
  <2>5. Len(t) = m /\ \A i \in 1..m : t[i] = response'[i - 1]
    BY <2>1
  <2>6. QED
    BY <2>4, <2>5, <2>2, <1>11 DEF S
<1> HIDE DEF t
<1>13. /\ printed' \in Seq(1..MaxPage)
       /\ \A i \in 1..Len(printed') : printed'[i] <= k + m
       /\ \A i, j \in 1..Len(printed') : i < j => printed'[i] < printed'[j]
  <2>1. /\ MaxPage \in Nat /\ k \in 0..MaxPage /\ m \in 0..MaxPage - k
    BY <1>2, <1>3, <1>5, <1>10, NetworkAssumption
  <2>2. \A i \in 1..m : t[i] = k + i
    BY <1>11
  <2>3. printed' = printed \o t
    BY DEF t
  <2>4. QED
    BY <1>1, <1>3, <1>12, <2>1, <2>2, <2>3, PrintedGrows
<1>14. \A i \in 1..Len(printed') : printed'[i] <= Got'
  <2>1. k + m <= k + n /\ k + m \in Nat /\ k + n \in Nat
    BY <1>5, <1>10
  <2>2. \A i \in 1..Len(printed') : printed'[i] \in 1..MaxPage
    BY <1>13, Elements
  <2>3. QED
    BY <1>8, <1>13, <2>1, <2>2
<1>15. ASSUME 0 \notin Http!Range(served)
       PROVE  printed' \o pageLeft' = served
  <2>1. m = n
    <3> SUFFICES ASSUME m # n
                 PROVE  FALSE
      OBVIOUS
    <3>1. m \in 0..n - 1 /\ m + 1 \in 1..n
      BY <1>5, <1>10
    <3>2. c[m + 1] = 0 /\ c[m + 1] = served[k + (m + 1)]
      BY <1>6, <1>9, <1>10, <3>1
    <3>3. k + (m + 1) \in 1..Len(served)
      BY <1>5, <3>1
    <3>4. QED
      BY <1>2, <1>15, <3>2, <3>3 DEF Http!Range
  <2>2. t = c
    <3>1. \A i \in 1..n : t[i] = c[i]
      BY <1>11, <2>1
    <3>2. QED
      BY <1>6, <1>12, <2>1, <3>1
  <2>3. printed \in Seq(0..MaxPage)
    <3>1. 1..MaxPage \subseteq 0..MaxPage
      BY <1>0
    <3>2. QED
      BY <1>1, <3>1, WiderElements
  <2>4. n \in 0..Len(pageLeft)
    BY <1>5
  <2>5. (printed \o SubSeq(pageLeft, 1, n)) \o SubSeq(pageLeft, n + 1, Len(pageLeft))
          = printed \o pageLeft
    BY <1>4, <2>3, <2>4, MoveChunk
  <2>6. QED
    BY <1>1, <1>15, <2>2, <2>5 DEF t, c
<1>16. Got' \in 0..Len(served)
  BY <1>5, <1>8
<1>17. QED
  BY <1>6, <1>8, <1>9, <1>13, <1>14, <1>15, <1>16

\* The DHCP client on its own.
LEMMA DhcpTypes ==
  ASSUME Dhcp!TypeOK, Dhcp!Next
  PROVE  Dhcp!TypeOK'
<1>0. MaxChanges \in Nat
  BY NetworkAssumption
<1>1. CASE Dhcp!net_mgmt_add_event_callback \/ Dhcp!net_dhcpv4_start
  <2>1. /\ dhcp < 2 /\ dhcp' = dhcp + 1
        /\ UNCHANGED <<unicast, events, changes, logged>>
        /\ (callback' = TRUE /\ started' = started) \/ (callback' = callback /\ started' = TRUE)
    BY <1>1 DEF Dhcp!net_mgmt_add_event_callback, Dhcp!net_dhcpv4_start, Dhcp!Call
  <2>2. dhcp' \in 0..2
    BY <2>1 DEF Dhcp!TypeOK
  <2>3. started' \in BOOLEAN /\ callback' \in BOOLEAN
    BY <2>1 DEF Dhcp!TypeOK
  <2>4. QED
    BY <2>1, <2>2, <2>3 DEF Dhcp!TypeOK
<1>2. CASE Dhcp!Bind \/ Dhcp!Expire
  <2>1. /\ events' \in Seq({"add", "del"}) /\ changes' \in 0..MaxChanges
        /\ logged' \in SUBSET Slot
    <3>1. events \in Seq({"add", "del"}) /\ changes \in 0..MaxChanges
          /\ logged \in SUBSET Slot
      BY DEF Dhcp!TypeOK
    <3>2. changes < MaxChanges /\ changes' = changes + 1
      BY <1>2 DEF Dhcp!Bind, Dhcp!Expire
    <3>3. changes' \in 0..MaxChanges
      BY <1>0, <3>1, <3>2
    <3>4. \E event \in {"add", "del"} : events' = Append(events, event)
      BY <1>2 DEF Dhcp!Bind, Dhcp!Expire
    <3>5. events' \in Seq({"add", "del"})
      BY <3>1, <3>4
    <3>6. logged' \in SUBSET Slot
      BY <1>2, <3>1 DEF Dhcp!Bind, Dhcp!Expire
    <3>7. QED
      BY <3>3, <3>5, <3>6
  <2>2. unicast' \in [Slot -> {"none", "manual", "dhcp"}]
    BY <1>2 DEF Dhcp!Bind, Dhcp!Expire, Dhcp!TypeOK
  <2>3. QED
    BY <1>2, <2>1, <2>2 DEF Dhcp!Bind, Dhcp!Expire, Dhcp!TypeOK
<1>3. CASE Dhcp!Dispatch
  <2>1. events' \in Seq({"add", "del"})
    BY <1>3 DEF Dhcp!Dispatch, Dhcp!TypeOK
  <2>2. logged' \in SUBSET Slot
    BY <1>3 DEF Dhcp!Dispatch, Dhcp!handler, Dhcp!TypeOK
  <2>3. QED
    BY <1>3, <2>1, <2>2 DEF Dhcp!Dispatch, Dhcp!TypeOK
<1>4. QED
  BY <1>1, <1>2, <1>3 DEF Dhcp!Next

LEMMA ClientInit ==
  ASSUME NetInit
  PROVE  ClientInv
<1>1. /\ Dhcp!Init /\ Http!Init
      /\ REQUEST \in Nat /\ REQUEST > 0 /\ MaxPage \in Nat /\ MaxChanges \in Nat
  BY NetworkAssumption DEF NetInit
<1>2. Dhcp!TypeOK
  <2>1. unicast \in [Slot -> {"none", "manual", "dhcp"}]
    BY <1>1 DEF Dhcp!Init
  <2>2. events \in Seq({"add", "del"}) /\ dhcp \in 0..2 /\ changes \in 0..MaxChanges
        /\ logged \in SUBSET Slot
    BY <1>1 DEF Dhcp!Init
  <2>3. started \in BOOLEAN /\ callback \in BOOLEAN
    BY <1>1 DEF Dhcp!Init
  <2>4. QED
    BY <2>1, <2>2, <2>3 DEF Dhcp!TypeOK
<1>3. /\ served \in Http!Pages /\ pageLeft = served /\ printed = <<>>
      /\ http = "sleep" /\ peer = "up"
  BY <1>1 DEF Http!Init
<1>4. served \in Seq(0..MaxPage) /\ Len(served) \in Nat
  BY <1>3, PageBytes
<1>5. served = SubSeq(served, 1, Len(served))
  BY <1>4
<1>6. Http!IsSuffix(pageLeft, served)
  <2>1. Len(served) \in 0..Len(served) /\ Len(served) - Len(served) + 1 = 1
    BY <1>4
  <2>2. Http!IsSuffix(SubSeq(served, Len(served) - Len(served) + 1, Len(served)),
                             served)
    BY <1>4, <2>1, LastElements
  <2>3. QED
    BY <1>3, <1>5, <2>1, <2>2
<1>7. Http!TypeOK
  <2>1. response \in [0..RESPONSE - 1 -> 0..MaxPage]
    BY <1>1 DEF Http!Init
  <2>2. sock \in BOOLEAN /\ cut \in BOOLEAN
    BY <1>1 DEF Http!Init
  <2>3. asked \in 0..REQUEST /\ printed \in Seq(1..MaxPage)
    BY <1>1 DEF Http!Init
  <2>4. QED
    BY <1>3, <1>6, <2>1, <2>2, <2>3 DEF Http!TypeOK
<1>8. <<>> \o served = served
  BY <1>4
<1>9. PrintedFaithful
  BY <1>2, <1>3, <1>7, <1>8 DEF PrintedFaithful, Http!PrintedFaithful
<1>10. Got = 0
  BY <1>3, <1>4 DEF Got
<1>11. QED
  BY <1>3, <1>4, <1>5, <1>9, <1>10 DEF ClientInv

LEMMA ClientStep ==
  ASSUME ClientInv,
         [DhcpStep \/ HttpStep]_<<dhcpVars, httpVars>>
  PROVE  ClientInv'
<1>0. /\ REQUEST \in Nat /\ MaxPage \in Nat /\ MaxChanges \in Nat
      /\ Dhcp!TypeOK /\ Http!TypeOK
  BY NetworkAssumption DEF ClientInv, PrintedFaithful, Http!PrintedFaithful
<1> DEFINE Same == UNCHANGED <<response, pageLeft, served, printed>>
           Types == /\ http' \in {"sleep", "resolve", "socket", "connect", "send", "recv",
                                  "close", "returned", "exited"}
                    /\ sock' \in BOOLEAN /\ cut' \in BOOLEAN
                    /\ asked' \in 0..REQUEST
                    /\ peer' \in {"up", "closed", "broken"}
           Control == /\ http' \in {"sleep", "resolve", "socket", "connect", "send"}
                           => peer' = "up"
                      /\ http' = "recv" => (cut' <=> asked' < REQUEST)
                      /\ peer' = "closed" => pageLeft' = <<>> \/ cut'
                      /\ http' = "close" => peer' = "closed"
\* A step that receives nothing.
<1>1. ASSUME Same, Types, Control, Dhcp!TypeOK'
      PROVE  ClientInv'
  <2>1. http' = "close" => pageLeft' = <<>> \/ cut'
    BY <1>1
  <2>2. Http!TypeOK'
    BY <1>0, <1>1 DEF Http!TypeOK, Http!IsSuffix
  <2>3. Http!PrintedFaithful'
    BY <1>1, <2>1, <2>2 DEF ClientInv, PrintedFaithful, Http!PrintedFaithful
  <2>4. QED
    BY <1>1, <2>3 DEF ClientInv, PrintedFaithful, Got
<1>2. CASE DhcpStep
  <2>1. Dhcp!TypeOK'
    BY <1>0, <1>2, DhcpTypes DEF DhcpStep
  <2>2. UNCHANGED httpVars
    BY <1>2 DEF DhcpStep
  <2>3. Same /\ Types /\ Control
    <3>1. UNCHANGED <<http, sock, response, asked, pageLeft, peer, served, cut, printed>>
      BY <2>2 DEF httpVars
    <3>2. Types
      BY <1>0, <3>1 DEF Http!TypeOK
    <3>3. Control
      BY <3>1 DEF ClientInv
    <3>4. QED
      BY <3>1, <3>2, <3>3
  <2>4. QED
    BY <1>1, <2>1, <2>3
<1>3. CASE HttpStep
  <2>0. Dhcp!TypeOK'
    BY <1>0, <1>3 DEF HttpStep, dhcpVars, Dhcp!TypeOK
  <2>1. CASE Http!k_sleep \/ Http!getaddrinfo \/ Http!CheckFails
             \/ Http!Socket \/ Http!Connect
    <3>1. Same /\ Types /\ Control
      BY <1>0, <2>1 DEF ClientInv, Http!TypeOK, Http!k_sleep,
        Http!getaddrinfo, Http!CheckFails, Http!Socket,
        Http!Connect, Http!net
    <3>2. QED
      BY <1>1, <2>0, <3>1
  <2>2. CASE Http!Send
    <3>1. Same /\ Types /\ Control
      <4>1. /\ http = "send" /\ http' = "recv"
            /\ UNCHANGED <<sock, response, pageLeft, peer, served, printed>>
        BY <2>2 DEF Http!Send
      <4>2. PICK n \in 1..REQUEST : asked' = n /\ cut' = (n < REQUEST)
        BY <2>2 DEF Http!Send
      <4>3. peer = "up"
        BY <4>1 DEF ClientInv
      <4>4. /\ asked' \in 0..REQUEST /\ cut' \in BOOLEAN
            /\ cut' <=> asked' < REQUEST
        <5>1. asked' \in 0..REQUEST
          BY <1>0, <4>2
        <5>2. (n < REQUEST) \in BOOLEAN
          BY <1>0
        <5>3. cut' \in BOOLEAN /\ (cut' <=> n < REQUEST)
          BY <4>2, <5>2, Zenon
        <5>4. QED
          BY <4>2, <5>1, <5>3
      <4>5. sock' \in BOOLEAN
        BY <1>0, <4>1 DEF Http!TypeOK
      <4>6. QED
        BY <4>1, <4>3, <4>4, <4>5
    <3>2. QED
      BY <1>1, <2>0, <3>1
  <2>3. CASE Http!RecvEnds \/ Http!RecvFails \/ Http!Close
    <3>1. Same /\ Types /\ Control
      BY <1>0, <2>3 DEF ClientInv, Http!TypeOK, Http!RecvEnds,
        Http!RecvFails, Http!Close, Http!net
    <3>2. QED
      BY <1>1, <2>0, <3>1
  <2>4. CASE Http!ServerEnds
    <3>1. Same /\ Types /\ Control
      BY <1>0, <2>4 DEF ClientInv, Http!TypeOK, Http!ServerEnds
    <3>2. QED
      BY <1>1, <2>0, <3>1
  <2>5. CASE Http!Recv
    <3>1. /\ http = "recv" /\ peer # "broken" /\ asked = REQUEST
          /\ UNCHANGED <<http, sock, asked, peer, served, cut>>
          /\ printed' = printed \o Http!Text(response')
      BY <2>5 DEF Http!Recv
    <3>2. PICK n \in 1..RESPONSE - 1 :
            /\ n <= Len(pageLeft)
            /\ response' = Http!Stored(SubSeq(pageLeft, 1, n))
            /\ pageLeft' = SubSeq(pageLeft, n + 1, Len(pageLeft))
      BY <2>5 DEF Http!Recv, Http!Room
    <3>3. /\ response' \in [0..RESPONSE - 1 -> 0..MaxPage]
          /\ Got' \in 0..Len(served) /\ pageLeft' = SubSeq(served, Got' + 1, Len(served))
          /\ printed' \in Seq(1..MaxPage)
          /\ \A i \in 1..Len(printed') : printed'[i] <= Got'
          /\ \A i, j \in 1..Len(printed') : i < j => printed'[i] < printed'[j]
          /\ 0 \notin Http!Range(served) => printed' \o pageLeft' = served
      BY <3>1, <3>2, RecvPrints
    <3>4. pageLeft # <<>> /\ peer # "closed"
      <4>1. pageLeft # <<>>
        BY <3>2
      <4>2. QED
        BY <3>1, <4>1, <1>0 DEF ClientInv
    <3>5. Http!IsSuffix(pageLeft', served)
      <4>1. served \in Seq(0..MaxPage) /\ Len(served) \in Nat
        BY <1>0, PageBytes DEF Http!TypeOK
      <4> DEFINE m == Len(served) - Got'
      <4>2. m \in 0..Len(served) /\ Len(served) - m + 1 = Got' + 1
        BY <3>3, <4>1
      <4>3. Http!IsSuffix(SubSeq(served, Len(served) - m + 1, Len(served)), served)
        BY <4>1, <4>2, LastElements
      <4>4. QED
        BY <3>3, <4>2, <4>3
    <3>6. Http!TypeOK'
      BY <1>0, <3>1, <3>3, <3>5 DEF Http!TypeOK
    <3>7. Http!PrintedFaithful'
      BY <3>1, <3>3, <3>6 DEF Http!PrintedFaithful
    <3>8. QED
      BY <2>0, <3>1, <3>3, <3>4, <3>7 DEF ClientInv, PrintedFaithful
  <2>6. QED
    BY <1>3, <2>1, <2>2, <2>3, <2>4, <2>5
    DEF HttpStep, Http!Next, Http!thread_http_get
<1>4. CASE UNCHANGED <<dhcpVars, httpVars>>
  <2>1. Same /\ Types /\ Control
    BY <1>0, <1>4 DEF httpVars, ClientInv, Http!TypeOK
  <2>2. Dhcp!TypeOK'
    BY <1>0, <1>4 DEF dhcpVars, Dhcp!TypeOK
  <2>3. QED
    BY <1>1, <2>1, <2>2
<1>5. QED
  BY <1>2, <1>3, <1>4

\* For pages, buffers and requests of any size: of the page each byte is printed
\* at most once and in order, nothing is lost but what a NUL byte hides or a
\* short send cuts off, and response is not written past its end, whatever DHCP
\* does to the interface meanwhile.
THEOREM PrintedCorrect == NetSpec => []PrintedFaithful
<1>1. NetInit => ClientInv
  BY ClientInit
<1>2. ClientInv /\ [DhcpStep \/ HttpStep]_<<dhcpVars, httpVars>> => ClientInv'
  BY ClientStep
<1>3. ClientInv => PrintedFaithful
  BY DEF ClientInv
<1>4. QED
  BY <1>1, <1>2, <1>3, PTL DEF NetSpec

-----------------------------------------------------------------------------
(* The addresses that the DHCP client binds.                               *)

\* The inductive invariant of ReportPending: the client runs only after handler
\* was added, which main_dhcpv4_client does first.
ReportInv ==
  /\ Dhcp!TypeOK
  /\ Dhcp!ReportPending
  /\ dhcp >= 1 => callback
  /\ started => dhcp = 2

Pending(queue) == \E n \in 1..Len(queue) : queue[n] = "add"

\* A raised event comes after those that are still to come.
LEMMA PendingAppend ==
  ASSUME NEW queue \in Seq({"add", "del"}), NEW event \in {"add", "del"},
         Pending(queue) \/ event = "add"
  PROVE  Pending(Append(queue, event))
<1> DEFINE t == Append(queue, event)
<1>1. /\ Len(queue) \in Nat /\ Len(t) = Len(queue) + 1
      /\ \A n \in 1..Len(queue) : t[n] = queue[n]
      /\ t[Len(queue) + 1] = event
  OBVIOUS
<1> HIDE DEF t
<1>2. CASE Pending(queue)
  <2>1. PICK n \in 1..Len(queue) : queue[n] = "add"
    BY <1>2 DEF Pending
  <2>2. n \in 1..Len(t) /\ t[n] = "add"
    BY <1>1, <2>1
  <2>3. QED
    BY <2>2 DEF Pending, t
<1>3. CASE event = "add"
  <2>1. Len(queue) + 1 \in 1..Len(t)
    BY <1>1
  <2>2. QED
    BY <1>1, <1>3, <2>1 DEF Pending, t
<1>4. QED
  BY <1>2, <1>3

\* An event that is dispatched is not mistaken for one that is still to come.
LEMMA PendingTail ==
  ASSUME NEW queue \in Seq({"add", "del"}), queue # <<>>,
         Pending(queue), Head(queue) # "add"
  PROVE  Pending(Tail(queue))
<1> DEFINE t == Tail(queue)
<1>1. /\ Len(queue) \in Nat /\ Len(t) = Len(queue) - 1 /\ queue[1] # "add"
      /\ \A n \in 1..Len(t) : t[n] = queue[n + 1]
  OBVIOUS
<1> HIDE DEF t
<1>2. PICK n \in 1..Len(queue) : queue[n] = "add"
  BY DEF Pending
<1>3. n # 1
  BY <1>1, <1>2
<1>4. n - 1 \in 1..Len(t) /\ (n - 1) + 1 = n
  BY <1>1, <1>3
<1>5. t[n - 1] = "add"
  BY <1>1, <1>2, <1>4
<1>6. QED
  BY <1>4, <1>5 DEF Pending, t

LEMMA ReportStep ==
  ASSUME ReportInv, Dhcp!Next
  PROVE  ReportInv'
<1>0. Dhcp!TypeOK' /\ dhcp \in 0..2 /\ events \in Seq({"add", "del"})
  BY DhcpTypes DEF ReportInv, Dhcp!TypeOK
<1>1. \A i \in Slot : unicast[i] = "dhcp" /\ i \notin logged => callback /\ Pending(events)
  BY DEF ReportInv, Dhcp!ReportPending, Pending
<1>2. SUFFICES /\ \A i \in Slot : unicast'[i] = "dhcp" /\ i \notin logged' =>
                    callback' /\ Pending(events')
               /\ dhcp' >= 1 => callback'
               /\ started' => dhcp' = 2
  BY <1>0 DEF ReportInv, Dhcp!ReportPending, Pending
<1>3. CASE Dhcp!net_mgmt_add_event_callback
  <2>1. /\ dhcp < 2 /\ Dhcp!Calls[dhcp + 1] = "net_mgmt_add_event_callback"
        /\ dhcp' = dhcp + 1 /\ callback' = TRUE
        /\ UNCHANGED <<started, unicast, events, logged>>
    BY <1>3 DEF Dhcp!net_mgmt_add_event_callback, Dhcp!Call
  <2>2. ~started
    BY <2>1 DEF ReportInv
  <2>3. QED
    BY <1>1, <2>1, <2>2
<1>4. CASE Dhcp!net_dhcpv4_start
  <2>1. /\ dhcp < 2 /\ Dhcp!Calls[dhcp + 1] = "net_dhcpv4_start"
        /\ dhcp' = dhcp + 1
        /\ UNCHANGED <<callback, unicast, events, logged>>
    BY <1>4 DEF Dhcp!net_dhcpv4_start, Dhcp!Call
  <2>2. dhcp = 1
    <3>1. Dhcp!Calls[0 + 1] = "net_mgmt_add_event_callback"
      BY DEF Dhcp!Calls
    <3>2. dhcp # 0
      BY <2>1, <3>1
    <3>3. QED
      BY <1>0, <2>1, <3>2
  <2>3. callback /\ dhcp' = 2
    BY <2>1, <2>2 DEF ReportInv
  <2>4. QED
    BY <1>1, <2>1, <2>3
<1>5. CASE Dhcp!Bind
  <2>1. started /\ events' = Append(events, "add") /\ UNCHANGED <<dhcp, started, callback>>
    BY <1>5 DEF Dhcp!Bind
  <2>2. callback /\ dhcp = 2
    BY <2>1 DEF ReportInv
  <2>3. Pending(events')
    BY <1>0, <2>1, PendingAppend
  <2>4. QED
    BY <2>1, <2>2, <2>3
<1>6. CASE Dhcp!Expire
  <2>1. /\ events' = Append(events, "del") /\ UNCHANGED <<dhcp, started, callback, logged>>
        /\ \A i \in Slot : unicast'[i] = "dhcp" => unicast[i] = "dhcp"
    BY <1>6 DEF Dhcp!Expire, ReportInv, Dhcp!TypeOK
  <2>2. Pending(events) => Pending(events')
    BY <1>0, <2>1, PendingAppend
  <2>3. QED
    BY <1>1, <2>1, <2>2 DEF ReportInv
<1>7. CASE Dhcp!Dispatch
  <2>1. /\ events # <<>> /\ events' = Tail(events)
        /\ UNCHANGED <<dhcp, started, callback, unicast>>
        /\ IF callback THEN Dhcp!handler(Head(events)) ELSE logged' = logged
    BY <1>7 DEF Dhcp!Dispatch
  <2>2. ASSUME NEW i \in Slot, unicast'[i] = "dhcp", i \notin logged'
        PROVE  callback' /\ Pending(events')
    <3>1. i \notin logged
      BY <2>1, <2>2 DEF Dhcp!handler
    <3>2. callback /\ Pending(events)
      BY <1>1, <2>1, <2>2, <3>1
    <3>3. Head(events) # "add"
      BY <2>1, <2>2, <3>2 DEF Dhcp!handler
    <3>4. QED
      BY <1>0, <2>1, <3>2, <3>3, PendingTail
  <2>3. QED
    BY <2>1, <2>2 DEF ReportInv
<1>8. QED
  BY <1>3, <1>4, <1>5, <1>6, <1>7 DEF Dhcp!Next

\* For any number of addresses and of changes: an address that is not logged yet
\* still has an event to come that handler will be called for, however late the
\* stack dispatches and whatever lease ended in between.
THEOREM ReportCorrect == NetSpec => []ReportPending
<1>1. NetInit => ReportInv
  <2> SUFFICES ASSUME NetInit PROVE ReportInv
    OBVIOUS
  <2>1. Dhcp!TypeOK
    BY ClientInit DEF ClientInv, PrintedFaithful
  <2>2. /\ dhcp = 0 /\ started = FALSE
        /\ \A i \in Slot : unicast[i] # "dhcp"
    BY DEF NetInit, Dhcp!Init
  <2>3. QED
    BY <2>1, <2>2 DEF ReportInv, Dhcp!ReportPending
<1>2. ReportInv /\ [DhcpStep \/ HttpStep]_<<dhcpVars, httpVars>> => ReportInv'
  <2> SUFFICES ASSUME ReportInv, [DhcpStep \/ HttpStep]_<<dhcpVars, httpVars>>
               PROVE  ReportInv'
    OBVIOUS
  <2>1. CASE DhcpStep
    BY <2>1, ReportStep DEF DhcpStep
  <2>2. CASE UNCHANGED dhcpVars
    BY <2>2 DEF dhcpVars, ReportInv, Dhcp!TypeOK, Dhcp!ReportPending
  <2>3. QED
    BY <2>1, <2>2 DEF HttpStep
<1>3. ReportInv => ReportPending
  BY DEF ReportInv, ReportPending
<1>4. QED
  BY <1>1, <1>2, <1>3, PTL DEF NetSpec
=============================================================================
