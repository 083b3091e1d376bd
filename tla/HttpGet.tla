------------------------------ MODULE HttpGet ------------------------------
(***************************************************************************)
(* The HTTP client: after a fixed sleep, thread_http_get resolves the host,*)
(* connects, sends REQUEST with one call of send and prints what it        *)
(* receives until the server closes.  The server and the TCP stack are its *)
(* environment.  Bytes of the page are their positions; 0 is a NUL byte.   *)
(***************************************************************************)
EXTENDS Integers, Sequences, SequencesExt

CONSTANTS
  REQUEST,   \* sizeof(REQUEST) - 1
  RESPONSE,  \* sizeof(response)
  MaxPage    \* bound: bytes of the page

VARIABLES
  online,    \* the interface has an address (of the environment)
  http,      \* control point of thread_http_get
  sock,      \* the socket is open
  response,  \* the static buffer, 0 based
  asked,     \* bytes of the request the server got
  pageLeft,  \* what the server has still to send
  server,    \* its end of the connection: "up", "closed" or "broken"
  \* History, read by the properties only:
  page,      \* the page it serves
  cut,       \* send took less than it was given
  printed    \* what was printed of the page

net == <<asked, pageLeft, server>>
vars == <<http, sock, response, net, page, cut, printed>>

\* A page, with a NUL byte in one place or in none.
Pages == {[i \in 1..n |-> IF i = z THEN 0 ELSE i] : n \in 0..MaxPage, z \in 0..MaxPage}

Init ==
  /\ http = "sleep" /\ sock = FALSE
  /\ response = [i \in 0..RESPONSE - 1 |-> 0]
  /\ asked = 0 /\ server = "up"
  /\ page \in Pages /\ pageLeft = page
  /\ cut = FALSE /\ printed = <<>>

-----------------------------------------------------------------------------

\* k_sleep(K_SECONDS(10)), whatever has become of DHCP by then.
k_sleep ==
  /\ http = "sleep"
  /\ http' = "resolve"
  /\ UNCHANGED <<sock, response, net, page, cut, printed>>

\* Without an address there is nobody to ask, and a query can fail anyway.
getaddrinfo ==
  /\ http = "resolve"
  /\ http' \in IF online THEN {"socket", "returned"} ELSE {"returned"}
  /\ UNCHANGED <<sock, response, net, page, cut, printed>>

\* socket, or connect, or send fails: CHECK calls exit, which does not return.
CheckFails ==
  /\ http \in {"socket", "connect", "send"}
  /\ http' = "exited"
  /\ UNCHANGED <<sock, response, net, page, cut, printed>>

Socket ==
  /\ http = "socket"
  /\ http' = "connect" /\ sock' = TRUE
  /\ UNCHANGED <<response, net, page, cut, printed>>

Connect ==
  /\ http = "connect"
  /\ http' = "send"
  /\ UNCHANGED <<sock, response, net, page, cut, printed>>

\* One send of SSTRLEN(REQUEST): only -1 is looked at, so that a short count goes unnoticed.
Send ==
  /\ http = "send"
  /\ http' = "recv"
  /\ \E n \in 1..REQUEST : asked' = n /\ cut' = (n < REQUEST)
  /\ UNCHANGED <<sock, response, pageLeft, server, page, printed>>

\* The room given to recv.
Room == RESPONSE - 1

\* response after recv put chunk there, and after response[len] = 0, which
\* would be past its end for a chunk as long as response.
Stored_NoTerminator(chunk) ==
  [i \in 0..RESPONSE - 1 |-> IF i < Len(chunk) THEN chunk[i + 1] ELSE response[i]]
Stored(chunk) ==
  [i \in (0..RESPONSE - 1) \cup {Len(chunk)} |->
     IF i < Len(chunk) THEN chunk[i + 1]
     ELSE IF i = Len(chunk) THEN 0 ELSE response[i]]

\* printf("%s", buf): up to the first NUL.
Text(buf) ==
  LET len == CHOOSE n \in 0..RESPONSE :
               /\ n = RESPONSE \/ buf[n] = 0
               /\ \A i \in 0..n - 1 : buf[i] # 0
  IN [i \in 1..len |-> buf[i - 1]]

\* Any part of what has arrived, as far as there is room.
Recv ==
  /\ http = "recv"
  /\ server # "broken"
  /\ asked = REQUEST
  /\ \E n \in 1..Room :
       /\ n <= Len(pageLeft)
       /\ response' = Stored(SubSeq(pageLeft, 1, n))
       /\ pageLeft' = SubSeq(pageLeft, n + 1, Len(pageLeft))
  /\ printed' = printed \o Text(response')
  /\ UNCHANGED <<http, sock, asked, server, page, cut>>

RecvEnds_Again == FALSE
\* recv returns 0.
RecvEnds ==
  /\ http = "recv"
  /\ server = "closed"
  /\ http' = "close"
  /\ UNCHANGED <<sock, response, net, page, cut, printed>>

\* recv returns an error: the thread returns, without close.
RecvFails ==
  /\ http = "recv"
  /\ server = "broken"
  /\ http' = "returned"
  /\ UNCHANGED <<sock, response, net, page, cut, printed>>

Close ==
  /\ http = "close"
  /\ http' = "returned" /\ sock' = FALSE
  /\ UNCHANGED <<response, net, page, cut, printed>>

thread_http_get ==
  \/ k_sleep \/ getaddrinfo \/ CheckFails \/ Socket \/ Connect
  \/ Send \/ Recv \/ RecvEnds \/ RecvFails \/ Close

-----------------------------------------------------------------------------
(* The server.  It answers a whole request only, then closes; it is not    *)
(* kept waiting for ever for the rest of one.                              *)

ServerEnds ==
  /\ http = "recv"
  /\ server = "up"
  /\ \/ asked = REQUEST /\ pageLeft = <<>> /\ server' = "closed"
     \/ asked < REQUEST /\ server' = "closed"
     \/ server' = "broken"
  /\ UNCHANGED <<http, sock, response, asked, pageLeft, page, cut, printed>>

Next == thread_http_get \/ ServerEnds

-----------------------------------------------------------------------------

\* Every variable has its type; in particular, response is never written past
\* its end.
TypeOK ==
  /\ http \in {"sleep", "resolve", "socket", "connect", "send", "recv", "close",
               "returned", "exited"}
  /\ sock \in BOOLEAN /\ cut \in BOOLEAN
  /\ response \in [0..RESPONSE - 1 -> 0..MaxPage]
  /\ asked \in 0..REQUEST
  /\ page \in Pages /\ IsSuffix(pageLeft, page)
  /\ server \in {"up", "closed", "broken"}
  /\ printed \in Seq(1..MaxPage)

\* response is reused for every chunk, never cleared, and never written past its
\* end: of the page each byte is printed at most once and in order; without a
\* NUL byte in it everything received is printed; and all of it is received
\* unless the connection broke, or a short send cut the request off.
PrintedFaithful ==
  /\ TypeOK
  /\ \A i, j \in 1..Len(printed) : i < j => printed[i] < printed[j]
  /\ 0 \notin Range(page) => printed \o pageLeft = page
  /\ http = "close" => pageLeft = <<>> \/ cut

\* Whatever DHCP, the resolver and the server do, the thread ends; and if it
\* returns, then with its socket closed, unless recv failed.
EventuallyEnds ==
  <>(http = "exited" \/ (http = "returned" /\ (sock => server = "broken")))
=============================================================================
