----------------------------- MODULE HttpServer -----------------------------
(***************************************************************************)
(* The single-threaded HTTP server: it accepts a connection, discards the  *)
(* request byte by byte until req_state has seen CR LF CR LF, sends        *)
(* content, and closes.  The clients and the TCP stack are the environment.*)
(*                                                                         *)
(* What a client does before it is accepted is the same to the server as   *)
(* doing it right afterwards, so only the accepted client has a state.     *)
(* recv failing with EAGAIN or EINTR only repeats the loop.                *)
(***************************************************************************)
EXTENDS Integers, Sequences

CONSTANTS
  CONTENT,     \* sizeof(content)
  BACKLOG,     \* connections that listen lets wait
  MaxClients,  \* bound: connections
  MaxRequest   \* bound: bytes a client sends

ASSUME SizesAssumption == CONTENT \in Nat /\ BACKLOG \in Nat \ {0}
ASSUME BoundsAssumption == MaxClients \in Nat /\ MaxRequest \in Nat

Byte == {"cr", "lf", "x"}
END == <<"cr", "lf", "cr", "lf">>   \* what ends a request

VARIABLES
  server,      \* control point of thread_socket_dumb_http
  req_state,   \* how much of the end of a request was matched
  data, len,   \* next byte of content to send, and how many are left
  client,      \* the accepted client: "none", "open", "shut" or "reset"
  inbox,       \* bytes it sent and the server has not received
  connected,   \* connections made
  handled,     \* connections that accept returned, or lost
  \* History, read by the properties only:
  request,     \* bytes received from the accepted client
  page         \* the bytes of content sent to it, as their positions

loopVars == <<req_state, data, len>>
vars == <<server, loopVars, client, inbox, connected, handled, request, page>>

Init ==
  /\ server = "start"
  /\ req_state = 0 /\ data = 0 /\ len = 0
  /\ client = "none" /\ inbox = <<>>
  /\ connected = 0 /\ handled = 0
  /\ request = <<>> /\ page = <<>>

-----------------------------------------------------------------------------

\* socket, bind or listen fails: CHECK calls exit, which does not return.
SetupFails ==
  /\ server = "start"
  /\ server' = "exited"
  /\ UNCHANGED <<loopVars, client, inbox, connected, handled, request, page>>

Listen ==
  /\ server = "start"
  /\ server' = "accept"
  /\ UNCHANGED <<loopVars, client, inbox, connected, handled, request, page>>

\* accept takes the next connection, or fails and the loop continues.
Accept ==
  /\ server = "accept"
  /\ handled < connected
  /\ handled' = handled + 1
  /\ \/ server' = "recv" /\ client' = "open"
     \/ UNCHANGED <<server, client>>
  /\ req_state' = 0
  /\ inbox' = <<>> /\ request' = <<>> /\ page' = <<>>
  /\ UNCHANGED <<data, len, connected>>

\* The chain of ifs: the expected byte advances req_state, any other resets it.
NextState_KeepOnMismatch(s, c) == IF c = END[s + 1] THEN s + 1 ELSE s
NextState(s, c) == IF c = END[s + 1] THEN s + 1 ELSE 0

\* sizeof(content), of an array that has no NUL after the page.
ContentLength == CONTENT

\* A byte of the request; after the last one, the page is next.
Recv ==
  /\ server = "recv"
  /\ inbox # <<>>
  /\ inbox' = Tail(inbox)
  /\ request' = Append(request, Head(inbox))
  /\ IF NextState(req_state, Head(inbox)) = 4
       THEN /\ server' = "send"
            /\ data' = 0 /\ len' = ContentLength
            /\ UNCHANGED req_state
       ELSE /\ req_state' = NextState(req_state, Head(inbox))
            /\ UNCHANGED <<server, data, len>>
  /\ UNCHANGED <<client, connected, handled, page>>

RecvEnds_Retry == FALSE
\* recv returns 0, or an error: close_client.
RecvEnds ==
  /\ server = "recv"
  /\ client = "reset" \/ (client = "shut" /\ inbox = <<>>)
  /\ server' = "close"
  /\ UNCHANGED <<loopVars, client, inbox, connected, handled, request, page>>

\* send took n bytes.
Advance_LenOnly(n) == data' = data /\ len' = len - n
Advance(n) == data' = data + n /\ len' = len - n

Send ==
  /\ server = "send"
  /\ len # 0
  /\ client # "reset"
  /\ \E n \in 1..len :
       /\ Advance(n)
       /\ page' = page \o [i \in 1..n |-> data + i]
  /\ UNCHANGED <<server, req_state, client, inbox, connected, handled, request>>

\* Everything is sent, or send failed.
SendEnds ==
  /\ server = "send"
  /\ len = 0 \/ client = "reset"
  /\ server' = "close"
  /\ UNCHANGED <<loopVars, client, inbox, connected, handled, request, page>>

\* close, whatever it returns; then the next connection.
Close ==
  /\ server = "close"
  /\ server' = "accept"
  /\ client' = "none"
  /\ UNCHANGED <<loopVars, inbox, connected, handled, request, page>>

thread_socket_dumb_http ==
  SetupFails \/ Listen \/ Accept \/ Recv \/ RecvEnds \/ Send \/ SendEnds \/ Close

-----------------------------------------------------------------------------
(* The clients.                                                            *)

Connects ==
  /\ server \notin {"start", "exited"}
  /\ connected < MaxClients
  /\ connected - handled < BACKLOG
  /\ connected' = connected + 1
  /\ UNCHANGED <<server, loopVars, client, inbox, handled, request, page>>

Requests ==
  /\ client = "open"
  /\ Len(request \o inbox) < MaxRequest
  /\ \E c \in Byte : inbox' = Append(inbox, c)
  /\ UNCHANGED <<server, loopVars, client, connected, handled, request, page>>

\* It sends no more, or breaks the connection.
Leaves ==
  /\ \/ client = "open" /\ client' = "shut"
     \/ client \in {"open", "shut"} /\ client' = "reset"
  /\ UNCHANGED <<server, loopVars, inbox, connected, handled, request, page>>

Next == thread_socket_dumb_http \/ Connects \/ Requests \/ Leaves

Spec == Init /\ [][Next]_vars

\* The server has no timeout: an accepted client has to finish sending some day.
FairSpec ==
  /\ Spec
  /\ WF_vars(thread_socket_dumb_http)
  /\ WF_vars(client = "open" /\ Leaves)

-----------------------------------------------------------------------------

\* Every variable has its type, and data and len stay within content.
TypeOK ==
  /\ server \in {"start", "exited", "accept", "recv", "send", "close"}
  /\ req_state \in 0..3
  /\ data \in 0..CONTENT /\ len \in 0..CONTENT
  /\ client \in {"none", "open", "shut", "reset"}
  /\ inbox \in Seq(Byte) /\ request \in Seq(Byte)
  /\ connected \in Nat /\ handled \in 0..connected
  /\ page \in Seq(1..CONTENT)

\* The last n bytes of s are the first n of the end of a request.
Matched(s, n) == n <= Len(s) /\ \A i \in 1..n : s[Len(s) - n + i] = END[i]

\* No CR right after a CR: there, the reset of req_state forgets the second one.
NoCrCr(s) == \A i \in 1..Len(s) - 1 : ~(s[i] = "cr" /\ s[i + 1] = "cr")

\* req_state against its reference, the longest part of the end matched so far:
\* it never claims more, so that the page is sent only after a complete
\* request, and no less either unless a CR followed a CR.
MatchesReference ==
  /\ server = "recv" => Matched(request, req_state)
  /\ server = "recv" /\ NoCrCr(request) =>
       \A n \in req_state + 1..4 : ~Matched(request, n)
  /\ server = "send" => Matched(request, 4)

\* However send cuts it, the client gets the bytes of content in order, each
\* once, and all of them unless it breaks the connection; nothing past the end
\* of content is ever sent.
PageExact ==
  /\ TypeOK
  /\ page = [i \in 1..Len(page) |-> i]
  /\ server = "send" => Len(page) = data /\ data + len = CONTENT
  /\ server = "close" /\ Len(page) \notin {0, CONTENT} => client = "reset"

\* Every connection is taken from the backlog, after any sequence of clients
\* that sent nothing, half a request or too much, or went away.
EventuallyHandled ==
  \A n \in 1..MaxClients : (connected >= n) ~> (handled >= n)
=============================================================================
