----------------------------- MODULE Connection -----------------------------
(***************************************************************************)
(* One connection, with its client (fs_client/fs_client.c) and the request *)
(* thread that serves it (fs_server/request_processing.c), and what TCP    *)
(* does in between: a request arrives in pieces, an answer leaves in       *)
(* pieces, either side may be slow or go away.                             *)
(*                                                                         *)
(* The calls of the client library are "get", "save", "ping" and "end".    *)
(* The others stand for what other clients send: a get without a body, an  *)
(* end with one, a packet type (5 or 6) the server lets through but does   *)
(* not know, and a header it refuses (type 0 or greater than 6, too large).*)
(*                                                                         *)
(* A piece of a request is <<call, "header">> or <<call, "body">>.  A      *)
(* piece of an answer is <<call, position, length>>: the first two are the *)
(* header and the response code, or what a file begins with, the others    *)
(* the text of the response, or the rest of the file.                      *)
(***************************************************************************)
EXTENDS Naturals, Sequences, SequencesExt

CONSTANTS
  Calls,       \* the calls clients make, a subset of Kinds
  MaxCalls,    \* bound on the calls of the connection
  SendBuffer   \* the pieces of answers the network holds

Kinds == {"get", "save", "ping", "end",
          "getWithoutBody", "endWithBody", "unknown", "refused"}

ASSUME ConnectionAssumption ==
  Calls \subseteq Kinds /\ MaxCalls \in Nat /\ SendBuffer \in Nat \ {0}

VARIABLES
  phase,     \* the client: "idle", "waiting" for an answer, or "gone"
  kinds,     \* the calls made
  results,   \* what they returned: the pieces read, or <<>> if they failed
  taken,     \* the pieces the open call has read
  toServer,  \* the pieces on their way to the server
  arrived,   \* the pieces the server can read
  server,    \* the thread: "header", "body", "process", "send" or "closed"
  request,   \* the call whose request it has read
  reply,     \* the pieces of the answer it has still to send
  stream     \* the pieces sent and not read

clientVars == <<phase, kinds, results, taken>>
serverVars == <<server, request, reply>>
vars == <<clientVars, serverVars, toServer, arrived, stream>>

Init ==
  /\ phase = "idle" /\ kinds = <<>> /\ results = <<>> /\ taken = <<>>
  /\ toServer = <<>> /\ arrived = <<>> /\ stream = <<>>
  /\ server = "header" /\ request = 0 /\ reply = <<>>

\* The lengths of the answers to a request: a file, a code with an empty text, a
\* code with a text.
Lengths(kind) ==
  CASE kind \in {"get", "save"} -> {3, 4}
    [] kind \in {"ping", "end"} -> {3}
    [] kind \in {"getWithoutBody", "endWithBody"} -> {4}
    [] OTHER -> {}

Answer(n, length) == [k \in 1 .. length |-> <<n, k, length>>]

HasBody == {"get", "save", "endWithBody"}
Ending  == {"end", "endWithBody"}   \* processEndConnectionRequest closes in any case

-----------------------------------------------------------------------------
(***************************************************************************)
(* The client: one call at a time, each one write and one or more reads.   *)
(***************************************************************************)
\* The calls that read sizeof(FSPacketResponseCode) bytes whatever the size says.
Fixed == {"save", "ping", "end"}

Call(kind) ==
  LET n == Len(kinds) + 1 IN
  /\ phase = "idle" /\ Len(kinds) < MaxCalls
  /\ phase' = "waiting"
  /\ kinds' = Append(kinds, kind)
  /\ toServer' = toServer \o IF kind \in HasBody THEN <<<<n, "header">>, <<n, "body">>>>
                                                 ELSE <<<<n, "header">>>>
  /\ UNCHANGED <<results, taken, serverVars, arrived, stream>>

\* The write fails; get and save then leave the socket open.
WriteFails(kind) ==
  /\ phase = "idle" /\ Len(kinds) < MaxCalls
  /\ server = "closed"
  /\ phase' = IF kind \in {"get", "save"} THEN "idle" ELSE "gone"
  /\ kinds' = Append(kinds, kind)
  /\ results' = Append(results, <<>>)
  /\ UNCHANGED <<taken, serverVars, toServer, arrived, stream>>

\* read() until the call has what it waits for.
Needed ==
  CASE Last(kinds) \in Fixed -> 2
    [] Last(kinds) \notin Fixed /\ taken # <<>> -> IF Head(taken)[2] = 1 THEN Head(taken)[3] ELSE 1
    [] OTHER -> 1

Read ==
  /\ phase = "waiting" /\ Len(taken) < Needed
  /\ stream # <<>>
  /\ taken' = Append(taken, Head(stream))
  /\ stream' = Tail(stream)
  /\ UNCHANGED <<phase, kinds, results, serverVars, toServer, arrived>>

Return(pieces, place) ==
  /\ results' = Append(results, pieces)
  /\ phase' = place
  /\ taken' = <<>>
  /\ UNCHANGED <<kinds, serverVars, toServer, arrived, stream>>

\* endConnectionToServer closes its socket, pingServer does not.
ReturnFixedPingOpen ==
  /\ phase = "waiting" /\ Last(kinds) \in Fixed /\ Len(taken) = Needed
  /\ Return(taken, IF Last(kinds) = "end" THEN "gone" ELSE "idle")

\* endConnectionToServer and pingServer close their socket.
ReturnFixed ==
  /\ phase = "waiting" /\ Last(kinds) \in Fixed /\ Len(taken) = Needed
  /\ Return(taken, IF Last(kinds) = "save" THEN "idle" ELSE "gone")

\* readPacketFromSocket, and clients that read an answer by its size.
ReturnWhole ==
  /\ phase = "waiting" /\ Last(kinds) \notin Fixed
  /\ taken # <<>> /\ Head(taken)[2] = 1 /\ Len(taken) = Needed
  /\ Return(taken, "idle")

\* What was read as a header is the text of an earlier response: as a size it is too
\* large, or more than will ever come.
ReturnText ==
  /\ phase = "waiting" /\ Last(kinds) \notin Fixed
  /\ taken # <<>> /\ Head(taken)[2] # 1
  /\ Return(<<>>, "gone")

\* The server has closed before all came.
ReadFails ==
  /\ phase = "waiting" /\ Len(taken) < Needed
  /\ server = "closed" /\ stream = <<>>
  /\ Return(<<>>, "gone")

\* The client ends, or gives up its connection.
Leave ==
  /\ phase # "gone"
  /\ phase' = "gone"
  /\ UNCHANGED <<kinds, results, taken, serverVars, toServer, arrived, stream>>

Arrive ==
  /\ toServer # <<>>
  /\ arrived' = Append(arrived, Head(toServer))
  /\ toServer' = Tail(toServer)
  /\ UNCHANGED <<clientVars, serverVars, stream>>

-----------------------------------------------------------------------------
(***************************************************************************)
(* The request thread: processRequest until it says to close.              *)
(***************************************************************************)
\* Closing with unread input resets the connection, and what was sent may be lost.
Close ==
  /\ server' = "closed"
  /\ reply' = <<>>
  /\ stream' \in IF arrived \o toServer = <<>> THEN {stream} ELSE {stream, <<>>}
  /\ UNCHANGED <<clientVars, request, toServer, arrived>>

NextRequest ==
  /\ reply' = <<>>
  /\ server' = "header"

ReadHeader ==
  /\ server = "header" /\ arrived # <<>>
  /\ request' = Head(arrived)[1]
  /\ arrived' = Tail(arrived)
  /\ server' = CASE kinds[request'] = "refused" -> "closed"
                 [] kinds[request'] \in HasBody -> "body"
                 [] OTHER -> "process"
  /\ UNCHANGED <<clientVars, reply, toServer, stream>>

\* A read that is told only of the end of the connection.
HeaderAtEnd ==
  /\ server = "header" /\ arrived \o toServer = <<>> /\ phase = "gone"
  /\ Close

\* No header within the request arrival timeout, or the client is gone.
HeaderLate ==
  /\ server = "header" /\ arrived = <<>>
  /\ Close

ReadBody ==
  /\ server = "body" /\ arrived # <<>>
  /\ arrived' = Tail(arrived)
  /\ server' = "process"
  /\ UNCHANGED <<clientVars, request, reply, toServer, stream>>

\* Back to the next request when the body is late.
BodySkipped ==
  /\ server = "body" /\ arrived = <<>>
  /\ NextRequest
  /\ UNCHANGED <<clientVars, request, toServer, arrived, stream>>

\* No body within the connection timeout, or the client is gone, or no memory for it.
BodyLost ==
  /\ server = "body"
  /\ Close

\* The TCP_QUICKACK option cannot be set: no answer, and on to the next request.
QuickAckFails ==
  /\ server = "process"
  /\ NextRequest
  /\ UNCHANGED <<clientVars, request, toServer, arrived, stream>>

Process ==
  /\ server = "process"
  /\ \/ \E length \in Lengths(kinds[request]) :
          /\ reply' = Answer(request, length)
          /\ server' = "send"
     \/ Lengths(kinds[request]) = {} /\ NextRequest
  /\ UNCHANGED <<clientVars, request, toServer, arrived, stream>>

\* A write that does not wait until the socket is ready.
SendAtOnce ==
  /\ server = "send"
  /\ stream' = Append(stream, Head(reply))
  /\ reply' = Tail(reply)
  /\ server' = IF Len(reply) > 1 THEN "send"
               ELSE IF kinds[request] \in Ending THEN "closed" ELSE "header"
  /\ UNCHANGED <<clientVars, request, toServer, arrived>>

Send ==
  /\ Len(stream) < SendBuffer
  /\ SendAtOnce

\* The rest of the answer is given up: the connection timeout, or the client is gone.
\* The connection stays open.
SendFails ==
  /\ server = "send" /\ (Len(stream) >= SendBuffer \/ phase = "gone")
  /\ IF kinds[request] \in Ending THEN Close
     ELSE NextRequest /\ UNCHANGED <<clientVars, request, toServer, arrived, stream>>

-----------------------------------------------------------------------------
Client  == Read \/ ReturnFixed \/ ReturnWhole \/ ReturnText \/ ReadFails
Waiting == HeaderLate \/ BodyLost \/ SendFails
Serving == ReadHeader \/ ReadBody \/ Process \/ Send

Next ==
  \/ \E kind \in Calls : Call(kind) \/ WriteFails(kind)
  \/ Client \/ Leave \/ Arrive
  \/ Serving \/ Waiting \/ QuickAckFails

\* A client reads what has come for it; the network delivers; the thread runs, and
\* every wait of its has a timeout.  Nobody need call, leave or fail.
Fairness ==
  /\ WF_vars(Client) /\ WF_vars(Arrive)
  /\ WF_vars(Serving) /\ WF_vars(Waiting)

Spec == Init /\ [][Next]_vars /\ Fairness

-----------------------------------------------------------------------------
(***************************************************************************)
(* Properties                                                              *)
(***************************************************************************)
Pieces == (1 .. MaxCalls) \X {"header", "body"}
Cells  == (1 .. MaxCalls) \X (1 .. 4) \X (3 .. 4)

TypeOK ==
  /\ phase \in {"idle", "waiting", "gone"}
  /\ kinds \in Seq(Calls) /\ results \in Seq(Seq(Cells)) /\ taken \in Seq(Cells)
  /\ phase = "idle" => Len(results) = Len(kinds)
  /\ phase = "waiting" => Len(results) = Len(kinds) - 1
  /\ toServer \in Seq(Pieces) /\ arrived \in Seq(Pieces)
  /\ server \in {"header", "body", "process", "send", "closed"}
  /\ request \in 0 .. MaxCalls /\ reply \in Seq(Cells)
  /\ stream \in Seq(Cells) /\ Len(stream) <= SendBuffer

\* The server and its client agree on where a request begins: what the server reads
\* as a header is one, and as a body is the body of that request, however late or
\* incomplete requests arrive.
Framed ==
  arrived # <<>> =>
    /\ server = "header" => Head(arrived)[2] = "header"
    /\ server = "body" => Head(arrived) = <<request, "body">>

\* A call that returns an answer returns the answer to its own request, unless an
\* earlier call on the connection was a save, which leaves the text of its response
\* unread for the next call.
OwnAnswer ==
  \A n \in DOMAIN results :
    \/ \A k \in DOMAIN results[n] : results[n][k][1] = n /\ results[n][k][2] = k
    \/ \E m \in 1 .. n - 1 : kinds[m] = "save"

\* A call returns, also when its request is one the server answers with nothing.
CallReturns == phase = "waiting" ~> phase # "waiting"
=============================================================================
