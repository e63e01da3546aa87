--------------------------- MODULE ConnectionProofs ---------------------------
(***************************************************************************)
(* The server and its client agree on where a request begins, and a call   *)
(* returns the answer to its own request, for any number of calls and any  *)
(* size of the network's buffers.                                          *)
(*                                                                         *)
(* What is on its way to the server is a sequence of whole requests, of    *)
(* which the thread may have read the header of the first: that is the     *)
(* first invariant.  It does not depend on the answers, or on the client's *)
(* reading them.                                                           *)
(*                                                                         *)
(* At the end: the answers are sent in the order of the calls, none twice, *)
(* also after the answer to a save was left unread.                        *)
(***************************************************************************)
EXTENDS Connection, SequenceTheorems, TLAPS

\* The pieces on their way to the server, and those it can read.
Incoming == arrived \o toServer

\* A header of a call with a body is followed by that body, and nothing else is.
WholeRequests(w, ks) ==
  /\ \A k \in 1 .. Len(w) : w[k][1] \in 1 .. Len(ks)
  /\ \A k \in 1 .. Len(w) :
       w[k][2] = "header" /\ ks[w[k][1]] \in HasBody
         => k < Len(w) /\ w[k + 1] = <<w[k][1], "body">>
  /\ \A k \in 1 .. Len(w) - 1 :
       w[k + 1][2] = "body" => w[k][2] = "header" /\ ks[w[k][1]] \in HasBody

\* Where the thread is in its request is where the incoming pieces are.
InStep(w) ==
  /\ server = "body" => w # <<>> /\ w[1] = <<request, "body">>
  /\ server \in {"header", "process", "send"} /\ w # <<>> => w[1][2] = "header"

WireOK ==
  /\ kinds \in Seq(Calls) /\ Len(kinds) <= MaxCalls
  /\ arrived \in Seq(Pieces) /\ toServer \in Seq(Pieces)
  /\ server \in {"header", "body", "process", "send", "closed"}

FrameInv == WireOK /\ WholeRequests(Incoming, kinds) /\ InStep(Incoming)

\* The incoming pieces, one by one.
LEMMA IncomingSeq ==
  ASSUME WireOK
  PROVE  /\ Incoming \in Seq(Pieces)
         /\ Len(Incoming) = Len(arrived) + Len(toServer)
         /\ Len(arrived) \in Nat /\ Len(toServer) \in Nat
         /\ \A k \in 1 .. Len(Incoming) :
              Incoming[k] = IF k <= Len(arrived) THEN arrived[k] ELSE toServer[k - Len(arrived)]
BY ConcatProperties, LenProperties DEF WireOK, Incoming

\* A new connection has nothing in it.
LEMMA InitFrameInv == Init => FrameInv
<1> SUFFICES ASSUME Init PROVE FrameInv
  OBVIOUS
<1>1. Len(<<>>) = 0 /\ <<>> \in Seq(Calls) /\ <<>> \in Seq(Pieces)
  BY EmptySeq
<1>2. WireOK
  BY <1>1, ConnectionAssumption DEF Init, WireOK
<1>3. Incoming = <<>> /\ Len(Incoming) = 0
  BY <1>1, <1>2, IncomingSeq DEF Init
<1> QED
  BY <1>2, <1>3 DEF FrameInv, WholeRequests, InStep, Init

\* A step of the thread that reads nothing keeps its place.
LEMMA NothingRead ==
  ASSUME FrameInv, UNCHANGED <<kinds, toServer, arrived>>,
         \/ server' = server /\ request' = request
         \/ server' = "closed"
         \/ server # "closed" /\ server # "body" /\ server' \in {"header", "process", "send"}
  PROVE  FrameInv'
<1>1. WireOK'
  BY DEF FrameInv, WireOK
<1>2. Incoming' = Incoming
  BY DEF Incoming
<1>3. server \in {"header", "body", "process", "send", "closed"}
  BY DEF FrameInv, WireOK
<1> QED
  BY <1>1, <1>2, <1>3 DEF FrameInv, WholeRequests, InStep

\* Reading a piece takes it off the incoming ones.
LEMMA ReadTakesHead ==
  ASSUME WireOK, arrived # <<>>, arrived' = Tail(arrived), UNCHANGED toServer
  PROVE  /\ Len(Incoming) > 0 /\ Incoming[1] = Head(arrived) /\ Incoming # <<>>
         /\ arrived' \in Seq(Pieces)
         /\ Len(Incoming)' = Len(Incoming) - 1
         /\ \A k \in 1 .. Len(Incoming) - 1 : Incoming'[k] = Incoming[k + 1]
<1>1. /\ Incoming \in Seq(Pieces)
      /\ Len(Incoming) = Len(arrived) + Len(toServer)
      /\ Len(arrived) \in Nat /\ Len(toServer) \in Nat
      /\ \A k \in 1 .. Len(Incoming) :
           Incoming[k] = IF k <= Len(arrived) THEN arrived[k] ELSE toServer[k - Len(arrived)]
  BY IncomingSeq
<1>2. /\ Tail(arrived) \in Seq(Pieces) /\ Len(Tail(arrived)) = Len(arrived) - 1
      /\ \A k \in 1 .. Len(Tail(arrived)) : Tail(arrived)[k] = arrived[k + 1]
  BY HeadTailProperties DEF WireOK
<1>3. Len(arrived) > 0 /\ Head(arrived) = arrived[1]
  BY EmptySeq DEF WireOK
<1>4. Incoming' = Tail(arrived) \o toServer
  BY DEF Incoming
<1>5. /\ Len(Incoming') = Len(arrived) - 1 + Len(toServer)
      /\ \A k \in 1 .. Len(Incoming') :
           Incoming'[k] = IF k <= Len(arrived) - 1 THEN Tail(arrived)[k]
                                                  ELSE toServer[k - (Len(arrived) - 1)]
  BY <1>2, <1>4, ConcatProperties DEF WireOK
<1>6. \A k \in 1 .. Len(Incoming) - 1 : Incoming'[k] = Incoming[k + 1]
  <2> TAKE k \in 1 .. Len(Incoming) - 1
  <2>1. k \in 1 .. Len(Incoming') /\ k + 1 \in 1 .. Len(Incoming)
    BY <1>1, <1>5
  <2>2. CASE k <= Len(arrived) - 1
    BY <1>1, <1>2, <1>5, <2>1, <2>2
  <2>3. CASE ~ (k <= Len(arrived) - 1)
    <3>1. k - (Len(arrived) - 1) = (k + 1) - Len(arrived)
      BY <1>1
    <3> QED
      BY <1>1, <1>5, <2>1, <2>3, <3>1
  <2> QED
    BY <2>2, <2>3
<1> QED
  BY <1>1, <1>2, <1>3, <1>5, <1>6, EmptySeq

\* The kinds of the calls made stay what they are.
LEMMA KindsGrow ==
  ASSUME WireOK, NEW kind \in Calls, Len(kinds) < MaxCalls, kinds' = Append(kinds, kind)
  PROVE  /\ kinds' \in Seq(Calls) /\ Len(kinds) \in Nat /\ Len(kinds') = Len(kinds) + 1
         /\ Len(kinds') <= MaxCalls
         /\ \A n \in 1 .. Len(kinds) : kinds'[n] = kinds[n]
         /\ kinds'[Len(kinds) + 1] = kind
BY AppendProperties, LenProperties, ConnectionAssumption DEF WireOK

\* The pieces of a call, in the order in which they are written.
PiecesOf(n, kind) == IF kind \in HasBody THEN <<<<n, "header">>, <<n, "body">>>>
                                         ELSE <<<<n, "header">>>>

\* One more call was made.
OneCallMore(ks, ks2) ==
  Len(ks2) = Len(ks) + 1 /\ \A m \in 1 .. Len(ks) : ks2[m] = ks[m]

\* Whole requests, with one more after them, are whole requests.
LEMMA OneMore ==
  ASSUME NEW w \in Seq(Pieces), NEW ks \in Seq(Calls), WholeRequests(w, ks),
         NEW ks2 \in Seq(Calls), OneCallMore(ks, ks2),
         NEW p \in Seq(Pieces), p = PiecesOf(Len(ks2), ks2[Len(ks2)])
  PROVE  /\ WholeRequests(w \o p, ks2)
         /\ w \o p # <<>>
         /\ (w \o p)[1] = IF w = <<>> THEN <<Len(ks2), "header">> ELSE w[1]
<1> DEFINE q == w \o p
<1>n. PICK n \in Nat : /\ n = Len(ks) + 1 /\ Len(ks2) = n
                       /\ \A m \in 1 .. Len(ks) : ks2[m] = ks[m]
  BY LenProperties DEF OneCallMore
<1>0. PICK kind : kind = ks2[n]
  OBVIOUS
<1>1. PICK l \in Nat : l = Len(w)
  BY <1>n, LenProperties
<1>2. PICK d \in {1, 2} : d = Len(p) /\ d = (IF kind \in HasBody THEN 2 ELSE 1)
  BY <1>n, <1>0 DEF PiecesOf
<1>3. p[1] = <<n, "header">> /\ (d = 2 => p[2] = <<n, "body">>)
  BY <1>n, <1>0, <1>2 DEF PiecesOf
<1>4. /\ q \in Seq(Pieces) /\ Len(q) = l + d
      /\ \A k \in 1 .. Len(q) : q[k] = IF k <= l THEN w[k] ELSE p[k - l]
  <2>1. /\ w \o p \in Seq(Pieces) /\ Len(w \o p) = Len(w) + Len(p)
        /\ \A k \in 1 .. Len(w) + Len(p) :
             (w \o p)[k] = IF k <= Len(w) THEN w[k] ELSE p[k - Len(w)]
    BY ConcatProperties
  <2> QED
    BY <1>1, <1>2, <2>1
<1> HIDE DEF q
<1>5. q[l + 1] = <<n, "header">> /\ (d = 2 => q[l + 2] = <<n, "body">>)
  <2>1. q[l + 1] = p[1]
    <3>1. l + 1 \in 1 .. Len(q) /\ ~ (l + 1 <= l) /\ (l + 1) - l = 1
      BY <1>2, <1>4
    <3> QED
      BY <1>4, <3>1
  <2>2. ASSUME d = 2 PROVE q[l + 2] = p[2]
    <3>1. l + 2 \in 1 .. Len(q) /\ ~ (l + 2 <= l) /\ (l + 2) - l = 2
      BY <1>2, <1>4, <2>2
    <3> QED
      BY <1>4, <3>1
  <2> QED
    BY <1>3, <2>1, <2>2
<1>6. \A k \in 1 .. l : q[k] = w[k]
  BY <1>2, <1>4
<1>7. \A k \in 1 .. l : w[k][1] \in 1 .. Len(ks) /\ ks2[w[k][1]] = ks[w[k][1]]
  BY <1>n, <1>1 DEF WholeRequests
<1>8. Len(ks) \in Nat
  BY <1>n, LenProperties
<1>9. ASSUME NEW k \in 1 .. Len(q) PROVE k \in 1 .. l \/ k = l + 1 \/ (k = l + 2 /\ d = 2)
  BY <1>n, <1>2, <1>4
<1>10. ASSUME NEW k \in 1 .. Len(q) PROVE q[k][1] \in 1 .. Len(ks2)
  <2>1. CASE k \in 1 .. l
    <3>1. w[k][1] \in 1 .. Len(ks)
      BY <1>n, <1>7, <2>1
    <3> QED
      BY <1>n, <1>6, <1>8, <2>1, <3>1
  <2>2. CASE k = l + 1
    BY <1>n, <1>5, <1>8, <2>2
  <2>3. CASE k = l + 2 /\ d = 2
    BY <1>n, <1>5, <1>8, <2>3
  <2> QED
    BY <1>n, <1>9, <2>1, <2>2, <2>3
<1>11. ASSUME NEW k \in 1 .. Len(q), q[k][2] = "header", ks2[q[k][1]] \in HasBody
       PROVE  k < Len(q) /\ q[k + 1] = <<q[k][1], "body">>
  <2>1. CASE k \in 1 .. l
    <3>1. w[k][2] = "header" /\ ks[w[k][1]] \in HasBody
      BY <1>n, <1>6, <1>7, <1>11, <2>1
    <3>2. k < l /\ w[k + 1] = <<w[k][1], "body">>
      BY <1>n, <1>1, <2>1, <3>1 DEF WholeRequests
    <3>3. k + 1 \in 1 .. l /\ k < Len(q)
      BY <1>n, <1>2, <1>4, <2>1, <3>2
    <3> QED
      BY <1>n, <1>6, <2>1, <3>2, <3>3
  <2>2. CASE k = l + 1
    <3>1. q[k] = <<n, "header">>
      BY <1>n, <1>5, <2>2
    <3>2. d = 2
      <4>1. q[k][1] = n
        BY <1>n, <3>1
      <4>2. kind \in HasBody
        BY <1>n, <1>0, <1>11, <4>1
      <4> QED
        BY <1>n, <1>2, <4>2
    <3>3. k < Len(q) /\ k + 1 = l + 2
      BY <1>n, <1>4, <2>2, <3>2
    <3> QED
      BY <1>n, <1>5, <3>1, <3>2, <3>3
  <2>3. CASE k = l + 2 /\ d = 2
    BY <1>n, <1>5, <1>11, <2>3
  <2> QED
    BY <1>n, <1>9, <2>1, <2>2, <2>3
<1>12. ASSUME NEW k \in 1 .. Len(q) - 1, q[k + 1][2] = "body"
       PROVE  q[k][2] = "header" /\ ks2[q[k][1]] \in HasBody
  <2>1. CASE k + 1 \in 1 .. l
    <3>1. k \in 1 .. l /\ k \in 1 .. Len(w) - 1
      BY <1>n, <1>1, <2>1
    <3>2. w[k][2] = "header" /\ ks[w[k][1]] \in HasBody
      BY <1>n, <1>6, <1>12, <2>1, <3>1 DEF WholeRequests
    <3> QED
      BY <1>n, <1>6, <1>7, <3>1, <3>2
  <2>2. CASE k + 1 = l + 1
    BY <1>n, <1>5, <1>12, <2>2
  <2>3. CASE k + 1 = l + 2 /\ d = 2
    <3>1. k = l + 1 /\ kind \in HasBody
      BY <1>n, <1>2, <2>3
    <3> QED
      BY <1>n, <1>0, <1>5, <3>1
  <2>4. k + 1 \in 1 .. Len(q)
    BY <1>n, <1>2, <1>4
  <2> QED
    BY <1>n, <1>9, <2>1, <2>2, <2>3, <2>4
<1>13. WholeRequests(q, ks2)
  BY <1>n, <1>10, <1>11, <1>12 DEF WholeRequests
<1>14. q # <<>> /\ q[1] = IF w = <<>> THEN <<n, "header">> ELSE w[1]
  <2>1. q # <<>>
    BY <1>n, <1>2, <1>4
  <2>2. CASE w = <<>>
    BY <1>n, <1>1, <1>5, <2>1, <2>2
  <2>3. CASE w # <<>>
    <3>1. 1 \in 1 .. l
      BY <1>n, <1>1, <2>3, EmptySeq
    <3> QED
      BY <1>n, <1>6, <2>1, <2>3, <3>1
  <2> QED
    BY <1>n, <2>2, <2>3, <2>1
<1> QED
  BY <1>n, <1>13, <1>14 DEF q

\* A call puts its pieces behind all others.
LEMMA CallSends ==
  ASSUME WireOK, NEW kind \in Calls, Call(kind)
  PROVE  \E p \in Seq(Pieces) : /\ p = PiecesOf(Len(kinds) + 1, kind)
                                /\ toServer' = toServer \o p /\ Incoming' = Incoming \o p
<1>1. PICK n \in Nat : n = Len(kinds) + 1
  BY LenProperties DEF WireOK
<1>2. n <= MaxCalls /\ kinds \in Seq(Calls)
  BY <1>1, KindsGrow DEF Call, WireOK
<1>3. <<n, "header">> \in Pieces /\ <<n, "body">> \in Pieces
  <2>1. Len(kinds) \in Nat
    BY <1>2, LenProperties
  <2> QED
    BY <1>1, <1>2, <2>1, ConnectionAssumption DEF Pieces
<1>4. PICK p \in Seq(Pieces) : p = PiecesOf(n, kind)
  <2>1. CASE kind \in HasBody
    <3>1. <<<<n, "header">>, <<n, "body">>>> \in Seq(Pieces)
      BY <1>3
    <3> QED
      BY <2>1, <3>1 DEF PiecesOf
  <2>2. CASE kind \notin HasBody
    <3>1. <<<<n, "header">>>> \in Seq(Pieces)
      BY <1>3
    <3> QED
      BY <2>2, <3>1 DEF PiecesOf
  <2> QED
    BY <2>1, <2>2
<1>5. toServer' = toServer \o p /\ UNCHANGED arrived
  BY <1>1, <1>4 DEF Call, PiecesOf
<1>6. arrived \in Seq(Pieces) /\ toServer \in Seq(Pieces)
  BY DEF WireOK
<1>7. Incoming' = Incoming \o p
  <2>1. arrived \o (toServer \o p) = (arrived \o toServer) \o p
    <3>1. \A x, y, z \in Seq(Pieces) : x \o (y \o z) = (x \o y) \o z
      BY ConcatAssociative
    <3> QED
      BY <1>4, <1>6, <3>1, Zenon
  <2> QED
    BY <1>5, <2>1, Zenon DEF Incoming
<1> QED
  BY <1>1, <1>4, <1>5, <1>7

\* A call appends a whole request.
LEMMA CallKeeps ==
  ASSUME FrameInv, NEW kind \in Calls, Call(kind)
  PROVE  FrameInv'
<1>1. WireOK /\ WholeRequests(Incoming, kinds) /\ InStep(Incoming)
  BY DEF FrameInv
<1>2. PICK n \in Nat : n = Len(kinds) + 1
  BY <1>1, LenProperties DEF WireOK
<1>3. /\ kinds' \in Seq(Calls) /\ Len(kinds') = n /\ n <= MaxCalls
      /\ \A m \in 1 .. Len(kinds) : kinds'[m] = kinds[m]
      /\ kinds'[n] = kind /\ kinds \in Seq(Calls)
  BY <1>1, <1>2, KindsGrow DEF Call, WireOK
<1>4. PICK p \in Seq(Pieces) : /\ p = PiecesOf(n, kind)
                               /\ toServer' = toServer \o p /\ Incoming' = Incoming \o p
  BY <1>1, <1>2, CallSends
<1>5. UNCHANGED <<arrived, server, request>>
  BY DEF Call, serverVars
<1>6. arrived \in Seq(Pieces) /\ toServer \in Seq(Pieces) /\ Incoming \in Seq(Pieces)
  BY <1>1, IncomingSeq DEF WireOK
<1>7. WireOK'
  <2>1. toServer \o p \in Seq(Pieces)
    BY <1>6, ConcatProperties
  <2> QED
    BY <1>1, <1>3, <1>4, <1>5, <2>1 DEF WireOK
<1>8. /\ WholeRequests(Incoming', kinds')
       /\ Incoming' # <<>>
       /\ Incoming'[1] = IF Incoming = <<>> THEN <<n, "header">> ELSE Incoming[1]
  <2>1. PICK w \in Seq(Pieces), ks \in Seq(Calls), ks2 \in Seq(Calls) :
          w = Incoming /\ ks = kinds /\ ks2 = kinds'
    BY <1>3, <1>6
  <2>2. WholeRequests(w, ks)
    BY <1>1, <2>1 DEF WholeRequests
  <2>3. /\ WholeRequests(w \o p, ks2)
        /\ w \o p # <<>>
        /\ (w \o p)[1] = IF w = <<>> THEN <<n, "header">> ELSE w[1]
    <3>1. Len(ks2) = n /\ p = PiecesOf(Len(ks2), ks2[Len(ks2)])
      BY <1>3, <1>4, <2>1
    <3>2. OneCallMore(ks, ks2)
      BY <1>2, <1>3, <2>1 DEF OneCallMore
    <3>3. /\ WholeRequests(w \o p, ks2)
          /\ w \o p # <<>>
          /\ (w \o p)[1] = IF w = <<>> THEN <<Len(ks2), "header">> ELSE w[1]
      BY <2>2, <3>1, <3>2, OneMore
    <3> QED
      BY <3>1, <3>3
  <2> QED
    BY <1>4, <2>1, <2>3 DEF WholeRequests
<1>9. InStep(Incoming)'
  BY <1>1, <1>5, <1>8 DEF InStep
<1>10. WholeRequests(Incoming, kinds)'
  BY <1>8 DEF WholeRequests
<1> QED
  BY <1>7, <1>9, <1>10 DEF FrameInv

\* What arrives was on its way.
LEMMA ArriveMoves ==
  ASSUME WireOK, Arrive
  PROVE  WireOK' /\ Incoming' = Incoming
<1>1. /\ WireOK /\ toServer # <<>> /\ arrived' = Append(arrived, Head(toServer))
      /\ toServer' = Tail(toServer) /\ UNCHANGED <<kinds, server, request>>
  BY DEF Arrive, clientVars, serverVars
<1>2. /\ Len(toServer) \in Nat /\ Len(toServer) > 0 /\ Head(toServer) = toServer[1]
      /\ Head(toServer) \in Pieces
      /\ Tail(toServer) \in Seq(Pieces) /\ Len(Tail(toServer)) = Len(toServer) - 1
      /\ \A k \in 1 .. Len(Tail(toServer)) : Tail(toServer)[k] = toServer[k + 1]
  BY <1>1, HeadTailProperties, EmptySeq DEF WireOK
<1>3. /\ Append(arrived, Head(toServer)) \in Seq(Pieces)
      /\ Len(Append(arrived, Head(toServer))) = Len(arrived) + 1
      /\ \A k \in 1 .. Len(arrived) : Append(arrived, Head(toServer))[k] = arrived[k]
      /\ Append(arrived, Head(toServer))[Len(arrived) + 1] = Head(toServer)
  BY <1>1, <1>2, AppendProperties DEF WireOK
<1>4. WireOK'
  BY <1>1, <1>2, <1>3 DEF WireOK
<1>5. PICK t \in Seq(Pieces), h \in Pieces : t = Tail(toServer) /\ h = Head(toServer)
  BY <1>2
<1>6. toServer = <<h>> \o t /\ <<h>> \in Seq(Pieces)
  BY <1>1, <1>2, <1>5 DEF WireOK
<1>7. arrived \in Seq(Pieces) /\ arrived' = arrived \o <<h>>
  <2>1. Append(arrived, h) = arrived \o <<h>>
    BY <1>1, <1>5 DEF WireOK
  <2> QED
    BY <1>1, <1>5, <2>1 DEF WireOK
<1>8. Incoming' = Incoming
  BY <1>1, <1>5, <1>6, <1>7, ConcatAssociative DEF Incoming
<1> QED
  BY <1>4, <1>8

LEMMA ArriveKeeps ==
  ASSUME FrameInv, Arrive
  PROVE  FrameInv'
<1>1. WireOK' /\ Incoming' = Incoming /\ UNCHANGED <<kinds, server, request>>
  BY ArriveMoves DEF FrameInv, Arrive, clientVars, serverVars
<1> QED
  BY <1>1 DEF FrameInv, WholeRequests, InStep

\* Reading the first piece leaves whole requests, after the one that was begun.
LEMMA ReadKeeps ==
  ASSUME FrameInv, arrived # <<>>, arrived' = Tail(arrived), UNCHANGED <<toServer, kinds>>,
         server' \in {"header", "body", "process", "send", "closed"}
  PROVE  /\ WireOK'
         /\ WholeRequests(Incoming, kinds)'
         /\ Incoming # <<>> /\ Incoming[1] = Head(arrived)
         /\ Incoming[1][2] = "header" /\ kinds[Incoming[1][1]] \in HasBody
              => Incoming' # <<>> /\ Incoming'[1] = <<Incoming[1][1], "body">>
         /\ Incoming' # <<>> /\ Incoming'[1][2] # "header"
              => Incoming[1][2] = "header" /\ kinds[Incoming[1][1]] \in HasBody
<1>1. WireOK /\ WholeRequests(Incoming, kinds)
  BY DEF FrameInv
<1>2. /\ Len(Incoming) \in Nat /\ Len(Incoming) > 0
      /\ Incoming[1] = Head(arrived) /\ Incoming # <<>>
      /\ arrived' \in Seq(Pieces)
      /\ Len(Incoming') = Len(Incoming) - 1
      /\ \A k \in 1 .. Len(Incoming) - 1 : Incoming'[k] = Incoming[k + 1]
  BY <1>1, ReadTakesHead, IncomingSeq, LenProperties
<1>3. WireOK'
  BY <1>1, <1>2 DEF WireOK
<1>4. Incoming' \in Seq(Pieces)
  BY <1>3, IncomingSeq, ConcatProperties DEF Incoming, WireOK
<1>5. PICK l \in Nat : l = Len(Incoming)
  BY <1>2
<1>6. \A k \in 1 .. l - 1 : k \in 1 .. l /\ k + 1 \in 1 .. l
  OBVIOUS
<1>7. WholeRequests(Incoming, kinds)'
  <2>1. ASSUME NEW k \in 1 .. l - 1 PROVE Incoming'[k][1] \in 1 .. Len(kinds)
    <3>1. Incoming[k + 1][1] \in 1 .. Len(kinds)
      BY <1>1, <1>5, <1>6 DEF WholeRequests
    <3> QED
      BY <1>2, <1>5, <3>1
  <2>2. ASSUME NEW k \in 1 .. l - 1,
               Incoming'[k][2] = "header", kinds[Incoming'[k][1]] \in HasBody
        PROVE  k < l - 1 /\ Incoming'[k + 1] = <<Incoming'[k][1], "body">>
    <3>1. Incoming'[k] = Incoming[k + 1] /\ k + 1 \in 1 .. l
      BY <1>2, <1>5, <1>6
    <3>2. k + 1 < l /\ Incoming[(k + 1) + 1] = <<Incoming[k + 1][1], "body">>
      BY <1>1, <1>5, <2>2, <3>1 DEF WholeRequests
    <3>3. k + 1 \in 1 .. l - 1
      BY <3>2
    <3> QED
      BY <1>2, <1>5, <3>1, <3>2, <3>3, SMTT(30)
  <2>3. ASSUME NEW k \in 1 .. (l - 1) - 1, Incoming'[k + 1][2] = "body"
        PROVE  Incoming'[k][2] = "header" /\ kinds[Incoming'[k][1]] \in HasBody
    <3>1. k \in 1 .. l - 1 /\ k + 1 \in 1 .. l - 1
      OBVIOUS
    <3>2. Incoming'[k] = Incoming[k + 1] /\ Incoming'[k + 1] = Incoming[(k + 1) + 1]
      BY <1>2, <1>5, <3>1
    <3> QED
      BY <1>1, <1>5, <2>3, <3>1, <3>2 DEF WholeRequests
  <2> QED
    BY <1>2, <1>5, <2>1, <2>2, <2>3 DEF WholeRequests
<1>8. ASSUME Incoming[1][2] = "header", kinds[Incoming[1][1]] \in HasBody
      PROVE  Incoming' # <<>> /\ Incoming'[1] = <<Incoming[1][1], "body">>
  <2>1. 1 < l /\ Incoming[1 + 1] = <<Incoming[1][1], "body">>
    BY <1>1, <1>2, <1>5, <1>8 DEF WholeRequests
  <2>2. 1 \in 1 .. l - 1
    BY <2>1
  <2>3. Len(Incoming') # 0
    BY <1>2, <1>5, <2>1
  <2> QED
    BY <1>2, <1>4, <1>5, <2>1, <2>2, <2>3, EmptySeq
<1>9. ASSUME Incoming' # <<>>, Incoming'[1][2] # "header"
      PROVE  Incoming[1][2] = "header" /\ kinds[Incoming[1][1]] \in HasBody
  <2>1. Len(Incoming') > 0
    BY <1>4, <1>9, EmptySeq, LenProperties
  <2>2. 1 \in 1 .. l - 1 /\ Incoming'[1] = Incoming[1 + 1]
    BY <1>2, <1>5, <2>1
  <2>3. Incoming'[1] \in Pieces
    BY <1>2, <1>4, <1>5, <2>2
  <2>4. Incoming[1 + 1][2] = "body"
    BY <1>9, <2>2, <2>3 DEF Pieces
  <2> QED
    BY <1>1, <1>5, <2>2, <2>4 DEF WholeRequests
<1> QED
  BY <1>2, <1>3, <1>7, <1>8, <1>9

\* A header is followed by what the thread waits for next.
LEMMA ReadHeaderKeeps ==
  ASSUME FrameInv, ReadHeader
  PROVE  FrameInv'
<1>1. /\ server = "header" /\ arrived # <<>> /\ request' = Head(arrived)[1]
      /\ arrived' = Tail(arrived) /\ UNCHANGED <<toServer, kinds>>
  BY DEF ReadHeader, clientVars
<1>2. \/ server' = "closed"
      \/ server' = "body" /\ kinds[request'] \in HasBody
      \/ server' = "process" /\ kinds[request'] \notin HasBody
  BY DEF ReadHeader
<1>3. /\ WireOK'
      /\ WholeRequests(Incoming, kinds)'
      /\ Incoming # <<>> /\ Incoming[1] = Head(arrived)
      /\ Incoming[1][2] = "header" /\ kinds[Incoming[1][1]] \in HasBody
           => Incoming' # <<>> /\ Incoming'[1] = <<Incoming[1][1], "body">>
      /\ Incoming' # <<>> /\ Incoming'[1][2] # "header"
           => Incoming[1][2] = "header" /\ kinds[Incoming[1][1]] \in HasBody
  BY <1>1, <1>2, ReadKeeps
<1>4. Incoming[1][2] = "header" /\ request' = Incoming[1][1]
  BY <1>1, <1>3 DEF FrameInv, InStep
<1>5. InStep(Incoming)'
  BY <1>2, <1>3, <1>4 DEF InStep
<1> QED
  BY <1>3, <1>5 DEF FrameInv

\* A body is followed by a header.
LEMMA ReadBodyKeeps ==
  ASSUME FrameInv, ReadBody
  PROVE  FrameInv'
<1>1. /\ server = "body" /\ arrived # <<>> /\ server' = "process"
      /\ arrived' = Tail(arrived) /\ UNCHANGED <<toServer, kinds>>
  BY DEF ReadBody, clientVars
<1>2. /\ WireOK'
      /\ WholeRequests(Incoming, kinds)'
      /\ Incoming' # <<>> /\ Incoming'[1][2] # "header" => Incoming[1][2] = "header"
  BY <1>1, ReadKeeps
<1>3. Incoming[1][2] # "header"
  BY <1>1 DEF FrameInv, InStep
<1>4. InStep(Incoming)'
  BY <1>1, <1>2, <1>3 DEF InStep
<1> QED
  BY <1>2, <1>4 DEF FrameInv

\* A call whose write failed is counted, and nothing of it is on its way.
LEMMA WriteFailsKeeps ==
  ASSUME FrameInv, NEW kind \in Calls, WriteFails(kind)
  PROVE  FrameInv'
<1>1. /\ WireOK /\ kinds' = Append(kinds, kind) /\ Len(kinds) < MaxCalls
      /\ UNCHANGED <<toServer, arrived, server, request>>
  BY DEF FrameInv, WriteFails, serverVars
<1>2. /\ kinds' \in Seq(Calls) /\ Len(kinds) \in Nat /\ Len(kinds') = Len(kinds) + 1
      /\ Len(kinds') <= MaxCalls
      /\ \A n \in 1 .. Len(kinds) : kinds'[n] = kinds[n]
  BY <1>1, KindsGrow
<1>3. WireOK'
  BY <1>1, <1>2 DEF WireOK
<1>4. Incoming' = Incoming
  BY <1>1 DEF Incoming
<1>5. WholeRequests(Incoming, kinds)'
  BY <1>2, <1>4, SMTT(30) DEF FrameInv, WholeRequests
<1> QED
  BY <1>1, <1>3, <1>4, <1>5 DEF FrameInv, InStep

-----------------------------------------------------------------------------
\* The invariant is inductive: one step for each action.
LEMMA NextFrameInv == FrameInv /\ [Next]_vars => FrameInv'
<1> SUFFICES ASSUME FrameInv, [Next]_vars PROVE FrameInv'
  OBVIOUS
<1>1. ASSUME NEW kind \in Calls, Call(kind) \/ WriteFails(kind) PROVE FrameInv'
  BY <1>1, CallKeeps, WriteFailsKeeps
<1>2. CASE Arrive
  BY <1>2, ArriveKeeps
<1>3. CASE ReadHeader
  BY <1>3, ReadHeaderKeeps
<1>4. CASE ReadBody
  BY <1>4, ReadBodyKeeps
<1>5. ASSUME UNCHANGED <<kinds, toServer, arrived, server, request>> PROVE FrameInv'
  BY <1>5, NothingRead
<1>6. CASE Client
  BY <1>5, <1>6
     DEF Client, Read, ReturnFixed, ReturnWhole, ReturnText, ReadFails, Return, serverVars
<1>7. CASE Leave
  BY <1>5, <1>7 DEF Leave, serverVars
<1>8. ASSUME Close PROVE FrameInv'
  BY <1>8, NothingRead DEF Close, clientVars
<1>9. ASSUME server \in {"header", "process", "send"}, server' \in {"header", "send"},
             UNCHANGED <<kinds, toServer, arrived>>
      PROVE  FrameInv'
  BY <1>9, NothingRead
<1>10. CASE Waiting
  BY <1>8, <1>9, <1>10
     DEF Waiting, HeaderLate, BodyLost, SendFails, NextRequest, clientVars
<1>11. CASE Process
  BY <1>9, <1>11 DEF Process, NextRequest, clientVars
<1>12. CASE Send
  <2>1. /\ server = "send" /\ UNCHANGED <<kinds, toServer, arrived>>
        /\ server' = "closed" \/ server' \in {"header", "send"}
    BY <1>12 DEF Send, SendAtOnce, clientVars
  <2> QED
    BY <1>9, <2>1, NothingRead
<1>13. CASE QuickAckFails
  BY <1>9, <1>13 DEF QuickAckFails, NextRequest, clientVars
<1>14. CASE UNCHANGED vars
  BY <1>5, <1>14 DEF vars, clientVars, serverVars
<1> QED
  BY <1>1, <1>2, <1>3, <1>4, <1>6, <1>7, <1>10, <1>11, <1>12, <1>13, <1>14 DEF Next, Serving

\* The head of what arrived is the first of the incoming pieces.
LEMMA FrameInvFramed == FrameInv => Framed
<1> SUFFICES ASSUME FrameInv, arrived # <<>>
             PROVE  /\ server = "header" => Head(arrived)[2] = "header"
                    /\ server = "body" => Head(arrived) = <<request, "body">>
  BY DEF Framed
<1>1. WireOK /\ InStep(Incoming)
  BY DEF FrameInv
<1>2. Len(arrived) \in Nat /\ Len(arrived) > 0 /\ Head(arrived) = arrived[1]
  BY <1>1, EmptySeq, LenProperties DEF WireOK
<1>3. Incoming[1] = Head(arrived) /\ Incoming # <<>>
  <2>1. /\ Incoming \in Seq(Pieces)
        /\ Len(Incoming) = Len(arrived) + Len(toServer) /\ Len(toServer) \in Nat
        /\ \A k \in 1 .. Len(Incoming) :
             Incoming[k] = IF k <= Len(arrived) THEN arrived[k] ELSE toServer[k - Len(arrived)]
    BY <1>1, IncomingSeq
  <2>2. 1 \in 1 .. Len(Incoming) /\ 1 <= Len(arrived) /\ Len(Incoming) > 0
    BY <1>2, <2>1
  <2> QED
    BY <1>2, <2>1, <2>2, EmptySeq
<1> QED
  BY <1>1, <1>3 DEF InStep

\* Whatever the calls, the losses and the delays: the server reads as a header what is
\* one, and as a body the body of the request it has begun.
THEOREM RequestsFramed == Spec => []Framed
<1>1. Init => FrameInv
  BY InitFrameInv
<1> QED
  BY <1>1, NextFrameInv, FrameInvFramed, PTL DEF Spec

-----------------------------------------------------------------------------
\* The thread has read a request, and while it sends there is something left to send.
TypeInv ==
  /\ TypeOK
  /\ server \in {"body", "process", "send"} => request # 0
  /\ server = "send" => reply # <<>>

\* The types of a new connection, and their preservation by the client, the network and
\* the thread.
LEMMA InitTypeInv == Init => TypeInv
BY ConnectionAssumption DEF Init, TypeInv, TypeOK, Pieces, Cells

\* A call counts itself and puts its pieces on their way.
LEMMA CallTyped ==
  ASSUME TypeInv, NEW kind \in Calls, Call(kind) \/ WriteFails(kind)
  PROVE  TypeInv'
<1> DEFINE n == Len(kinds) + 1
<1>1. /\ n \in 1 .. MaxCalls /\ kinds' \in Seq(Calls) /\ Len(kinds') = n
      /\ phase = "idle" /\ Len(results) = Len(kinds) /\ results \in Seq(Seq(Cells))
      /\ taken \in Seq(Cells)
      /\ toServer \in Seq(Pieces)
  <2>1. /\ phase = "idle" /\ Len(kinds) < MaxCalls /\ kinds' = Append(kinds, kind)
    BY DEF Call, WriteFails
  <2>2. kinds \in Seq(Calls) /\ Len(kinds) \in Nat /\ MaxCalls \in Nat
    BY ConnectionAssumption DEF TypeInv, TypeOK
  <2> QED
    BY <2>1, <2>2 DEF TypeInv, TypeOK
<1>2. <<n, "header">> \in Pieces /\ <<n, "body">> \in Pieces
  BY <1>1 DEF Pieces
<1> HIDE DEF n
<1>3. CASE Call(kind)
  <2>1. /\ phase' = "waiting"
        /\ toServer' = toServer \o IF kind \in HasBody THEN <<<<n, "header">>, <<n, "body">>>>
                                                       ELSE <<<<n, "header">>>>
        /\ UNCHANGED <<results, taken, serverVars, arrived, stream>>
    BY <1>3 DEF Call, n
  <2>2. toServer' \in Seq(Pieces)
    BY <1>1, <1>2, <2>1
  <2>3. Len(results) = n - 1
    BY <1>1 DEF n
  <2> QED
    BY <1>1, <2>1, <2>2, <2>3 DEF TypeInv, TypeOK, serverVars
<1>4. CASE WriteFails(kind)
  <2>1. /\ phase' \in {"idle", "gone"} /\ results' = Append(results, <<>>)
        /\ UNCHANGED <<taken, serverVars, toServer, arrived, stream>>
    BY <1>4 DEF WriteFails
  <2>2. <<>> \in Seq(Cells)
    OBVIOUS
  <2>3. results' \in Seq(Seq(Cells)) /\ Len(results') = n
    BY <1>1, <2>1, <2>2 DEF n
  <2> QED
    BY <1>1, <2>1, <2>3 DEF TypeInv, TypeOK, serverVars
<1> QED
  BY <1>3, <1>4

LEMMA ClientTyped ==
  ASSUME TypeInv, Client \/ Leave
  PROVE  TypeInv'
<1>1. CASE Read
  <2>1. stream # <<>> /\ taken' = Append(taken, Head(stream)) /\ stream' = Tail(stream)
        /\ UNCHANGED <<phase, kinds, results, serverVars, toServer, arrived>>
    BY <1>1 DEF Read
  <2>2. taken \in Seq(Cells) /\ stream \in Seq(Cells) /\ Len(stream) <= SendBuffer
    BY DEF TypeInv, TypeOK
  <2>3. taken' \in Seq(Cells) /\ stream' \in Seq(Cells) /\ Len(stream') <= SendBuffer
    BY <2>1, <2>2, ConnectionAssumption
  <2> QED
    BY <2>1, <2>3 DEF TypeInv, TypeOK, serverVars
<1>2. ASSUME NEW pieces \in Seq(Cells), NEW place \in {"idle", "gone"},
             phase = "waiting", Return(pieces, place)
      PROVE  TypeInv'
  <2>1. /\ results' = Append(results, pieces) /\ phase' = place /\ taken' = <<>>
        /\ UNCHANGED <<kinds, serverVars, toServer, arrived, stream>>
    BY <1>2 DEF Return
  <2>2. results \in Seq(Seq(Cells)) /\ Len(results) = Len(kinds) - 1 /\ kinds \in Seq(Calls)
    BY <1>2 DEF TypeInv, TypeOK
  <2>3. results' \in Seq(Seq(Cells)) /\ Len(results') = Len(kinds) /\ <<>> \in Seq(Cells)
    BY <2>1, <2>2
  <2> QED
    BY <2>1, <2>3 DEF TypeInv, TypeOK, serverVars
<1>3. taken \in Seq(Cells) /\ <<>> \in Seq(Cells)
  BY DEF TypeInv, TypeOK
<1>4. CASE ReturnFixed \/ ReturnWhole
  <2>1. \E place \in {"idle", "gone"} : phase = "waiting" /\ Return(taken, place)
    BY <1>4 DEF ReturnFixed, ReturnWhole
  <2> QED
    BY <1>2, <1>3, <2>1
<1>5. CASE ReturnText \/ ReadFails
  <2>1. phase = "waiting" /\ Return(<<>>, "gone")
    BY <1>5 DEF ReturnText, ReadFails
  <2> QED
    BY <1>2, <1>3, <2>1
<1>6. CASE Leave
  BY <1>6 DEF Leave, TypeInv, TypeOK, serverVars
<1> QED
  BY <1>1, <1>4, <1>5, <1>6 DEF Client

LEMMA ArriveTyped ==
  ASSUME TypeInv, Arrive PROVE TypeInv'
<1>1. toServer # <<>> /\ arrived' = Append(arrived, Head(toServer)) /\ toServer' = Tail(toServer)
      /\ UNCHANGED <<clientVars, serverVars, stream>>
  BY DEF Arrive
<1>2. arrived \in Seq(Pieces) /\ toServer \in Seq(Pieces)
  BY DEF TypeInv, TypeOK
<1>3. arrived' \in Seq(Pieces) /\ toServer' \in Seq(Pieces)
  BY <1>1, <1>2
<1> QED
  BY <1>1, <1>3 DEF TypeInv, TypeOK, clientVars, serverVars

LEMMA CloseTyped ==
  ASSUME TypeInv, Close PROVE TypeInv'
<1>1. /\ server' = "closed" /\ reply' = <<>> /\ UNCHANGED <<clientVars, request, toServer, arrived>>
      /\ stream' = stream \/ stream' = <<>>
  BY DEF Close
<1>2. stream' \in Seq(Cells) /\ Len(stream') <= SendBuffer /\ reply' \in Seq(Cells)
  <2>1. <<>> \in Seq(Cells) /\ Len(<<>>) = 0
    OBVIOUS
  <2>2. stream \in Seq(Cells) /\ Len(stream) <= SendBuffer /\ 0 <= SendBuffer
    BY ConnectionAssumption DEF TypeInv, TypeOK
  <2>3. CASE stream' = stream
    BY <1>1, <2>1, <2>2, <2>3
  <2>4. CASE stream' = <<>>
    BY <1>1, <2>1, <2>2, <2>4
  <2> QED
    BY <1>1, <2>3, <2>4
<1> QED
  BY <1>1, <1>2 DEF TypeInv, TypeOK, clientVars

LEMMA AnswerTyped ==
  ASSUME NEW n \in 1 .. MaxCalls, NEW length \in {3, 4}
  PROVE  /\ Answer(n, length) \in Seq(Cells) /\ Len(Answer(n, length)) = length
         /\ \A k \in 1 .. length : Answer(n, length)[k] = <<n, k, length>>
BY DEF Answer, Cells

LEMMA ServerTyped ==
  ASSUME TypeInv, Serving \/ Waiting \/ QuickAckFails PROVE TypeInv'
<1>1. /\ arrived \in Seq(Pieces) /\ reply \in Seq(Cells) /\ stream \in Seq(Cells)
      /\ request \in 0 .. MaxCalls
      /\ <<>> \in Seq(Cells)
  BY DEF TypeInv, TypeOK
<1>2. arrived # <<>> => /\ Tail(arrived) \in Seq(Pieces) /\ Head(arrived) \in Pieces
                        /\ Head(arrived)[1] \in 1 .. MaxCalls
  BY <1>1 DEF Pieces
<1>3. CASE ReadHeader
  BY <1>2, <1>3, ConnectionAssumption DEF ReadHeader, TypeInv, TypeOK, clientVars
<1>4. CASE ReadBody
  BY <1>2, <1>4 DEF ReadBody, TypeInv, TypeOK, clientVars
<1>5. ASSUME NextRequest, UNCHANGED <<clientVars, request, toServer, arrived, stream>> PROVE TypeInv'
  BY <1>1, <1>5 DEF NextRequest, TypeInv, TypeOK, clientVars
<1>6. CASE Process
  <2>1. ASSUME NEW length \in Lengths(kinds[request]), reply' = Answer(request, length),
               server' = "send"
        PROVE  TypeInv'
    <3>1. length \in {3, 4} /\ request \in 1 .. MaxCalls
      BY <1>1, <1>6, <2>1 DEF Lengths, Process, TypeInv
    <3>2. reply' \in Seq(Cells) /\ reply' # <<>>
      BY <2>1, <3>1, AnswerTyped
    <3> QED
      BY <1>6, <2>1, <3>1, <3>2 DEF Process, TypeInv, TypeOK, clientVars
  <2> QED
    BY <1>5, <1>6, <2>1 DEF Process
<1>7. CASE Send
  <2>1. /\ server = "send" /\ Len(stream) < SendBuffer
        /\ stream' = Append(stream, Head(reply)) /\ reply' = Tail(reply)
        /\ server' \in {"send", "closed", "header"} /\ (server' = "send" => Len(reply) > 1)
        /\ UNCHANGED <<clientVars, request, toServer, arrived>>
    BY <1>7 DEF Send, SendAtOnce
  <2>2. /\ reply' \in Seq(Cells) /\ stream' \in Seq(Cells) /\ Len(stream') <= SendBuffer
        /\ Len(reply) > 1 => reply' # <<>>
    <3>1. reply \in Seq(Cells) /\ reply # <<>> /\ stream \in Seq(Cells)
      BY <1>1, <2>1 DEF TypeInv
    <3>2. Head(reply) \in Cells /\ Tail(reply) \in Seq(Cells)
      BY <3>1
    <3>3. Append(stream, Head(reply)) \in Seq(Cells)
          /\ Len(Append(stream, Head(reply))) = Len(stream) + 1
      BY <3>1, <3>2
    <3>4. ASSUME Len(reply) > 1 PROVE Tail(reply) # <<>>
      <4>1. PICK l \in Nat : l = Len(reply) /\ Len(Tail(reply)) = l - 1
        BY <3>1, HeadTailProperties, LenProperties
      <4>2. Len(Tail(reply)) # 0
        BY <3>4, <4>1
      <4> QED
        BY <4>2, EmptySeq, Zenon
    <3>5. Len(stream) + 1 <= SendBuffer
      BY <2>1, <3>1, ConnectionAssumption
    <3> QED
      BY <2>1, <3>2, <3>3, <3>4, <3>5
  <2> QED
    BY <2>1, <2>2 DEF TypeInv, TypeOK, clientVars
<1>8. CASE Waiting \/ QuickAckFails
  BY <1>5, <1>8, CloseTyped DEF Waiting, HeaderLate, BodyLost, SendFails, QuickAckFails
<1> QED
  BY <1>3, <1>4, <1>6, <1>7, <1>8 DEF Serving

LEMMA NextTypeInv == ASSUME TypeInv, [Next]_vars PROVE TypeInv'
<1>1. CASE UNCHANGED vars
  BY <1>1 DEF vars, clientVars, serverVars, TypeInv, TypeOK
<1> QED
  BY <1>1, CallTyped, ClientTyped, ArriveTyped, ServerTyped DEF Next

\* The state has its types, for any number of calls and any size of the buffers: the
\* network never holds more of an answer than its buffer.
THEOREM TypeCorrect == Spec => []TypeOK
<1>1. TypeInv /\ [Next]_vars => TypeInv'
  BY NextTypeInv
<1>2. TypeInv => TypeOK
  BY DEF TypeInv
<1> QED
  BY <1>1, <1>2, InitTypeInv, PTL DEF Spec

-----------------------------------------------------------------------------
(***************************************************************************)
(* A call returns the answer to its own request.  As long as no save was   *)
(* returned the client and the thread are at the same call: when a call is *)
(* made nothing of an earlier one is left (Quiet), and until it returns    *)
(* the pieces read, sent and left to send are, one after the other, the    *)
(* beginning of its answer (Open).                                         *)
(***************************************************************************)
\* The pieces on their way to the server are only counted.
OnWay == Len(arrived) + Len(toServer)
Size(kind) == IF kind \in HasBody THEN 2 ELSE 1
Done == Len(taken) + Len(stream) + Len(reply)

\* The open call n: its answer of the given length, as far as it was sent.
Answered(n, length) ==
  /\ length \in Lengths(kinds[n])
  /\ \A k \in 1 .. Len(taken) : taken[k] = <<n, k, length>>
  /\ \A k \in 1 .. Len(stream) : stream[k] = <<n, Len(taken) + k, length>>
  /\ \A k \in 1 .. Len(reply) : reply[k] = <<n, Len(taken) + Len(stream) + k, length>>
  /\ Done <= length
  /\ server = "send" => Done = length

Unanswered == Done = 0 /\ server # "send"

Open(n) ==
  /\ \A k \in 1 .. Len(arrived) : arrived[k][1] = n
  /\ \A k \in 1 .. Len(toServer) : toServer[k][1] = n
  /\ server \in {"body", "process", "send"} => request = n
  /\ server = "header" => OnWay \in {0, Size(kinds[n])}
  /\ server = "body" => OnWay = 1
  /\ server = "process" => OnWay = 0
  /\ \/ Unanswered
     \/ /\ OnWay = 0 /\ server \in {"header", "send", "closed"}
        /\ \E length \in {3, 4} : Answered(n, length)

\* Between two calls.
Quiet == OnWay = 0 /\ Done = 0 /\ server \in {"header", "closed"}

\* A save that has returned leaves the text of the response unread.
SaveBefore == \E m \in 1 .. Len(results) : kinds[m] = "save"

OpenInv ==
  /\ phase = "idle" => SaveBefore \/ Quiet
  /\ phase = "waiting" => SaveBefore \/ Open(Len(kinds))

AnswerInv == TypeInv /\ OpenInv /\ OwnAnswer

LEMMA Typed ==
  ASSUME TypeInv
  PROVE  /\ kinds \in Seq(Calls) /\ Len(kinds) \in Nat /\ Len(results) \in Nat
         /\ arrived \in Seq(Pieces) /\ Len(arrived) \in Nat /\ toServer \in Seq(Pieces)
         /\ Len(toServer) \in Nat
         /\ taken \in Seq(Cells) /\ Len(taken) \in Nat /\ stream \in Seq(Cells)
         /\ Len(stream) \in Nat
         /\ reply \in Seq(Cells) /\ Len(reply) \in Nat /\ results \in Seq(Seq(Cells))
         /\ server \in {"header", "body", "process", "send", "closed"}
BY DEF TypeInv, TypeOK

\* What was returned stays; what is returned now is the last result.
LEMMA ResultsSame ==
  ASSUME TypeInv, OwnAnswer, UNCHANGED results, \A m \in 1 .. Len(results) : kinds'[m] = kinds[m]
  PROVE  OwnAnswer'
<1>1. PICK l \in Nat : l = Len(results) /\ DOMAIN results = 1 .. l
  BY Typed
<1>2. ASSUME NEW n \in 1 .. l
      PROVE  \/ \A k \in DOMAIN results[n] : results[n][k][1] = n /\ results[n][k][2] = k
             \/ \E m \in 1 .. n - 1 : kinds'[m] = "save"
  BY <1>1, <1>2 DEF OwnAnswer
<1> QED
  BY <1>1, <1>2 DEF OwnAnswer

LEMMA ResultsGrow ==
  ASSUME TypeInv, OwnAnswer, NEW pieces \in Seq(Cells), results' = Append(results, pieces),
         \A m \in 1 .. Len(results) : kinds'[m] = kinds[m],
         NEW n \in Nat, n = Len(results) + 1,
         \/ \A k \in DOMAIN pieces : pieces[k][1] = n /\ pieces[k][2] = k
         \/ SaveBefore
  PROVE  OwnAnswer'
<1>1. /\ Len(results) = n - 1 /\ DOMAIN results = 1 .. n - 1 /\ DOMAIN results' = 1 .. n
      /\ results'[n] = pieces /\ \A m \in 1 .. n - 1 : results'[m] = results[m]
  BY Typed
<1>2. ASSUME NEW i \in 1 .. n
      PROVE  \/ \A k \in DOMAIN results'[i] : results'[i][k][1] = i /\ results'[i][k][2] = k
             \/ \E m \in 1 .. i - 1 : kinds'[m] = "save"
  <2>1. CASE i = n
    BY <1>1, <2>1 DEF SaveBefore
  <2>2. CASE i \in 1 .. n - 1
    <3>1. \/ \A k \in DOMAIN results[i] : results[i][k][1] = i /\ results[i][k][2] = k
          \/ \E m \in 1 .. i - 1 : kinds[m] = "save"
      BY <1>1, <2>2 DEF OwnAnswer
    <3>2. results'[i] = results[i] /\ \A m \in 1 .. i - 1 : kinds'[m] = kinds[m]
      BY <1>1, <2>2
    <3> QED
      BY <3>1, <3>2
  <2> QED
    BY <2>1, <2>2
<1> QED
  BY <1>1, <1>2 DEF OwnAnswer

LEMMA InitAnswerInv == Init => AnswerInv
BY InitTypeInv DEF AnswerInv, OpenInv, OwnAnswer, Quiet, OnWay, Done, Init

\* A call is made when nothing of an earlier one is left.
LEMMA CallAnswers ==
  ASSUME AnswerInv, NEW kind \in Calls, Call(kind)
  PROVE  OpenInv' /\ OwnAnswer'
<1>1. PICK n \in Nat : n = Len(kinds) + 1
  BY Typed DEF AnswerInv
<1>2. /\ phase = "idle" /\ phase' = "waiting" /\ Len(results) = n - 1
      /\ kinds' = Append(kinds, kind)
      /\ toServer' = toServer \o IF kind \in HasBody THEN <<<<n, "header">>, <<n, "body">>>>
                                                     ELSE <<<<n, "header">>>>
      /\ UNCHANGED <<results, taken, serverVars, arrived, stream>>
  BY <1>1 DEF Call, AnswerInv, TypeInv, TypeOK
<1>3. Len(kinds') = n /\ kinds'[n] = kind /\ \A m \in 1 .. n - 1 : kinds'[m] = kinds[m]
  BY <1>1, <1>2, Typed DEF AnswerInv
<1>4. OwnAnswer'
  BY <1>2, <1>3, ResultsSame DEF AnswerInv
<1>5. ASSUME ~ SaveBefore' PROVE Open(n)'
  <2>1. Quiet
    BY <1>2, <1>3, <1>5 DEF AnswerInv, OpenInv, SaveBefore
  <2>2. Len(arrived') = 0 /\ toServer = <<>> /\ Len(toServer) = 0
        /\ server' \in {"header", "closed"}
    BY <1>2, <2>1, Typed DEF AnswerInv, Quiet, OnWay, serverVars
  <2>3. Len(toServer') = Size(kind) /\ \A k \in 1 .. Len(toServer') : toServer'[k][1] = n
    BY <1>2, <2>2 DEF Size
  <2>4. Done' = 0
    BY <1>2, <2>1 DEF Quiet, Done, serverVars
  <2> QED
    BY <1>3, <2>2, <2>3, <2>4 DEF Open, OnWay, Unanswered
<1> QED
  BY <1>2, <1>3, <1>4, <1>5 DEF OpenInv

\* One whose write failed returns nothing.
LEMMA WriteFailsAnswers ==
  ASSUME AnswerInv, NEW kind \in Calls, WriteFails(kind)
  PROVE  OpenInv' /\ OwnAnswer'
<1>1. PICK n \in Nat : n = Len(kinds) + 1
  BY Typed DEF AnswerInv
<1>2. /\ phase = "idle" /\ phase' \in {"idle", "gone"} /\ Len(results) = n - 1
      /\ kinds' = Append(kinds, kind)
      /\ results' = Append(results, <<>>)
      /\ UNCHANGED <<taken, serverVars, toServer, arrived, stream>>
  BY <1>1 DEF WriteFails, AnswerInv, TypeInv, TypeOK
<1>3. /\ \A m \in 1 .. n - 1 : kinds'[m] = kinds[m]
      /\ Len(results') = n /\ results'[n] = <<>> /\ \A m \in 1 .. n - 1 : results'[m] = results[m]
      /\ DOMAIN results = 1 .. n - 1 /\ DOMAIN results' = 1 .. n
  BY <1>1, <1>2, Typed DEF AnswerInv
<1>4. OwnAnswer'
  <2>1. <<>> \in Seq(Cells) /\ DOMAIN <<>> = {}
    OBVIOUS
  <2>2. PICK none \in Seq(Cells) : none = <<>> /\ DOMAIN none = {}
    BY <2>1
  <2>3. n = Len(results) + 1 /\ \A m \in 1 .. Len(results) : kinds'[m] = kinds[m]
    BY <1>1, <1>2, <1>3
  <2> QED
    BY <1>2, <2>2, <2>3, ResultsGrow DEF AnswerInv
<1>5. SaveBefore => SaveBefore'
  <2>1. \A m \in 1 .. n - 1 : m \in 1 .. n
    OBVIOUS
  <2> QED
    BY <1>2, <1>3, <2>1 DEF SaveBefore
<1>6. Quiet => Quiet'
  BY <1>2 DEF Quiet, OnWay, Done, serverVars
<1> QED
  BY <1>2, <1>4, <1>5, <1>6 DEF AnswerInv, OpenInv

\* A piece read goes from the one sequence to the other.
LEMMA ReadAnswers ==
  ASSUME AnswerInv, Read
  PROVE  OpenInv' /\ OwnAnswer'
<1>1. /\ phase = "waiting" /\ stream # <<>> /\ taken' = Append(taken, Head(stream))
      /\ stream' = Tail(stream)
      /\ UNCHANGED <<phase, kinds, results, server, request, reply, toServer, arrived>>
  BY DEF Read, serverVars
<1>2. PICK a \in Nat, b \in Nat, c \in Nat : a = Len(taken) /\ b = Len(stream) /\ c = Len(reply)
  BY Typed DEF AnswerInv
<1>3. /\ b > 0 /\ Len(taken') = a + 1 /\ Len(stream') = b - 1 /\ taken'[a + 1] = stream[1]
      /\ \A k \in 1 .. a : taken'[k] = taken[k]
      /\ \A k \in 1 .. b - 1 : stream'[k] = stream[k + 1]
  BY <1>1, <1>2, Typed DEF AnswerInv
<1>4. OwnAnswer'
  BY <1>1, ResultsSame DEF AnswerInv
<1>5. ASSUME NEW n \in Nat, n = Len(kinds), Open(n) PROVE Open(n)'
  <2>1. Done' = Done /\ ~ Unanswered
    BY <1>1, <1>2, <1>3 DEF Done, Unanswered
  <2>2. PICK length \in {3, 4} : Answered(n, length)
    BY <1>5, <2>1 DEF Open
  <2>3. Answered(n, length)'
    <3>1. \A k \in 1 .. a + 1 : taken'[k] = <<n, k, length>>
      <4>1. stream[1] = <<n, a + 1, length>>
        BY <1>2, <1>3, <2>2 DEF Answered
      <4> QED
        BY <1>2, <1>3, <2>2, <4>1 DEF Answered
    <3>2. \A k \in 1 .. b - 1 : stream'[k] = <<n, (a + 1) + k, length>>
      <4>1. \A k \in 1 .. b - 1 : k + 1 \in 1 .. b /\ (a + 1) + k = a + (k + 1)
        OBVIOUS
      <4> QED
        BY <1>2, <1>3, <2>2, <4>1 DEF Answered
    <3>3. \A k \in 1 .. c : reply[k] = <<n, (a + 1) + (b - 1) + k, length>>
      BY <1>2, <2>2 DEF Answered
    <3> QED
      BY <1>1, <1>2, <1>3, <2>1, <2>2, <3>1, <3>2, <3>3 DEF Answered
  <2> QED
    BY <1>1, <1>5, <2>1, <2>2, <2>3 DEF Open, OnWay
<1>6. SaveBefore' <=> SaveBefore
  BY <1>1 DEF SaveBefore
<1>7. Len(kinds) \in Nat /\ kinds' = kinds /\ phase' = phase
  BY <1>1, Typed DEF AnswerInv
<1> QED
  BY <1>1, <1>4, <1>5, <1>6, <1>7 DEF AnswerInv, OpenInv

\* The answer a call returns is the whole of what came, or the whole of what it asked for.
LEMMA ReturnAnswers ==
  ASSUME AnswerInv, NEW pieces \in Seq(Cells), NEW place \in {"idle", "gone"},
         phase = "waiting", Return(pieces, place),
         \/ pieces = <<>> /\ place = "gone"
         \/ /\ pieces = taken /\ taken # <<>>
            /\ place = "idle" => \/ Last(kinds) = "save"
                                 \/ \A length \in {3, 4} : Answered(Len(kinds), length) => Len(taken) = length
  PROVE  OpenInv' /\ OwnAnswer'
<1>1. PICK n \in Nat : n = Len(kinds)
  BY Typed DEF AnswerInv
<1>2. /\ results' = Append(results, pieces) /\ phase' = place /\ taken' = <<>>
      /\ Len(results) = n - 1
      /\ UNCHANGED <<kinds, server, request, reply, toServer, arrived, stream>>
  BY <1>1 DEF Return, serverVars, AnswerInv, TypeInv, TypeOK
<1>3. n = Len(results) + 1 /\ Len(results') = n /\ Last(kinds) = kinds[n] /\ n >= 1
  BY <1>1, <1>2, Typed DEF AnswerInv, Last
<1>4. ASSUME ~ SaveBefore, taken # <<>>
      PROVE  Open(n) /\ \E length \in {3, 4} : Answered(n, length)
  <2>1. Open(n)
    BY <1>1, <1>4 DEF AnswerInv, OpenInv
  <2>2. Len(taken) > 0
    BY <1>4, Typed DEF AnswerInv
  <2> QED
    BY <2>1, <2>2, Typed DEF AnswerInv, Open, Unanswered, Done
<1>5. OwnAnswer'
  <2>1. \/ \A k \in DOMAIN pieces : pieces[k][1] = n /\ pieces[k][2] = k
        \/ SaveBefore
    <3>1. CASE pieces = <<>>
      BY <3>1
    <3>2. CASE pieces = taken /\ taken # <<>> /\ ~ SaveBefore
      <4>1. DOMAIN taken = 1 .. Len(taken)
        BY Typed DEF AnswerInv
      <4> QED
        BY <1>4, <3>2, <4>1 DEF Answered
    <3> QED
      BY <3>1, <3>2
  <2> QED
    BY <1>2, <1>3, <2>1, ResultsGrow DEF AnswerInv
<1>6. ASSUME place = "idle", ~ SaveBefore' PROVE Quiet'
  <2>1. ~ SaveBefore /\ kinds[n] # "save"
    <3>1. \A m \in 1 .. n : kinds[m] # "save"
      BY <1>2, <1>3, <1>6 DEF SaveBefore
    <3> QED
      BY <1>2, <1>3, <3>1 DEF SaveBefore
  <2>2. taken # <<>> /\ \A length \in {3, 4} : Answered(n, length) => Len(taken) = length
    BY <1>1, <1>3, <1>6, <2>1
  <2>3. Open(n) /\ \E length \in {3, 4} : Answered(n, length)
    BY <1>4, <2>1, <2>2
  <2>4. Len(stream) = 0 /\ Len(reply) = 0
    <3>1. PICK length \in {3, 4} : Answered(n, length) /\ Len(taken) = length
      BY <2>2, <2>3
    <3>2. Len(taken) + Len(stream) + Len(reply) <= length
      BY <3>1 DEF Answered, Done
    <3>3. Len(taken) \in Nat /\ Len(stream) \in Nat /\ Len(reply) \in Nat
      BY Typed DEF AnswerInv
    <3> QED
      BY <3>1, <3>2, <3>3
  <2>5. Len(taken) > 0
    BY <2>2, Typed DEF AnswerInv
  <2>6. server # "send"
    BY <2>4, Typed DEF AnswerInv, TypeInv
  <2>7. OnWay = 0 /\ server \in {"header", "closed"}
    BY <2>3, <2>5, <2>6, Typed DEF AnswerInv, Open, Unanswered, Done
  <2> QED
    BY <1>2, <2>4, <2>7 DEF Quiet, OnWay, Done
<1> QED
  BY <1>2, <1>5, <1>6 DEF OpenInv

\* The client's returns: an answer that is too short or no answer is not returned.
LEMMA ClientAnswers ==
  ASSUME AnswerInv, Client \/ Leave
  PROVE  OpenInv' /\ OwnAnswer'
<1>1. PICK n \in Nat : n = Len(kinds)
  BY Typed DEF AnswerInv
<1>2. taken \in Seq(Cells) /\ <<>> \in Seq(Cells)
  BY Typed DEF AnswerInv
<1>3. CASE ReturnFixed
  <2>1. PICK place \in {"idle", "gone"} : Return(taken, place) /\ (place = "idle" <=> Last(kinds) = "save")
    BY <1>3 DEF ReturnFixed
  <2>2. phase = "waiting" /\ Len(taken) = 2
    BY <1>3 DEF ReturnFixed, Needed
  <2>3. taken # <<>>
    BY <1>2, <2>2
  <2> QED
    BY <1>2, <2>1, <2>2, <2>3, ReturnAnswers
<1>4. CASE ReturnWhole
  <2>1. phase = "waiting" /\ Return(taken, "idle") /\ taken # <<>> /\ Len(taken) = Head(taken)[3]
    BY <1>4 DEF ReturnWhole, Needed
  <2>2. Head(taken) = taken[1] /\ 1 \in 1 .. Len(taken)
    BY <1>2, <2>1
  <2>3. \A length \in {3, 4} : Answered(Len(kinds), length) => Len(taken) = length
    BY <2>1, <2>2 DEF Answered
  <2> QED
    BY <1>2, <2>1, <2>3, ReturnAnswers
<1>5. CASE ReturnText \/ ReadFails
  <2>1. phase = "waiting" /\ Return(<<>>, "gone")
    BY <1>5 DEF ReturnText, ReadFails
  <2>2. PICK none \in Seq(Cells) : none = <<>>
    BY <1>2
  <2> QED
    BY <2>1, <2>2, ReturnAnswers
<1>6. CASE Leave
  <2>1. phase' = "gone" /\ UNCHANGED <<kinds, results>>
    BY <1>6 DEF Leave
  <2> QED
    BY <2>1, ResultsSame DEF AnswerInv, OpenInv
<1> QED
  BY <1>3, <1>4, <1>5, <1>6, ReadAnswers DEF Client

\* Steps of the network and of the thread leave the calls and their results alone.
LEMMA Unreturned ==
  ASSUME AnswerInv, UNCHANGED <<phase, kinds, results>>,
         phase = "idle" /\ Quiet => Quiet',
         NEW n \in Nat, n = Len(kinds), phase = "waiting" /\ Open(n) => Open(n)'
  PROVE  OpenInv' /\ OwnAnswer'
<1>1. OwnAnswer'
  BY ResultsSame DEF AnswerInv
<1>2. SaveBefore' <=> SaveBefore
  BY DEF SaveBefore
<1> QED
  BY <1>1, <1>2 DEF AnswerInv, OpenInv

\* A piece that arrives is still on its way to the thread.
LEMMA ArriveAnswers ==
  ASSUME AnswerInv, Arrive
  PROVE  OpenInv' /\ OwnAnswer'
<1>1. /\ toServer # <<>> /\ arrived' = Append(arrived, Head(toServer)) /\ toServer' = Tail(toServer)
      /\ UNCHANGED <<phase, kinds, results, taken, server, request, reply, stream>>
  BY DEF Arrive, clientVars, serverVars
<1>2. PICK a \in Nat, b \in Nat : a = Len(arrived) /\ b = Len(toServer)
  BY Typed DEF AnswerInv
<1>3. /\ b > 0 /\ Len(arrived') = a + 1 /\ Len(toServer') = b - 1 /\ arrived'[a + 1] = toServer[1]
      /\ \A k \in 1 .. a : arrived'[k] = arrived[k]
      /\ \A k \in 1 .. b - 1 : toServer'[k] = toServer[k + 1]
  BY <1>1, <1>2, Typed DEF AnswerInv
<1>4. OnWay' = OnWay /\ Done' = Done
  BY <1>1, <1>2, <1>3 DEF OnWay, Done
<1>5. Quiet => Quiet'
  BY <1>1, <1>4 DEF Quiet
<1>6. ASSUME NEW n \in Nat, n = Len(kinds), Open(n) PROVE Open(n)'
  <2>1. \A k \in 1 .. a + 1 : arrived'[k][1] = n
    BY <1>2, <1>3, <1>6 DEF Open
  <2>2. \A k \in 1 .. b - 1 : toServer'[k][1] = n
    <3>1. \A k \in 1 .. b - 1 : k + 1 \in 1 .. b
      OBVIOUS
    <3> QED
      BY <1>2, <1>3, <1>6, <3>1 DEF Open
  <2>3. \A length \in {3, 4} : Answered(n, length)' <=> Answered(n, length)
    BY <1>1 DEF Answered, Done
  <2>4. Unanswered' <=> Unanswered
    BY <1>1, <1>4 DEF Unanswered
  <2> QED
    BY <1>1, <1>3, <1>4, <1>6, <2>1, <2>2, <2>3, <2>4 DEF Open
<1>7. Len(kinds) \in Nat
  BY Typed DEF AnswerInv
<1> QED
  BY <1>1, <1>5, <1>6, <1>7, Unreturned

\* What ends a request without an answer, or cuts the answer short.
LEMMA CutAnswers ==
  ASSUME AnswerInv, UNCHANGED <<clientVars, request, toServer, arrived>>, reply' = <<>>,
         \/ /\ server' = "closed"
            /\ stream' = stream \/ (arrived \o toServer # <<>> /\ stream' = <<>>)
         \/ server' = "header" /\ server \in {"process", "send"} /\ stream' = stream
  PROVE  OpenInv' /\ OwnAnswer'
<1>1. UNCHANGED <<phase, kinds, results, taken>> /\ OnWay' = OnWay
  BY DEF clientVars, OnWay
<1>2. PICK a \in Nat, b \in Nat, c \in Nat : a = Len(taken) /\ b = Len(stream) /\ c = Len(reply)
  BY Typed DEF AnswerInv
<1>3. Len(reply') = 0 /\ (stream' = stream \/ (OnWay # 0 /\ Len(stream') = 0))
  <2>1. ASSUME OnWay = 0 PROVE arrived \o toServer = <<>>
    <3>1. arrived = <<>> /\ toServer = <<>>
      BY <2>1, Typed DEF AnswerInv, OnWay
    <3> QED
      BY <3>1
  <2>2. Len(<<>>) = 0
    OBVIOUS
  <2> QED
    BY <2>1, <2>2
<1>4. Done = 0 => Done' = 0
  BY <1>1, <1>2, <1>3 DEF Done
<1>5. Quiet => Quiet'
  BY <1>1, <1>4 DEF Quiet
<1>6. ASSUME NEW n \in Nat, n = Len(kinds), Open(n) PROVE Open(n)'
  <2>1. CASE Unanswered
    <3>1. Unanswered'
      BY <1>4, <2>1 DEF Unanswered
    <3>2. \/ server' = "closed"
          \/ server' = "header" /\ server = "process"
      BY <2>1 DEF Unanswered
    <3> QED
      BY <1>1, <1>6, <3>1, <3>2 DEF Open
  <2>2. CASE ~ Unanswered
    <3>1. OnWay = 0 /\ server \in {"header", "send", "closed"} /\ stream' = stream
      BY <1>3, <1>6, <2>2 DEF Open
    <3>2. PICK length \in {3, 4} : Answered(n, length)
      BY <1>6, <2>2 DEF Open
    <3>3. Done' <= length
      BY <1>1, <1>2, <1>3, <3>1, <3>2 DEF Done, Answered
    <3>4. Answered(n, length)'
      BY <1>1, <1>3, <3>1, <3>2, <3>3 DEF Answered
    <3> QED
      BY <1>1, <1>6, <3>1, <3>4 DEF Open
  <2> QED
    BY <2>1, <2>2
<1>7. Len(kinds) \in Nat
  BY Typed DEF AnswerInv
<1> QED
  BY <1>1, <1>5, <1>6, <1>7, Unreturned

\* A request is read: nothing has been answered yet, and nothing else is on its way.
LEMMA RequestReadAnswers ==
  ASSUME AnswerInv, ReadHeader \/ ReadBody
  PROVE  OpenInv' /\ OwnAnswer'
<1>1. /\ arrived # <<>> /\ arrived' = Tail(arrived) /\ server \in {"header", "body"}
      /\ server = "header" => request' = Head(arrived)[1]
      /\ server = "body" => request' = request /\ server' = "process"
      /\ server = "header" => \/ server' = "closed"
                              \/ server' = "body" /\ kinds[request'] \in HasBody
                              \/ server' = "process" /\ kinds[request'] \notin HasBody
      /\ UNCHANGED <<phase, kinds, results, taken, reply, toServer, stream>>
  BY DEF ReadHeader, ReadBody, clientVars
<1>2. PICK a \in Nat, b \in Nat : a = Len(arrived) /\ b = Len(toServer)
  BY Typed DEF AnswerInv
<1>3. /\ a > 0 /\ Len(arrived') = a - 1 /\ Head(arrived) = arrived[1]
      /\ \A k \in 1 .. a - 1 : arrived'[k] = arrived[k + 1]
  BY <1>1, <1>2, Typed DEF AnswerInv
<1>4. ~ Quiet
  BY <1>2, <1>3 DEF Quiet, OnWay
<1>5. ASSUME NEW n \in Nat, n = Len(kinds), Open(n) PROVE Open(n)'
  <2>1. OnWay' = OnWay - 1 /\ OnWay \in Nat /\ OnWay # 0
    BY <1>1, <1>2, <1>3 DEF OnWay
  <2>2. Unanswered'
    <3>1. Unanswered
      BY <1>5, <2>1 DEF Open
    <3> QED
      BY <1>1, <3>1 DEF Unanswered, Done
  <2>3. \A k \in 1 .. a - 1 : arrived'[k][1] = n
    <3>1. \A k \in 1 .. a - 1 : k + 1 \in 1 .. a
      OBVIOUS
    <3> QED
      BY <1>2, <1>3, <1>5, <3>1 DEF Open
  <2>4. request' = n
    <3>1. arrived[1][1] = n
      BY <1>2, <1>3, <1>5 DEF Open
    <3> QED
      BY <1>1, <1>3, <1>5, <3>1 DEF Open
  <2>5. server = "header" => OnWay = Size(kinds[n])
    BY <1>5, <2>1 DEF Open
  <2>6. server = "body" => OnWay = 1
    BY <1>5 DEF Open
  <2>7. (server' = "body" => OnWay' = 1) /\ (server' = "process" => OnWay' = 0)
        /\ server' # "header"
    BY <1>1, <2>1, <2>4, <2>5, <2>6 DEF Size
  <2>8. \A k \in 1 .. Len(toServer') : toServer'[k][1] = n
    BY <1>1, <1>5 DEF Open
  <2> QED
    BY <1>1, <1>3, <2>2, <2>3, <2>4, <2>7, <2>8 DEF Open
<1>6. Len(kinds) \in Nat
  BY Typed DEF AnswerInv
<1> QED
  BY <1>1, <1>4, <1>5, <1>6, Unreturned

\* The answer is made for the request that was read.
LEMMA ProcessAnswers ==
  ASSUME AnswerInv, NEW length \in Lengths(kinds[request]), server = "process",
         reply' = Answer(request, length), server' = "send",
         UNCHANGED <<clientVars, request, toServer, arrived, stream>>
  PROVE  OpenInv' /\ OwnAnswer'
<1>1. UNCHANGED <<phase, kinds, results, taken>> /\ length \in {3, 4}
  BY DEF clientVars, Lengths
<1>2. ~ Quiet
  BY DEF Quiet
<1>3. ASSUME NEW n \in Nat, n = Len(kinds), Open(n) PROVE Open(n)'
  <2>1. request = n /\ OnWay = 0 /\ Unanswered
    BY <1>3 DEF Open
  <2>2. Len(taken) = 0 /\ Len(stream) = 0
    BY <2>1, Typed DEF AnswerInv, Unanswered, Done
  <2>3. request \in 1 .. MaxCalls
    BY DEF AnswerInv, TypeInv, TypeOK
  <2>4. Len(reply') = length /\ \A k \in 1 .. length : reply'[k] = <<n, k, length>>
    BY <1>1, <2>1, <2>3, AnswerTyped
  <2>5. Done' = length
    BY <1>1, <2>2, <2>4 DEF Done
  <2>6. Answered(n, length)'
    BY <1>1, <2>1, <2>2, <2>4, <2>5 DEF Answered
  <2>7. OnWay' = 0
    BY <2>1 DEF OnWay
  <2> QED
    BY <1>1, <1>3, <2>1, <2>6, <2>7 DEF Open
<1>4. Len(kinds) \in Nat
  BY Typed DEF AnswerInv
<1> QED
  BY <1>1, <1>2, <1>3, <1>4, Unreturned

\* A piece sent goes from the answer left to the stream.
LEMMA SendAnswers ==
  ASSUME AnswerInv, Send
  PROVE  OpenInv' /\ OwnAnswer'
<1>1. /\ server = "send" /\ stream' = Append(stream, Head(reply)) /\ reply' = Tail(reply)
      /\ server' \in {"send", "closed", "header"} /\ (server' = "send" <=> Len(reply) > 1)
      /\ UNCHANGED <<phase, kinds, results, taken, request, toServer, arrived>>
  BY DEF Send, SendAtOnce, clientVars, Ending
<1>2. PICK a \in Nat, b \in Nat, c \in Nat : a = Len(taken) /\ b = Len(stream) /\ c = Len(reply)
  BY Typed DEF AnswerInv
<1>3. /\ c > 0 /\ Len(stream') = b + 1 /\ Len(reply') = c - 1 /\ stream'[b + 1] = reply[1]
      /\ \A k \in 1 .. b : stream'[k] = stream[k]
      /\ \A k \in 1 .. c - 1 : reply'[k] = reply[k + 1]
  BY <1>1, <1>2, Typed DEF AnswerInv, TypeInv
<1>4. ~ Quiet
  BY <1>1 DEF Quiet
<1>5. ASSUME NEW n \in Nat, n = Len(kinds), Open(n) PROVE Open(n)'
  <2>1. Done' = Done /\ OnWay' = OnWay
    <3>1. Len(taken') = a /\ a + b + c = a + (b + 1) + (c - 1)
      BY <1>1, <1>2
    <3> QED
      BY <1>1, <1>2, <1>3, <3>1 DEF Done, OnWay
  <2>2. PICK length \in {3, 4} : Answered(n, length)
    BY <1>1, <1>5 DEF Open, Unanswered
  <2>3. Answered(n, length)'
    <3>1. \A k \in 1 .. b + 1 : stream'[k] = <<n, a + k, length>>
      <4>1. reply[1] = <<n, a + b + 1, length>>
        <5>1. 1 \in 1 .. c /\ \A k \in 1 .. c : reply[k] = <<n, a + b + k, length>>
          BY <1>2, <1>3, <2>2 DEF Answered
        <5> QED
          BY <5>1
      <4>2. \A k \in 1 .. b + 1 : k \in 1 .. b \/ (k = b + 1 /\ a + k = a + b + 1)
        OBVIOUS
      <4> QED
        BY <1>2, <1>3, <2>2, <4>1, <4>2 DEF Answered
    <3>2. \A k \in 1 .. c - 1 : reply'[k] = <<n, a + (b + 1) + k, length>>
      <4>1. \A k \in 1 .. c : reply[k] = <<n, a + b + k, length>>
        BY <1>2, <2>2 DEF Answered
      <4>2. ASSUME NEW k \in 1 .. c - 1 PROVE reply'[k] = <<n, a + (b + 1) + k, length>>
        <5>1. k + 1 \in 1 .. c /\ a + (b + 1) + k = a + b + (k + 1)
          OBVIOUS
        <5>2. reply'[k] = reply[k + 1]
          BY <1>3
        <5> QED
          BY <4>1, <5>1, <5>2
      <4> QED
        BY <4>2
    <3> QED
      BY <1>1, <1>2, <1>3, <2>1, <2>2, <3>1, <3>2 DEF Answered
  <2>4. OnWay = 0 /\ request = n
    BY <1>1, <1>5 DEF Open, Unanswered
  <2> QED
    BY <1>1, <1>5, <2>1, <2>3, <2>4 DEF Open
<1>6. Len(kinds) \in Nat
  BY Typed DEF AnswerInv
<1> QED
  BY <1>1, <1>4, <1>5, <1>6, Unreturned

\* The steps of the thread.
LEMMA ServerAnswers ==
  ASSUME AnswerInv, Serving \/ Waiting \/ QuickAckFails
  PROVE  OpenInv' /\ OwnAnswer'
<1>1. CASE ReadHeader \/ ReadBody
  BY <1>1, RequestReadAnswers
<1>2. CASE Send
  BY <1>2, SendAnswers
<1>3. ASSUME server \in {"process", "send"}, NextRequest,
             UNCHANGED <<clientVars, request, toServer, arrived, stream>>
      PROVE  OpenInv' /\ OwnAnswer'
  BY <1>3, CutAnswers DEF NextRequest
<1>4. ASSUME Close PROVE OpenInv' /\ OwnAnswer'
  <2>1. /\ server' = "closed" /\ reply' = <<>>
        /\ UNCHANGED <<clientVars, request, toServer, arrived>>
        /\ stream' = stream \/ (arrived \o toServer # <<>> /\ stream' = <<>>)
    BY <1>4 DEF Close
  <2> QED
    BY <2>1, CutAnswers
<1>5. CASE Process
  BY <1>3, <1>5, ProcessAnswers DEF Process
<1>6. CASE Waiting \/ QuickAckFails
  BY <1>3, <1>4, <1>6 DEF Waiting, HeaderLate, BodyLost, SendFails, QuickAckFails
<1> QED
  BY <1>1, <1>2, <1>5, <1>6 DEF Serving

\* The invariant is inductive.
LEMMA NextAnswerInv == ASSUME AnswerInv, [Next]_vars PROVE AnswerInv'
<1>1. TypeInv'
  BY NextTypeInv DEF AnswerInv
<1>2. OpenInv' /\ OwnAnswer'
  <2>1. CASE UNCHANGED vars
    BY <2>1 DEF vars, clientVars, serverVars, AnswerInv, OpenInv, OwnAnswer, SaveBefore, Quiet, OnWay, Done,
                Open, Unanswered, Answered
  <2> QED
    BY <2>1, CallAnswers, WriteFailsAnswers, ClientAnswers, ArriveAnswers, ServerAnswers DEF Next
<1> QED
  BY <1>1, <1>2 DEF AnswerInv

\* A call that returns an answer returns its own, unless a save came before it: for any
\* number of calls, any size of the network's buffers, and whatever is lost or late.
THEOREM AnswersAreOwn == Spec => []OwnAnswer
<1>1. AnswerInv /\ [Next]_vars => AnswerInv'
  BY NextAnswerInv
<1>2. AnswerInv => OwnAnswer
  BY DEF AnswerInv
<1> QED
  BY <1>1, <1>2, InitAnswerInv, PTL DEF Spec

-----------------------------------------------------------------------------
(***************************************************************************)
(* What is sent in answer, also after a save: the pieces the client has    *)
(* read for its open call, those in the stream and those still to be sent, *)
(* one after the other, are in the order of the calls and none is twice    *)
(* among them.  For that no request is read twice: the headers that are    *)
(* still to be read are those of later calls, in the order of the calls.   *)
(***************************************************************************)
Earlier(x, y) == x[1] < y[1] \/ (x[1] = y[1] /\ x[2] < y[2])
Sorted(s) == \A k \in 1 .. Len(s), l \in 1 .. Len(s) : k < l => Earlier(s[k], s[l])
Before(a, b) == \A k \in 1 .. Len(a), l \in 1 .. Len(b) : Earlier(a[k], b[l])
Below(s, n) == \A k \in 1 .. Len(s) : s[k][1] < n

\* The server answers the requests in the order of the calls, each at most once.
AnsweredInOrder ==
  /\ Sorted(taken) /\ Sorted(stream) /\ Sorted(reply)
  /\ Before(taken, stream) /\ Before(taken, reply) /\ Before(stream, reply)

HeadersOnce(w, r) ==
  /\ \A k \in 1 .. Len(w) : w[k][2] = "header" => r < w[k][1]
  /\ \A k \in 1 .. Len(w), l \in 1 .. Len(w) :
       k < l /\ w[k][2] = "header" /\ w[l][2] = "header" => w[k][1] < w[l][1]

ReadInv == HeadersOnce(Incoming, request) /\ request <= Len(kinds)

\* A request that is read and not answered yet has no piece of an answer.
Limit == IF server \in {"body", "process"} THEN request ELSE request + 1

SentInv ==
  /\ AnsweredInOrder
  /\ Below(taken, Limit) /\ Below(stream, Limit) /\ Below(reply, Limit)
  /\ server # "send" => reply = <<>>

\* A call adds one header, of the latest call.
LEMMA CallOrdered ==
  ASSUME FrameInv, TypeInv, ReadInv, NEW kind \in Calls, Call(kind)
  PROVE  ReadInv'
<1>1. WireOK /\ WholeRequests(Incoming, kinds) /\ kinds \in Seq(Calls) /\ request \in Nat
  BY DEF FrameInv, WireOK, TypeInv, TypeOK
<1>2. PICK n \in Nat : n = Len(kinds) + 1
  BY <1>1, LenProperties
<1>3. PICK p \in Seq(Pieces) : p = PiecesOf(n, kind) /\ Incoming' = Incoming \o p
  BY <1>1, <1>2, CallSends
<1>4. Len(kinds') = n /\ request' = request /\ request <= n - 1 /\ Len(kinds) = n - 1
  BY <1>1, <1>2, KindsGrow DEF Call, serverVars, ReadInv
<1>5. PICK w \in Seq(Pieces), l \in Nat : w = Incoming /\ l = Len(w)
  BY <1>1, IncomingSeq, LenProperties
<1>6. PICK d \in {1, 2} : d = Len(p) /\ p[1] = <<n, "header">> /\ (d = 2 => p[2] = <<n, "body">>)
  BY <1>3 DEF PiecesOf
<1>7. PICK q : q = Incoming' /\ Len(q) = l + d
               /\ \A k \in 1 .. l + d : q[k] = IF k <= l THEN w[k] ELSE p[k - l]
  <2>1. /\ Len(w \o p) = Len(w) + Len(p)
        /\ \A k \in 1 .. Len(w) + Len(p) : (w \o p)[k] = IF k <= Len(w) THEN w[k] ELSE p[k - Len(w)]
    BY ConcatProperties
  <2>2. PICK q : q = w \o p
    OBVIOUS
  <2>3. Len(q) = l + d /\ \A k \in 1 .. l + d : q[k] = IF k <= l THEN w[k] ELSE p[k - l]
    BY <1>5, <1>6, <2>1, <2>2
  <2> QED
    BY <1>3, <1>5, <2>2, <2>3
<1>8. ASSUME NEW k \in 1 .. l + d, q[k][2] = "header"
      PROVE  (k \in 1 .. l /\ q[k] = w[k]) \/ (k = l + 1 /\ q[k][1] = n)
  <2>1. CASE k <= l
    BY <1>7, <2>1
  <2>2. CASE k > l
    <3>1. k - l \in {1, 2} /\ k - l <= d /\ q[k] = p[k - l]
      BY <1>7, <2>2
    <3>2. k - l = 1
      BY <1>6, <1>8, <3>1
    <3> QED
      BY <1>6, <3>1, <3>2
  <2> QED
    BY <2>1, <2>2
<1>9. \A k \in 1 .. l : w[k][1] \in 1 .. n - 1 /\ (w[k][2] = "header" => request < w[k][1])
  BY <1>1, <1>4, <1>5 DEF WholeRequests, ReadInv, HeadersOnce
<1>10. ASSUME NEW k \in 1 .. l + d, q[k][2] = "header" PROVE request < q[k][1]
  BY <1>1, <1>4, <1>8, <1>9, <1>10
<1>11. ASSUME NEW k \in 1 .. l + d, NEW m \in 1 .. l + d, k < m, q[k][2] = "header",
              q[m][2] = "header"
       PROVE  q[k][1] < q[m][1]
  <2>1. k \in 1 .. l /\ q[k] = w[k]
    BY <1>8, <1>11
  <2>2. CASE m \in 1 .. l /\ q[m] = w[m]
    BY <1>5, <1>11, <2>1, <2>2 DEF ReadInv, HeadersOnce
  <2>3. CASE q[m][1] = n
    <3>1. w[k][1] \in 1 .. n - 1
      BY <1>9, <2>1
    <3> QED
      BY <2>1, <2>3, <3>1
  <2> QED
    BY <1>8, <1>11, <2>2, <2>3
<1>12. HeadersOnce(q, request)
  BY <1>7, <1>10, <1>11 DEF HeadersOnce
<1>13. request <= n
  BY <1>1, <1>4
<1> QED
  BY <1>4, <1>7, <1>12, <1>13 DEF ReadInv

\* Taking a piece off the front; a header moves the request to its call.
LEMMA ReadOrdered ==
  ASSUME FrameInv, TypeInv, ReadInv, ReadHeader \/ ReadBody
  PROVE  ReadInv' /\ (ReadHeader => request < request') /\ (ReadBody => request' = request)
<1>1. /\ WireOK /\ arrived # <<>> /\ arrived' = Tail(arrived) /\ UNCHANGED <<toServer, kinds>>
      /\ request \in Nat /\ Len(kinds) \in Nat
  BY LenProperties DEF FrameInv, WireOK, ReadHeader, ReadBody, clientVars, TypeInv, TypeOK
<1>2. PICK w \in Seq(Pieces), l \in Nat :
        /\ w = Incoming /\ l = Len(w) /\ l > 0 /\ w # <<>> /\ w[1] = Head(arrived)
        /\ Len(Incoming') = l - 1 /\ \A k \in 1 .. l - 1 : Incoming'[k] = w[k + 1]
  BY <1>1, ReadTakesHead, IncomingSeq, LenProperties
<1>3. PICK q : q = Incoming'
  OBVIOUS
<1>4. /\ \A k \in 1 .. l - 1 : q[k] = w[k + 1] /\ k + 1 \in 1 .. l
      /\ Len(q) = l - 1 /\ 1 \in 1 .. l
      /\ \A k \in 1 .. l : w[k][1] \in Nat
  BY <1>2, <1>3 DEF Pieces
<1>5. HeadersOnce(w, request) /\ request <= Len(kinds)
  BY <1>2 DEF ReadInv
<1>6. ASSUME NEW k \in 1 .. l - 1, NEW m \in 1 .. l - 1, k < m,
             q[k][2] = "header", q[m][2] = "header"
      PROVE  q[k][1] < q[m][1]
  <2>1. k + 1 < m + 1
    BY <1>6
  <2> QED
    BY <1>2, <1>4, <1>5, <1>6, <2>1 DEF HeadersOnce
<1>7. CASE ReadHeader
  <2>1. w[1][2] = "header" /\ request' = w[1][1]
    BY <1>2, <1>7 DEF ReadHeader, FrameInv, InStep
  <2>2. request < request' /\ request' <= Len(kinds)
    BY <1>2, <1>4, <1>5, <2>1 DEF HeadersOnce, FrameInv, WholeRequests
  <2>3. ASSUME NEW k \in 1 .. l - 1, q[k][2] = "header" PROVE request' < q[k][1]
    <3>1. 1 < k + 1
      OBVIOUS
    <3> QED
      BY <1>2, <1>4, <1>5, <2>1, <2>3, <3>1 DEF HeadersOnce
  <2> QED
    BY <1>1, <1>3, <1>4, <1>6, <1>7, <2>2, <2>3 DEF ReadInv, HeadersOnce, ReadBody, ReadHeader
<1>8. CASE ReadBody
  <2>1. request' = request /\ server = "body"
    BY <1>8 DEF ReadBody
  <2>2. \A k \in 1 .. l - 1 : q[k][2] = "header" => request < q[k][1]
    BY <1>2, <1>4, <1>5 DEF HeadersOnce
  <2> QED
    BY <1>1, <1>3, <1>4, <1>5, <1>6, <2>1, <2>2 DEF ReadInv, HeadersOnce, ReadHeader
<1> QED
  BY <1>7, <1>8

LEMMA NextReadInv == ASSUME FrameInv, TypeInv, ReadInv, [Next]_vars PROVE ReadInv'
<1>1. ASSUME Incoming' = Incoming, UNCHANGED <<request, kinds>> PROVE ReadInv'
  BY <1>1 DEF ReadInv, HeadersOnce
<1>2. ASSUME UNCHANGED <<request, kinds, arrived, toServer>> PROVE ReadInv'
  BY <1>1, <1>2 DEF Incoming
<1>3. ASSUME NEW kind \in Calls, WriteFails(kind) PROVE ReadInv'
  <2>1. /\ UNCHANGED <<request, arrived, toServer>> /\ Len(kinds') = Len(kinds) + 1
        /\ Len(kinds) \in Nat /\ request \in Nat
    BY <1>3, KindsGrow DEF WriteFails, serverVars, FrameInv, TypeInv, TypeOK
  <2>2. Incoming' = Incoming /\ request <= Len(kinds')
    BY <2>1 DEF Incoming, ReadInv
  <2> QED
    BY <2>1, <2>2 DEF ReadInv, HeadersOnce
<1>4. CASE Arrive
  <2>1. Incoming' = Incoming
    BY <1>4, ArriveMoves DEF FrameInv
  <2> QED
    BY <1>1, <1>4, <2>1 DEF Arrive, clientVars, serverVars
<1>5. CASE Client \/ Leave
  BY <1>2, <1>5 DEF Client, Read, ReturnFixed, ReturnWhole, ReturnText, ReadFails, Return, Leave,
                    serverVars
<1>6. CASE Process \/ Send \/ Waiting \/ QuickAckFails \/ UNCHANGED vars
  BY <1>2, <1>6 DEF Process, Send, SendAtOnce, Waiting, HeaderLate, BodyLost, SendFails, Close,
                    QuickAckFails, NextRequest, vars, clientVars, serverVars
<1> QED
  BY <1>3, <1>4, <1>5, <1>6, CallOrdered, ReadOrdered DEF Next, Serving

-----------------------------------------------------------------------------
\* The first piece of b is moved behind a: whatever is in order with both stays so.
LEMMA MoveHead ==
  ASSUME NEW a \in Seq(Cells), NEW b \in Seq(Cells), b # <<>>,
         Sorted(a), Sorted(b), Before(a, b)
  PROVE  /\ Sorted(Append(a, Head(b))) /\ Sorted(Tail(b)) /\ Before(Append(a, Head(b)), Tail(b))
         /\ \A c \in Seq(Cells) :
              /\ Before(c, a) /\ Before(c, b) => Before(c, Append(a, Head(b))) /\ Before(c, Tail(b))
              /\ Before(a, c) /\ Before(b, c) => Before(Append(a, Head(b)), c) /\ Before(Tail(b), c)
         /\ \A n \in Nat :
              Below(a, n) /\ Below(b, n) => Below(Append(a, Head(b)), n) /\ Below(Tail(b), n)
<1>1. PICK l \in Nat, m \in Nat \ {0} : l = Len(a) /\ m = Len(b)
  BY EmptySeq, LenProperties
<1>2. PICK x \in Seq(Cells), y \in Seq(Cells) : x = Append(a, Head(b)) /\ y = Tail(b)
  <2>1. Head(b) \in Cells /\ Tail(b) \in Seq(Cells)
    BY HeadTailProperties
  <2>2. Append(a, Head(b)) \in Seq(Cells)
    BY <2>1, AppendProperties
  <2> QED
    BY <2>1, <2>2
<1>3. /\ Len(x) = l + 1 /\ x[l + 1] = b[1] /\ \A k \in 1 .. l : x[k] = a[k]
      /\ Len(y) = m - 1 /\ \A k \in 1 .. m - 1 : y[k] = b[k + 1]
  BY <1>1, <1>2, AppendProperties, HeadTailProperties
<1>4. \A k \in 1 .. l + 1 : (k \in 1 .. l /\ x[k] = a[k]) \/ (k = l + 1 /\ x[k] = b[1])
  BY <1>3
<1>5. 1 \in 1 .. m /\ \A k \in 1 .. m - 1 : k + 1 \in 1 .. m /\ 1 < k + 1 /\ y[k] = b[k + 1]
  BY <1>3
<1>6. Sorted(x)
  <2>1. ASSUME NEW k \in 1 .. l + 1, NEW i \in 1 .. l + 1, k < i PROVE Earlier(x[k], x[i])
    <3>1. k \in 1 .. l /\ x[k] = a[k]
      BY <1>3, <2>1
    <3>2. CASE i \in 1 .. l /\ x[i] = a[i]
      BY <1>1, <2>1, <3>1, <3>2 DEF Sorted
    <3>3. CASE x[i] = b[1]
      BY <1>1, <1>5, <3>1, <3>3 DEF Before
    <3> QED
      BY <1>4, <3>2, <3>3
  <2> QED
    BY <1>3, <2>1 DEF Sorted
<1>7. Sorted(y)
  <2>1. ASSUME NEW k \in 1 .. m - 1, NEW i \in 1 .. m - 1, k < i PROVE Earlier(y[k], y[i])
    <3>1. k + 1 < i + 1
      BY <2>1
    <3> QED
      BY <1>1, <1>5, <3>1 DEF Sorted
  <2> QED
    BY <1>3, <2>1 DEF Sorted
<1>8. Before(x, y)
  <2>1. ASSUME NEW k \in 1 .. l + 1, NEW i \in 1 .. m - 1 PROVE Earlier(x[k], y[i])
    <3>1. CASE k \in 1 .. l /\ x[k] = a[k]
      BY <1>1, <1>5, <3>1 DEF Before
    <3>2. CASE x[k] = b[1]
      BY <1>1, <1>5, <3>2 DEF Sorted
    <3> QED
      BY <1>4, <3>1, <3>2
  <2> QED
    BY <1>3, <2>1 DEF Before
<1>9. ASSUME NEW c \in Seq(Cells), Before(c, a), Before(c, b) PROVE Before(c, x) /\ Before(c, y)
  <2>1. ASSUME NEW k \in 1 .. Len(c), NEW i \in 1 .. l + 1 PROVE Earlier(c[k], x[i])
    BY <1>1, <1>4, <1>5, <1>9 DEF Before
  <2>2. ASSUME NEW k \in 1 .. Len(c), NEW i \in 1 .. m - 1 PROVE Earlier(c[k], y[i])
    BY <1>1, <1>5, <1>9 DEF Before
  <2> QED
    BY <1>3, <2>1, <2>2 DEF Before
<1>10. ASSUME NEW c \in Seq(Cells), Before(a, c), Before(b, c) PROVE Before(x, c) /\ Before(y, c)
  <2>1. ASSUME NEW k \in 1 .. Len(c), NEW i \in 1 .. l + 1 PROVE Earlier(x[i], c[k])
    BY <1>1, <1>4, <1>5, <1>10 DEF Before
  <2>2. ASSUME NEW k \in 1 .. Len(c), NEW i \in 1 .. m - 1 PROVE Earlier(y[i], c[k])
    BY <1>1, <1>5, <1>10 DEF Before
  <2> QED
    BY <1>3, <2>1, <2>2 DEF Before
<1>11. ASSUME NEW n \in Nat, Below(a, n), Below(b, n) PROVE Below(x, n) /\ Below(y, n)
  BY <1>1, <1>3, <1>4, <1>5, <1>11 DEF Below
<1> QED
  BY <1>2, <1>6, <1>7, <1>8, <1>9, <1>10, <1>11

LEMMA NothingInOrder ==
  /\ Sorted(<<>>) /\ \A c : Before(<<>>, c) /\ Before(c, <<>>)
  /\ \A n : Below(<<>>, n)
BY DEF Sorted, Before, Below

\* What is not answered yet only moves to later calls.
LEMMA LimitGrows ==
  ASSUME request \in Nat, request' \in Nat,
         \/ request' = request /\ (server' \in {"body", "process"} => server \in {"body", "process"})
         \/ request < request'
  PROVE  \E m \in Nat, n \in Nat : m = Limit /\ n = Limit' /\ m <= n
<1>1. PICK r \in Nat, p \in Nat : r = request /\ p = request'
  OBVIOUS
<1>2. PICK m : m = Limit
  OBVIOUS
<1>3. PICK n : n = Limit'
  OBVIOUS
<1>4. m = r \/ (m = r + 1 /\ server \notin {"body", "process"})
  BY <1>1, <1>2 DEF Limit
<1>5. n = p + 1 \/ (n = p /\ server' \in {"body", "process"})
  <2>1. CASE server' \in {"body", "process"}
    BY <1>1, <1>3, <2>1 DEF Limit
  <2>2. CASE server' \notin {"body", "process"}
    BY <1>1, <1>3, <2>2 DEF Limit
  <2> QED
    BY <2>1, <2>2
<1>6. r < p \/ (p = r /\ (n = p => m = r))
  BY <1>1, <1>4, <1>5
<1>7. m \in Nat /\ n \in Nat /\ m <= n
  BY <1>4, <1>5, <1>6
<1> QED
  BY <1>2, <1>3, <1>7

\* Pieces may be given up, and the limit may rise.
LEMMA GivenUp ==
  ASSUME TypeInv, SentInv, request \in Nat, request' \in Nat,
         taken' \in {taken, <<>>}, stream' \in {stream, <<>>}, reply' \in {reply, <<>>},
         \/ request' = request /\ (server' \in {"body", "process"} => server \in {"body", "process"})
         \/ request < request',
         server' # "send" => reply' = <<>>
  PROVE  SentInv'
<1>1. AnsweredInOrder'
  BY NothingInOrder DEF SentInv, AnsweredInOrder
<1>2. PICK m \in Nat, n \in Nat : m = Limit /\ n = Limit' /\ m <= n
  BY LimitGrows
<1>3. \A s \in Seq(Cells) : Below(s, m) => Below(s, n)
  <2>1. ASSUME NEW s \in Seq(Cells), Below(s, m), NEW k \in 1 .. Len(s) PROVE s[k][1] < n
    <3>1. s[k] \in Cells
      BY <2>1
    <3>2. s[k][1] \in Nat /\ s[k][1] < m
      BY <2>1, <3>1 DEF Cells, Below
    <3> QED
      BY <1>2, <3>2
  <2> QED
    BY <2>1 DEF Below
<1>4. taken \in Seq(Cells) /\ stream \in Seq(Cells) /\ reply \in Seq(Cells)
  BY DEF TypeInv, TypeOK
<1>5. Below(taken, m) /\ Below(stream, m) /\ Below(reply, m)
  BY <1>2 DEF SentInv
<1>6. Below(taken', n) /\ Below(stream', n) /\ Below(reply', n)
  BY <1>3, <1>4, <1>5, NothingInOrder
<1> QED
  BY <1>1, <1>2, <1>6 DEF SentInv

LEMMA ReadSent ==
  ASSUME TypeInv, SentInv, Read
  PROVE  SentInv'
<1>1. /\ stream # <<>> /\ taken' = Append(taken, Head(stream)) /\ stream' = Tail(stream)
      /\ UNCHANGED <<server, request, reply>>
  BY DEF Read, serverVars
<1>2. /\ taken \in Seq(Cells) /\ stream \in Seq(Cells) /\ reply \in Seq(Cells) /\ Limit \in Nat
      /\ Limit' = Limit
  BY <1>1 DEF TypeInv, TypeOK, Limit
<1>3. /\ Sorted(taken') /\ Sorted(stream') /\ Before(taken', stream')
      /\ Before(taken', reply) /\ Before(stream', reply)
  BY <1>1, <1>2, MoveHead DEF SentInv, AnsweredInOrder
<1>4. Below(taken', Limit) /\ Below(stream', Limit)
  BY <1>1, <1>2, MoveHead DEF SentInv, AnsweredInOrder
<1> QED
  BY <1>1, <1>2, <1>3, <1>4 DEF SentInv, AnsweredInOrder

LEMMA SendSent ==
  ASSUME TypeInv, SentInv, Send
  PROVE  SentInv'
<1>1. /\ server = "send" /\ stream' = Append(stream, Head(reply)) /\ reply' = Tail(reply)
      /\ server' = IF Len(reply) > 1 THEN "send"
                   ELSE IF kinds[request] \in Ending THEN "closed" ELSE "header"
      /\ UNCHANGED <<taken, request>>
  BY DEF Send, SendAtOnce, clientVars
<1>2. /\ taken \in Seq(Cells) /\ stream \in Seq(Cells) /\ reply \in Seq(Cells) /\ reply # <<>>
      /\ Limit \in Nat /\ Limit' = Limit
  BY <1>1 DEF TypeInv, TypeOK, Limit
<1>3. /\ Sorted(stream') /\ Sorted(reply') /\ Before(stream', reply')
      /\ Before(taken, stream') /\ Before(taken, reply')
  BY <1>1, <1>2, MoveHead DEF SentInv, AnsweredInOrder
<1>4. Below(stream', Limit) /\ Below(reply', Limit)
  BY <1>1, <1>2, MoveHead DEF SentInv, AnsweredInOrder
<1>5. server' # "send" => reply' = <<>>
  <2>1. Len(Tail(reply)) = Len(reply) - 1 /\ Tail(reply) \in Seq(Cells)
    BY <1>2, HeadTailProperties
  <2>2. Len(reply) \in Nat \ {0}
    BY <1>2, EmptySeq, LenProperties
  <2>3. server' # "send" => Len(Tail(reply)) = 0
    BY <1>1, <2>1, <2>2
  <2> QED
    BY <1>1, <2>1, <2>3, EmptySeq
<1> QED
  BY <1>1, <1>2, <1>3, <1>4, <1>5 DEF SentInv, AnsweredInOrder

\* The answer comes after all that was sent before.
LEMMA ProcessSent ==
  ASSUME TypeInv, SentInv, Process
  PROVE  SentInv'
<1>1. /\ server = "process" /\ UNCHANGED <<taken, stream, request>>
      /\ taken \in Seq(Cells) /\ stream \in Seq(Cells) /\ request \in Nat
  BY DEF Process, clientVars, TypeInv, TypeOK
<1>2. CASE NextRequest
  BY <1>1, <1>2, GivenUp DEF NextRequest
<1>3. ASSUME NEW length \in Lengths(kinds[request]), reply' = Answer(request, length),
             server' = "send"
      PROVE  SentInv'
  <2>1. length \in {3, 4} /\ request \in 1 .. MaxCalls
    BY <1>1, <1>3 DEF Lengths, TypeInv, TypeOK
  <2>2. PICK q : /\ q = reply' /\ Len(q) = length
                 /\ \A k \in 1 .. Len(q) : q[k][1] = request /\ q[k][2] = k
    <3>1. PICK q : q = Answer(request, length)
      OBVIOUS
    <3>2. Len(q) = length /\ \A k \in 1 .. length : q[k] = <<request, k, length>>
      BY <2>1, <3>1, AnswerTyped
    <3>3. \A k \in 1 .. Len(q) : q[k][1] = request /\ q[k][2] = k
      BY <3>2
    <3> QED
      BY <1>3, <3>1, <3>2, <3>3
  <2>3. Sorted(q) /\ Below(q, request + 1)
    BY <1>1, <2>1, <2>2 DEF Sorted, Earlier, Below
  <2>4. Below(taken, request) /\ Below(stream, request)
    BY <1>1 DEF SentInv, Limit
  <2>5. Before(taken, q) /\ Before(stream, q)
    BY <2>2, <2>4 DEF Before, Earlier, Below
  <2>6. ASSUME NEW s \in Seq(Cells), Below(s, request) PROVE Below(s, request + 1)
    <3>1. \A k \in 1 .. Len(s) : s[k] \in Cells
      BY <2>6
    <3>2. \A k \in 1 .. Len(s) : s[k][1] \in Nat /\ s[k][1] < request
      BY <2>6, <3>1 DEF Cells, Below
    <3> QED
      BY <1>1, <3>2 DEF Below
  <2>7. Below(taken, request + 1) /\ Below(stream, request + 1)
    BY <1>1, <2>4, <2>6
  <2>8. Limit' = request + 1
    BY <1>1, <1>3 DEF Limit
  <2> QED
    BY <1>1, <1>3, <2>2, <2>3, <2>5, <2>7, <2>8 DEF SentInv, AnsweredInOrder
<1> QED
  BY <1>2, <1>3 DEF Process

LEMMA NextSentInv == ASSUME FrameInv, TypeInv, ReadInv, SentInv, [Next]_vars PROVE SentInv'
<1>1. request \in Nat /\ taken \in {taken, <<>>} /\ stream \in {stream, <<>>}
  BY DEF TypeInv, TypeOK
<1>2. ASSUME NEW kind \in Calls, Call(kind) \/ WriteFails(kind) PROVE SentInv'
  BY <1>1, <1>2, GivenUp DEF Call, WriteFails, serverVars, SentInv
<1>3. CASE Client \/ Leave \/ Arrive
  <2>1. ASSUME taken' \in {taken, <<>>}, UNCHANGED <<stream, serverVars>> PROVE SentInv'
    BY <1>1, <2>1, GivenUp DEF serverVars, SentInv
  <2> QED
    BY <1>3, <2>1, ReadSent DEF Client, ReturnFixed, ReturnWhole, ReturnText, ReadFails, Return,
                                Leave, Arrive, clientVars
<1>4. CASE ReadHeader
  <2>1. request < request' /\ request' \in Nat
    BY <1>4, ReadOrdered, NextTypeInv DEF TypeInv, TypeOK
  <2>2. UNCHANGED <<taken, stream, reply>> /\ server = "header"
    BY <1>4 DEF ReadHeader, clientVars
  <2> QED
    BY <1>1, <2>1, <2>2, GivenUp DEF SentInv
<1>5. CASE ReadBody
  BY <1>1, <1>5, GivenUp DEF ReadBody, clientVars, SentInv
<1>6. CASE Waiting \/ QuickAckFails
  <2>1. ASSUME Close PROVE SentInv'
    BY <1>1, <2>1, GivenUp DEF Close, clientVars
  <2>2. ASSUME NextRequest, UNCHANGED <<clientVars, request, stream>> PROVE SentInv'
    BY <1>1, <2>2, GivenUp DEF NextRequest, clientVars
  <2> QED
    BY <1>6, <2>1, <2>2 DEF Waiting, HeaderLate, BodyLost, SendFails, QuickAckFails
<1>7. CASE UNCHANGED vars
  BY <1>1, <1>7, GivenUp DEF vars, clientVars, serverVars, SentInv
<1> QED
  BY <1>2, <1>3, <1>4, <1>5, <1>6, <1>7, ProcessSent, SendSent DEF Next, Serving

\* However long the connection lasts, and whatever is late, lost or given up: the server
\* answers the requests in the order of the calls, none of them twice, and what a client
\* finds in its stream, if it is not all its own, is left of an earlier call.
THEOREM AnswersInOrder == Spec => []AnsweredInOrder
<1>1. Init => FrameInv /\ TypeInv /\ ReadInv /\ SentInv
  <2> SUFFICES ASSUME Init PROVE FrameInv /\ TypeInv /\ ReadInv /\ SentInv
    OBVIOUS
  <2>1. FrameInv /\ TypeInv
    BY InitFrameInv, InitTypeInv
  <2>2. Incoming = <<>> /\ request = 0 /\ Len(kinds) = 0
    BY <2>1, IncomingSeq, EmptySeq DEF Init, FrameInv
  <2>3. ReadInv
    BY <2>2 DEF ReadInv, HeadersOnce
  <2>4. SentInv
    BY NothingInOrder DEF Init, SentInv, AnsweredInOrder
  <2> QED
    BY <2>1, <2>3, <2>4
<1>2. FrameInv /\ TypeInv /\ ReadInv /\ SentInv /\ [Next]_vars
        => (FrameInv /\ TypeInv /\ ReadInv /\ SentInv)'
  BY NextFrameInv, NextTypeInv, NextReadInv, NextSentInv
<1>3. SentInv => AnsweredInOrder
  BY DEF SentInv
<1> QED
  BY <1>1, <1>2, <1>3, PTL DEF Spec
=============================================================================
