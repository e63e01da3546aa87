---------------------------- MODULE BoundedFifo ----------------------------
(***************************************************************************)
(* What a multi-threaded queue promises: calls of push and pop by several  *)
(* threads behave as a bounded first-in first-out queue that puts and      *)
(* takes one item at a time.  A call is open from its invocation until the *)
(* step at which its effect takes place; a pop may be abandoned (its       *)
(* thread is cancelled while it waits) and then has no effect.             *)
(***************************************************************************)
EXTENDS Naturals, Sequences

CONSTANTS Producers, Consumers, Items, Capacity

VARIABLES
  q,        \* the items in the queue, oldest first
  pushing,  \* the open pushes: a set of <<producer, item>>
  popping   \* the consumers with an open pop

fifoVars == <<q, pushing, popping>>

Init ==
  /\ q = <<>>
  /\ pushing = {}
  /\ popping = {}

CallPush(p, v) ==
  /\ \A c \in pushing : c[1] # p
  /\ pushing' = pushing \cup {<<p, v>>}
  /\ UNCHANGED <<q, popping>>

Put(c) ==
  /\ c \in pushing
  /\ Len(q) < Capacity
  /\ q' = Append(q, c[2])
  /\ pushing' = pushing \ {c}
  /\ UNCHANGED popping

CallPop(c) ==
  /\ c \notin popping
  /\ popping' = popping \cup {c}
  /\ UNCHANGED <<q, pushing>>

Take(c) ==
  /\ c \in popping
  /\ q # <<>>
  /\ q' = Tail(q)
  /\ popping' = popping \ {c}
  /\ UNCHANGED pushing

Abandon(c) ==
  /\ c \in popping
  /\ popping' = popping \ {c}
  /\ UNCHANGED <<q, pushing>>

\* The queue is destroyed once no call is open; what it still holds is dropped.
Destroy ==
  /\ pushing = {} /\ popping = {}
  /\ q' = <<>>
  /\ UNCHANGED <<pushing, popping>>

PutSome  == \E c \in Producers \X Items : Put(c)
TakeSome == \E c \in Consumers : Take(c)

Next ==
  \/ \E p \in Producers, v \in Items : CallPush(p, v)
  \/ PutSome
  \/ \E c \in Consumers : CallPop(c) \/ Abandon(c)
  \/ TakeSome
  \/ Destroy

\* As long as a push is open and there is room, some push takes effect; as long
\* as a pop is open and there is an item, some pop takes effect.
Spec ==
  /\ Init /\ [][Next]_fifoVars
  /\ WF_fifoVars(PutSome)
  /\ WF_fifoVars(TakeSome)
=============================================================================
