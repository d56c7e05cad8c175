---------------------------- MODULE BoundedFifo ----------------------------
(***************************************************************************)
(* What lib/queue.js promises: a FIFO queue of at most Capacity items      *)
(* (Capacity = 0: no limit) whose push and pop never fail and never        *)
(* forget a caller.  A push takes effect at some moment after the call, a  *)
(* pop is answered at some moment after the call; nothing else is said of  *)
(* microtasks, ticks, slots or mutexes.                                    *)
(***************************************************************************)
EXTENDS Naturals, Sequences

CONSTANTS Items,    \* what is pushed
          Clients,  \* who pops
          Capacity  \* the limit of the queue, 0 for none

VARIABLES pushing,  \* items whose push has been called and is not done
          queue,    \* the items in the queue, the next one to leave first
          popping,  \* clients whose pop has been called and is not answered
          served    \* the items popped so far, in order

vars == <<pushing, queue, popping, served>>

Init ==
  /\ pushing = {}
  /\ queue = <<>>
  /\ popping = {}
  /\ served = <<>>

HasRoom == Capacity = 0 \/ Len(queue) < Capacity

CallPush(i) ==
  /\ i \notin pushing
  /\ pushing' = pushing \cup {i}
  /\ UNCHANGED <<queue, popping, served>>

DoPush(i) ==
  /\ i \in pushing
  /\ HasRoom
  /\ pushing' = pushing \ {i}
  /\ queue' = Append(queue, i)
  /\ UNCHANGED <<popping, served>>

CallPop(c) ==
  /\ c \notin popping
  /\ popping' = popping \cup {c}
  /\ UNCHANGED <<pushing, queue, served>>

DoPop(c) ==
  /\ c \in popping
  /\ queue # <<>>
  /\ popping' = popping \ {c}
  /\ queue' = Tail(queue)
  /\ served' = Append(served, Head(queue))
  /\ UNCHANGED pushing

SomePush == \E i \in Items : DoPush(i)
SomePop == \E c \in Clients : DoPop(c)

Next ==
  \/ \E i \in Items : CallPush(i)
  \/ \E c \in Clients : CallPop(c)
  \/ SomePush
  \/ SomePop

(* A queue with room and a push, or with an item and a pop, does not rest. *)
Spec == Init /\ [][Next]_vars /\ WF_vars(SomePush) /\ WF_vars(SomePop)
=============================================================================
