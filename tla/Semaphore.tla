----------------------------- MODULE Semaphore -----------------------------
(***************************************************************************)
(* The counting semaphore behind every queue and stage of nsyslog          *)
(* (lib/semaphore.js, a promise wrapper of the npm package "semaphore").   *)
(* The program only ever takes and leaves one slot at a time, so a         *)
(* semaphore is a record                                                   *)
(*   cap  - its capacity,                                                  *)
(*   cur  - how many slots are taken,                                      *)
(*   wait - the callers queued for a slot, in the order they asked.        *)
(* These are operators on that record: the modules that own a semaphore    *)
(* keep it in a variable and say when a granted caller resumes.            *)
(***************************************************************************)
EXTENDS Integers, Sequences

(* The record of a semaphore whose callers are members of Caller.          *)
SemaphoreOf(Caller) == [cap : Nat, cur : Int, wait : Seq(Caller)]

(* new Semaphore(capacity): every slot is free.                            *)
Sem(capacity) == [cap |-> capacity, cur |-> 0, wait |-> <<>>]

(* available(1): one more slot can be taken without waiting.               *)
Available(s) == s.cur + 1 <= s.cap

(* take(): the slot is taken at once, or the caller queues for it.         *)
Take(s, caller) ==
  IF Available(s) THEN [s EXCEPT !.cur = @ + 1]
                  ELSE [s EXCEPT !.wait = Append(@, caller)]

(* leave() hands the slot over only when the first waiter fits in it.      *)
HandsOver(s) == s.wait # <<>> /\ s.cur <= s.cap

(* A leave() that frees the slot and never looks at its waiters.           *)
LeaveForgetsWaiters(s) == [s EXCEPT !.cur = @ - 1]

(* leave(): a slot that is handed over stays taken, by the first waiter.   *)
Leave(s) ==
  IF HandsOver(s) THEN [s EXCEPT !.wait = Tail(@)]
                  ELSE [s EXCEPT !.cur = @ - 1]

(* Who a leave() wakes: no one, or the first waiter.                       *)
Woken(s) == IF HandsOver(s) THEN {Head(s.wait)} ELSE {}

(* leave() throws "leave called too many times." when no slot was taken    *)
(* and no one waits; the count stays decremented.                          *)
LeaveThrows(s) == s.wait = <<>> /\ s.cur - 1 < 0

(* The state of the callers a leave() has woken.                           *)
Grant(state, woken) ==
  [c \in DOMAIN state |-> IF c \in woken THEN "granted" ELSE state[c]]

(* The callers queued for a semaphore are callers that wait, once each.    *)
Queued(s, state, waiting) ==
  /\ \A i \in 1..Len(s.wait) : state[s.wait[i]] = waiting
  /\ \A i, j \in 1..Len(s.wait) : s.wait[i] = s.wait[j] => i = j

(* A caller that waits is queued.                                          *)
AllQueued(s, state, waiting) ==
  \A c \in DOMAIN state :
    state[c] = waiting => \E i \in 1..Len(s.wait) : s.wait[i] = c

(* A semaphore of n slots where those who wait are queued, each once, and  *)
(* wait only while every slot is taken.                                    *)
Sound(s, state, C, n) ==
  /\ s \in SemaphoreOf(C) /\ s.cap = n /\ s.cur \in 0..n
  /\ Queued(s, state, "blocked") /\ AllQueued(s, state, "blocked")
  /\ s.wait # <<>> => s.cur = n
=============================================================================
