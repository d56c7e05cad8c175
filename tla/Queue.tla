------------------------------- MODULE Queue -------------------------------
(***************************************************************************)
(* The asynchronous queue of lib/queue.js, between every two stages of a   *)
(* flow and between most network clients and the input that reads them.    *)
(*                                                                         *)
(* push and pop are async functions: a call runs in pieces, each of them   *)
(* atomic, from one await to the next.  An action is such a piece.  The    *)
(* pieces that are ready to run stand in jobs (promise continuations) and  *)
(* ticks (process.nextTick callbacks of the semaphore), both served in     *)
(* order; which of the two goes first is left open.                        *)
(***************************************************************************)
EXTENDS Semaphore, FiniteSets

CONSTANTS MaxSize,   \* capacity of the queue, 0 when it is unbounded
          MaxCalls,  \* bound: how many times push is called
          Poppers,   \* callers of pop, each with one call at a time
          Awaited    \* TRUE: one producer, which awaits each push

ASSUME MaxSizeAssumption == MaxSize \in Nat
ASSUME MaxCallsAssumption == MaxCalls \in Nat
ASSUME PoppersAssumption == IsFiniteSet(Poppers) /\ Poppers \cap Nat = {}
ASSUME AwaitedAssumption == Awaited \in BOOLEAN

(* The n-th call of push pushes item n.                                    *)
Pushes == 1..MaxCalls
Callers == Pushes \cup Poppers

VARIABLES data,   \* the items of the list, the one pop() removes first
          slots,  \* this.sem: free room; unused when MaxSize = 0
          mutex,  \* this.mutex: poppers of an empty queue wait for it
          push,   \* where each call of push stands
          pop,    \* where each popper's call stands
          jobs,   \* promise continuations to run
          ticks,  \* semaphore grants to run
          out     \* history: the items popped, in order

vars == <<data, slots, mutex, push, pop, jobs, ticks, out>>

(* "idle": not called; "ready": past the call, before `await this.ready`   *)
(* ends; "blocked": queued for a slot; "granted": its slot is in ticks;    *)
(* "slot": holds a slot, about to insert; "done".                          *)
PushState == {"idle", "ready", "blocked", "granted", "slot", "done"}

(* "waiting": queued for the mutex; "granted": the mutex is in ticks;      *)
(* "woken": about to test the list again.                                  *)
PopState == {"idle", "ready", "waiting", "granted", "woken"}

TypeOK ==
  /\ data \in Seq(Pushes)
  /\ slots \in SemaphoreOf(Pushes) /\ slots.cur \in 0..MaxSize
  /\ mutex \in SemaphoreOf(Poppers) /\ mutex.cur \in 0..1
  /\ push \in [Pushes -> PushState]
  /\ pop \in [Poppers -> PopState]
  /\ jobs \in Seq(Callers)
  /\ ticks \in Seq(Callers)
  /\ out \in Seq(Pushes)

(* new Queue(maxSize): the first mutex.take() is granted, its promise is   *)
(* this.ready, and the mutex stays taken while the list is empty.          *)
Init ==
  /\ data = <<>>
  /\ slots = Sem(MaxSize)
  /\ mutex = Take(Sem(1), "constructor")
  /\ push = [n \in Pushes |-> "idle"]
  /\ pop = [c \in Poppers |-> "idle"]
  /\ jobs = <<>>
  /\ ticks = <<>>
  /\ out = <<>>

Running(caller) == jobs # <<>> /\ Head(jobs) = caller

(* nextTick(task) for the caller a leave() wakes, if any.                  *)
Tick(woken) ==
  IF woken = {} THEN ticks ELSE Append(ticks, CHOOSE c \in woken : TRUE)

(***************************************************************************)
(* push                                                                    *)
(***************************************************************************)

CallPush(n) ==
  /\ push[n] = "idle"
  /\ \A m \in Pushes : m < n => push[m] # "idle"
  /\ Awaited => \A m \in Pushes : m < n => push[m] = "done"
  /\ push' = [push EXCEPT ![n] = "ready"]
  /\ jobs' = Append(jobs, n)
  /\ UNCHANGED <<data, slots, mutex, pop, ticks, out>>

InsertItem(n) == data' = Append(data, n)

(* A push that wakes no popper when the list was not empty.                *)
WakeOnlyFirst ==
  IF ~Available(mutex) /\ data = <<>>
    THEN /\ mutex' = Leave(mutex)
         /\ pop' = Grant(pop, Woken(mutex))
         /\ ticks' = Tick(Woken(mutex))
    ELSE UNCHANGED <<mutex, pop, ticks>>

(* if(!mutex.available()) mutex.leave()                                    *)
WakePopper ==
  IF ~Available(mutex)
    THEN /\ mutex' = Leave(mutex)
         /\ pop' = Grant(pop, Woken(mutex))
         /\ ticks' = Tick(Woken(mutex))
    ELSE UNCHANGED <<mutex, pop, ticks>>

(* The rest of push once there is room: it runs to the end of the call.    *)
Insert(n) ==
  /\ InsertItem(n)
  /\ WakePopper
  /\ push' = [push EXCEPT ![n] = "done"]
  /\ jobs' = Tail(jobs)
  /\ UNCHANGED <<slots, out>>

(* A push that does not await the slot it asks for.                        *)
TakeSlotUnawaited(n) ==
  /\ slots' = Take(slots, n)
  /\ push' = [push EXCEPT ![n] = "slot"]
  /\ jobs' = Append(Tail(jobs), n)
  /\ UNCHANGED <<data, mutex, pop, ticks, out>>

(* await this.sem.take()                                                   *)
TakeSlot(n) ==
  /\ slots' = Take(slots, n)
  /\ IF Available(slots)
       THEN /\ push' = [push EXCEPT ![n] = "slot"]
            /\ jobs' = Append(Tail(jobs), n)
       ELSE /\ push' = [push EXCEPT ![n] = "blocked"]
            /\ jobs' = Tail(jobs)
  /\ UNCHANGED <<data, mutex, pop, ticks, out>>

(* The piece of push after `await this.ready`.                             *)
ResumePush(n) ==
  /\ Running(n)
  /\ push[n] = "ready"
  /\ IF MaxSize = 0 THEN Insert(n) ELSE TakeSlot(n)

(* The piece of push after `await this.sem.take()`.                        *)
FinishPush(n) ==
  /\ Running(n)
  /\ push[n] = "slot"
  /\ Insert(n)

(***************************************************************************)
(* pop                                                                     *)
(***************************************************************************)

CallPop(c) ==
  /\ pop[c] = "idle"
  /\ pop' = [pop EXCEPT ![c] = "ready"]
  /\ jobs' = Append(jobs, c)
  /\ UNCHANGED <<data, slots, mutex, push, ticks, out>>

(* while(!data.length) await mutex.take()                                  *)
WaitForItem(c) ==
  /\ data = <<>>
  /\ mutex' = Take(mutex, c)
  /\ IF Available(mutex)
       THEN /\ pop' = [pop EXCEPT ![c] = "woken"]
            /\ jobs' = Append(Tail(jobs), c)
       ELSE /\ pop' = [pop EXCEPT ![c] = "waiting"]
            /\ jobs' = Tail(jobs)
  /\ UNCHANGED <<data, slots, push, ticks, out>>

(* if(sem && sem.sem.current > 0) sem.leave()                              *)
FreeSlot ==
  IF MaxSize > 0 /\ slots.cur > 0
    THEN /\ slots' = Leave(slots)
         /\ push' = Grant(push, Woken(slots))
         /\ ticks' = Tick(Woken(slots))
    ELSE UNCHANGED <<slots, push, ticks>>

(* A pop that reads the item and leaves it in the list.                    *)
PeekItem == UNCHANGED data

RemoveItem == data' = Tail(data)

TakeItem(c) ==
  /\ data # <<>>
  /\ RemoveItem
  /\ out' = Append(out, Head(data))
  /\ FreeSlot
  /\ pop' = [pop EXCEPT ![c] = "idle"]
  /\ jobs' = Tail(jobs)
  /\ UNCHANGED mutex

(* A piece of pop: after `await this.ready` or after `await mutex.take()`. *)
ResumePop(c) ==
  /\ Running(c)
  /\ pop[c] \in {"ready", "woken"}
  /\ WaitForItem(c) \/ TakeItem(c)

(***************************************************************************)
(* The semaphore's nextTick callback resolves the promise of a take().     *)
(***************************************************************************)

GrantSlot(n) ==
  /\ ticks # <<>> /\ Head(ticks) = n
  /\ push[n] = "granted"
  /\ push' = [push EXCEPT ![n] = "slot"]
  /\ ticks' = Tail(ticks)
  /\ jobs' = Append(jobs, n)
  /\ UNCHANGED <<data, slots, mutex, pop, out>>

GrantMutex(c) ==
  /\ ticks # <<>> /\ Head(ticks) = c
  /\ pop[c] = "granted"
  /\ pop' = [pop EXCEPT ![c] = "woken"]
  /\ ticks' = Tail(ticks)
  /\ jobs' = Append(jobs, c)
  /\ UNCHANGED <<data, slots, mutex, push, out>>

RunJob ==
  \/ \E n \in Pushes : ResumePush(n) \/ FinishPush(n)
  \/ \E c \in Poppers : ResumePop(c)

RunTick ==
  \/ \E n \in Pushes : GrantSlot(n)
  \/ \E c \in Poppers : GrantMutex(c)

Next ==
  \/ \E n \in Pushes : CallPush(n)
  \/ \E c \in Poppers : CallPop(c)
  \/ RunJob
  \/ RunTick

(* Node runs every microtask and every tick that is queued.                *)
Fairness == WF_vars(RunJob) /\ WF_vars(RunTick)

Spec == Init /\ [][Next]_vars /\ Fairness

(***************************************************************************)
(* Properties                                                              *)
(***************************************************************************)

Holding == {n \in Pushes : push[n] \in {"granted", "slot"}}
Awake == {c \in Poppers : pop[c] \in {"granted", "woken"}}

(* The taken slots are exactly the items in the list and the pushes about  *)
(* to insert, through every interleaving of pushes, pops and late grants   *)
(* (queue.js:47-49, 84-86), so a bounded queue never outgrows its limit.   *)
SlotsAccounted ==
  MaxSize > 0 => /\ slots.cur = Len(data) + Cardinality(Holding)
                 /\ slots.cur <= MaxSize

(* No lost wakeup (queue.js:53-55, 78-80): while a popper waits for the    *)
(* mutex, every item in the list has an awake popper to take it.           *)
NoLostWakeup == mutex.wait # <<>> => Len(data) <= Cardinality(Awake)

(* A push waits for a slot only while every slot is taken.                 *)
NoIdleSlot == slots.wait # <<>> => slots.cur = MaxSize

(* What every step keeps, and the bounds above follow from: the two wait   *)
(* queues agree with the callers (a granted caller is never granted again, *)
(* queue.js:48, 54, 79, 85), and a popper waits only while the mutex is    *)
(* taken.                                                                  *)
IInv ==
  /\ TypeOK
  /\ slots.cap = MaxSize /\ mutex.cap = 1
  /\ Queued(slots, push, "blocked")
  /\ Queued(mutex, pop, "waiting")
  /\ mutex.wait # <<>> => mutex.cur = 1
  /\ SlotsAccounted
  /\ NoIdleSlot
  /\ NoLostWakeup

(* The queue implements the abstract FIFO: push takes effect at its        *)
(* unshift, pop at its removal (queue.js:44-93).                           *)
Fifo == INSTANCE BoundedFifo WITH
  Items <- Pushes, Clients <- Poppers, Capacity <- MaxSize,
  pushing <- {n \in Pushes : push[n] \notin {"idle", "done"}},
  queue <- data,
  popping <- {c \in Poppers : pop[c] # "idle"},
  served <- out

ImplementsFifo == Fifo!Spec
=============================================================================
