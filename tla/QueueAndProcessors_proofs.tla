---------------------- MODULE QueueAndProcessors_proofs ---------------------
(***************************************************************************)
(* Proofs about three modules that share no state.  About Queue, for every *)
(* limit, every number of pushes, any finite set of poppers, and pushes    *)
(* awaited or not: its slots, its wakeups, and that it implements the      *)
(* bounded FIFO.  About Multilang, for any finite set of workers, any      *)
(* number of entries and of emits, and deaths of the workers: an entry is  *)
(* answered once, with all that was emitted for it, and each worker gets   *)
(* its entries in order.  About BufferingProcessors, for any number of     *)
(* entries, any finite set of keys, any limit and each mode of the filter: *)
(* an entry is counted once, and those of a key come out in order.         *)
(***************************************************************************)
EXTENDS Queue, Multilang, BufferingProcessors, Operators_proofs, TLAPS

-----------------------------------------------------------------------------
(* The queue.                                                              *)

(***************************************************************************)
(* Callers.                                                                *)
(***************************************************************************)

LEMMA CallersFinite == IsFiniteSet(Pushes) /\ IsFiniteSet(Poppers)
  BY FS_Interval, MaxCallsAssumption, PoppersAssumption DEF Pushes

LEMMA TickType ==
  ASSUME TypeOK, NEW y \in Callers
  PROVE  Tick({}) = ticks /\ Tick({y}) \in Seq(Callers)
<1>1. ticks \in Seq(Callers)
  BY DEF TypeOK
<1>2. (CHOOSE c \in {y} : TRUE) = y
  OBVIOUS
<1> QED
  BY <1>1, <1>2 DEF Tick

(***************************************************************************)
(* The invariant.                                                          *)
(***************************************************************************)

LEMMA InitKeeps == Init => IInv
<1> SUFFICES ASSUME Init PROVE IInv
  OBVIOUS
<1> USE MaxSizeAssumption
<1>1. /\ slots = [cap |-> MaxSize, cur |-> 0, wait |-> <<>>]
      /\ mutex = [cap |-> 1, cur |-> 1, wait |-> <<>>]
  BY DEF Init, Sem, Take, Available
<1>2. TypeOK
  <2>1. /\ push \in [Pushes -> PushState] /\ pop \in [Poppers -> PopState]
        /\ data \in Seq(Pushes) /\ out \in Seq(Pushes)
        /\ jobs \in Seq(Callers) /\ ticks \in Seq(Callers)
    BY DEF Init, PushState, PopState
  <2>2. slots \in SemaphoreOf(Pushes) /\ mutex \in SemaphoreOf(Poppers)
    BY <1>1 DEF SemaphoreOf
  <2>3. slots.cur \in 0..MaxSize /\ mutex.cur \in 0..1
    BY <1>1
  <2> QED
    BY <2>1, <2>2, <2>3 DEF TypeOK
<1>3. Holding = {}
  BY DEF Init, Holding
<1>4. SlotsAccounted
  BY <1>1, <1>3, FS_EmptySet DEF Init, SlotsAccounted
<1>5. Queued(slots, push, "blocked") /\ Queued(mutex, pop, "waiting")
  BY <1>1 DEF Queued
<1> QED
  BY <1>1, <1>2, <1>4, <1>5 DEF IInv, NoIdleSlot, NoLostWakeup

(* What the end of push does to the mutex: with a popper waiting, one more *)
(* popper is awake afterwards.                                             *)
LEMMA WakeKeeps ==
  ASSUME IInv, WakePopper
  PROVE  /\ mutex' \in SemaphoreOf(Poppers) /\ mutex'.cur \in 0..1
         /\ mutex'.cap = 1
         /\ pop' \in [Poppers -> PopState]
         /\ ticks' \in Seq(Callers)
         /\ Queued(mutex', pop', "waiting")
         /\ mutex'.wait # <<>> => /\ mutex'.cur = 1
                                  /\ mutex.wait # <<>>
                                  /\ Cardinality(Awake') = Cardinality(Awake) + 1
<1> USE DEF IInv
<1>0. /\ mutex \in SemaphoreOf(Poppers) /\ mutex.cur \in 0..1 /\ mutex.cap = 1
      /\ pop \in [Poppers -> PopState] /\ ticks \in Seq(Callers)
      /\ mutex.wait \in Seq(Poppers)
  BY DEF TypeOK, SemaphoreOf
<1>1. CASE Available(mutex)
  <2>1. mutex.cur = 0 /\ mutex.wait = <<>>
    BY <1>0, <1>1 DEF Available
  <2> QED
    BY <1>0, <1>1, <2>1 DEF WakePopper
<1>2. CASE ~Available(mutex)
  <2>0. /\ mutex' = Leave(mutex) /\ mutex.cur = 1
        /\ pop' = Grant(pop, Woken(mutex)) /\ ticks' = Tick(Woken(mutex))
    BY <1>0, <1>2 DEF WakePopper, Available
  <2>1. Queued(mutex', pop', "waiting")
    <3>1. "waiting" \in PopState /\ "waiting" # "granted"
      BY DEF PopState
    <3> QED
      BY <1>0, <2>0, <3>1, QueuedLeave
  <2>2. CASE HandsOver(mutex)
    <3> DEFINE y == mutex.wait[1]
    <3>1. /\ mutex' \in SemaphoreOf(Poppers) /\ mutex'.cap = 1 /\ mutex'.cur = 1
          /\ Woken(mutex) = {y} /\ y \in Poppers /\ Len(mutex.wait) >= 1
      BY <1>0, <2>0, <2>2, LeaveProperties
    <3>2. pop[y] = "waiting"
      BY <1>0, <3>1 DEF Queued
    <3>3. pop' = [pop EXCEPT ![y] = "granted"]
      BY <1>0, <2>0, <3>1 DEF Grant
    <3>4. ticks' \in Seq(Callers)
      BY <2>0, <3>1, TickType DEF Callers
    <3>5. Cardinality(Awake') = Cardinality(Awake) + 1
      <4> HIDE DEF y
      <4>1. Awake \in SUBSET Poppers /\ Awake' \in SUBSET Poppers
        BY DEF Awake
      <4>2. \A c \in Poppers : c # y => (c \in Awake <=> c \in Awake')
        BY <1>0, <3>3 DEF Awake
      <4>3. y \notin Awake /\ y \in Awake'
        BY <1>0, <3>1, <3>2, <3>3 DEF Awake
      <4> QED
        BY <3>1, <4>1, <4>2, <4>3, CardinalityStep, CallersFinite
    <3>6. pop' \in [Poppers -> PopState]
      BY <1>0, <3>3 DEF PopState
    <3>7. mutex.wait # <<>>
      BY <2>2 DEF HandsOver
    <3> QED
      BY <2>1, <3>1, <3>4, <3>5, <3>6, <3>7
  <2>3. CASE ~HandsOver(mutex)
    <3>1. /\ mutex' \in SemaphoreOf(Poppers) /\ mutex'.cap = 1 /\ mutex'.cur = 0
          /\ mutex'.wait = mutex.wait /\ Woken(mutex) = {}
      BY <1>0, <2>0, <2>3, LeaveProperties
    <3>2. mutex'.wait = <<>>
      BY <1>0, <2>0, <2>3, <3>1 DEF HandsOver
    <3>3. pop' = pop /\ ticks' = ticks
      BY <1>0, <2>0, <3>1, GrantIsExcept DEF Tick
    <3> QED
      BY <1>0, <2>1, <3>1, <3>2, <3>3
  <2> QED
    BY <2>2, <2>3
<1> QED
  BY <1>1, <1>2

(* The conjuncts of the invariant as a list of facts for the steps below.  *)
LEMMA Facts ==
  ASSUME IInv
  PROVE  /\ data \in Seq(Pushes) /\ out \in Seq(Pushes)
         /\ jobs \in Seq(Callers) /\ ticks \in Seq(Callers)
         /\ slots \in SemaphoreOf(Pushes) /\ slots.cur \in 0..MaxSize
         /\ slots.cap = MaxSize /\ slots.wait \in Seq(Pushes)
         /\ mutex \in SemaphoreOf(Poppers) /\ mutex.cur \in 0..1
         /\ mutex.cap = 1 /\ mutex.wait \in Seq(Poppers)
         /\ push \in [Pushes -> PushState] /\ pop \in [Poppers -> PopState]
         /\ Queued(slots, push, "blocked") /\ Queued(mutex, pop, "waiting")
         /\ mutex.wait # <<>> => mutex.cur = 1
         /\ MaxSize > 0 => slots.cur = Len(data) + Cardinality(Holding)
         /\ slots.wait # <<>> => slots.cur = MaxSize
         /\ mutex.wait # <<>> => Len(data) <= Cardinality(Awake)
  BY DEF IInv, TypeOK, SlotsAccounted, NoIdleSlot, NoLostWakeup, SemaphoreOf

(* A caller whose job runs leaves the list of jobs.                        *)
LEMMA JobsType ==
  ASSUME jobs \in Seq(Callers), NEW x \in Callers
  PROVE  /\ Append(jobs, x) \in Seq(Callers)
         /\ jobs # <<>> => /\ Tail(jobs) \in Seq(Callers)
                           /\ Append(Tail(jobs), x) \in Seq(Callers)
  OBVIOUS

(* The two wait queues do not see a caller that is not in them change      *)
(* between other states.                                                   *)
LEMMA QueuedOther ==
  ASSUME NEW C, NEW s \in SemaphoreOf(C), NEW D, NEW state \in [C -> D],
         NEW w \in D, NEW x \in C, NEW v \in D, state[x] # w,
         Queued(s, state, w)
  PROVE  Queued(s, [state EXCEPT ![x] = v], w)
<1>1. \A i \in 1..Len(s.wait) : s.wait[i] \in C
  BY DEF SemaphoreOf
<1> QED
  BY <1>1 DEF Queued

LEMMA CallPushKeeps ==
  ASSUME IInv, NEW n \in Pushes, CallPush(n)
  PROVE  IInv'
<1>1. /\ push[n] = "idle" /\ push' = [push EXCEPT ![n] = "ready"]
      /\ jobs' = Append(jobs, n)
      /\ UNCHANGED <<data, slots, mutex, pop, ticks, out>>
  BY DEF CallPush
<1>2. "ready" \in PushState /\ "blocked" \in PushState
  BY DEF PushState
<1>3. jobs' \in Seq(Callers)
  BY <1>1, Facts, JobsType DEF Callers
<1>4. push' \in [Pushes -> PushState]
  BY <1>1, <1>2, Facts
<1>5. Queued(slots, push', "blocked")
  BY <1>1, <1>2, Facts, QueuedOther
<1>6. Holding' = Holding /\ Awake' = Awake
  BY <1>1, Facts DEF Holding, Awake
<1> QED
  BY <1>1, <1>3, <1>4, <1>5, <1>6
     DEF IInv, TypeOK, SlotsAccounted, NoIdleSlot, NoLostWakeup

LEMMA CallPopKeeps ==
  ASSUME IInv, NEW c \in Poppers, CallPop(c)
  PROVE  IInv'
<1>1. /\ pop[c] = "idle" /\ pop' = [pop EXCEPT ![c] = "ready"]
      /\ jobs' = Append(jobs, c)
      /\ UNCHANGED <<data, slots, mutex, push, ticks, out>>
  BY DEF CallPop
<1>2. "ready" \in PopState /\ "waiting" \in PopState
  BY DEF PopState
<1>3. jobs' \in Seq(Callers)
  BY <1>1, Facts, JobsType DEF Callers
<1>4. pop' \in [Poppers -> PopState]
  BY <1>1, <1>2, Facts
<1>5. Queued(mutex, pop', "waiting")
  BY <1>1, <1>2, Facts, QueuedOther
<1>6. Holding' = Holding /\ Awake' = Awake
  BY <1>1, Facts DEF Holding, Awake
<1> QED
  BY <1>1, <1>3, <1>4, <1>5, <1>6
     DEF IInv, TypeOK, SlotsAccounted, NoIdleSlot, NoLostWakeup

(* The insertion: the slot of the push becomes the slot of the item, and   *)
(* the item that a waiting popper could miss wakes one.                    *)
LEMMA InsertKeeps ==
  ASSUME IInv, NEW n \in Pushes, Insert(n), jobs # <<>>,
         push[n] \in {"ready", "slot"}, MaxSize > 0 => push[n] = "slot"
  PROVE  IInv'
<1>1. /\ data' = Append(data, n) /\ WakePopper
      /\ push' = [push EXCEPT ![n] = "done"] /\ jobs' = Tail(jobs)
      /\ UNCHANGED <<slots, out>>
  BY DEF Insert, InsertItem
<1>2. "done" \in PushState /\ "blocked" \in PushState
  BY DEF PushState
<1>3. jobs' \in Seq(Callers)
  BY <1>1, Facts, JobsType DEF Callers
<1>4. push' \in [Pushes -> PushState]
  BY <1>1, <1>2, Facts
<1>5. Queued(slots, push', "blocked")
  BY <1>1, <1>2, Facts, QueuedOther
<1>6. data' \in Seq(Pushes) /\ Len(data') = Len(data) + 1
  BY <1>1, Facts
<1>7. MaxSize > 0 => Cardinality(Holding) \in Nat
                     /\ Cardinality(Holding') = Cardinality(Holding) - 1
  <2> SUFFICES ASSUME MaxSize > 0
               PROVE  /\ Cardinality(Holding) \in Nat
                      /\ Cardinality(Holding') = Cardinality(Holding) - 1
    OBVIOUS
  <2>1. Holding \in SUBSET Pushes /\ Holding' \in SUBSET Pushes
    BY DEF Holding
  <2>2. \A m \in Pushes : m # n => (m \in Holding <=> m \in Holding')
    BY <1>1, Facts DEF Holding
  <2>3. n \in Holding /\ n \notin Holding'
    BY <1>1, Facts DEF Holding
  <2> QED
    BY <2>1, <2>2, <2>3, CardinalityStep, CallersFinite
<1>8. SlotsAccounted'
  BY <1>1, <1>6, <1>7, Facts DEF SlotsAccounted, IInv
<1>9. NoLostWakeup'
  <2>1. Awake \in SUBSET Poppers /\ IsFiniteSet(Poppers)
    BY CallersFinite DEF Awake
  <2>2. Cardinality(Awake) \in Nat
    BY <2>1, FS_Subset, FS_CardinalityType
  <2>3. Len(data) \in Nat
    BY Facts
  <2>4. ASSUME mutex'.wait # <<>>
        PROVE  Len(data') <= Cardinality(Awake')
    <3>1. /\ mutex.wait # <<>>
          /\ Cardinality(Awake') = Cardinality(Awake) + 1
      BY <1>1, <2>4, WakeKeeps
    <3> QED
      BY <1>6, <2>2, <2>3, <3>1, Facts
  <2> QED
    BY <2>4 DEF NoLostWakeup
<1> QED
  BY <1>1, <1>3, <1>4, <1>5, <1>6, <1>8, <1>9, Facts, WakeKeeps
     DEF IInv, TypeOK, NoIdleSlot

(* The slot of a push: taken at once, or queued for while all are taken.   *)
LEMMA TakeSlotKeeps ==
  ASSUME IInv, NEW n \in Pushes, TakeSlot(n), jobs # <<>>,
         push[n] = "ready", MaxSize > 0
  PROVE  IInv'
<1>0. /\ slots' = Take(slots, n)
      /\ UNCHANGED <<data, mutex, pop, ticks, out>>
  BY DEF TakeSlot
<1>1. {"slot", "blocked", "granted"} \subseteq PushState
  BY DEF PushState
<1>2. Awake' = Awake
  BY <1>0 DEF Awake
<1>3. Holding \in SUBSET Pushes /\ Holding' \in SUBSET Pushes
  BY DEF Holding
<1>4. slots.cur \in Nat /\ MaxSize \in Nat /\ slots.cap = MaxSize
  BY Facts, MaxSizeAssumption
<1>5. CASE Available(slots)
  <2>1. /\ push' = [push EXCEPT ![n] = "slot"] /\ jobs' = Append(Tail(jobs), n)
    BY <1>5 DEF TakeSlot
  <2>2. /\ slots' \in SemaphoreOf(Pushes) /\ slots'.cap = MaxSize
        /\ slots'.cur = slots.cur + 1 /\ slots'.wait = slots.wait
    BY <1>0, <1>5, Facts, TakeProperties
  <2>3. slots.cur < MaxSize
    BY <1>4, <1>5 DEF Available
  <2>4. jobs' \in Seq(Callers)
    BY <2>1, Facts, JobsType DEF Callers
  <2>5. push' \in [Pushes -> PushState]
    BY <1>1, <2>1, Facts
  <2>6. Queued(slots, push', "blocked")
    BY <1>1, <2>1, Facts, QueuedOther
  <2>7. Queued(slots', push', "blocked")
    BY <2>2, <2>6 DEF Queued
  <2>8. \A m \in Pushes : m # n => (m \in Holding <=> m \in Holding')
    BY <2>1, Facts DEF Holding
  <2>9. n \notin Holding /\ n \in Holding'
    BY <2>1, Facts DEF Holding
  <2>10. /\ Cardinality(Holding') = Cardinality(Holding) + 1
         /\ Cardinality(Holding) \in Nat
    BY <1>3, <2>8, <2>9, CardinalityStep, CallersFinite
  <2>11. SlotsAccounted'
    <3>1. Len(data) \in Nat /\ slots.cur = Len(data) + Cardinality(Holding)
      BY Facts
    <3>2. slots'.cur = Len(data) + Cardinality(Holding')
      BY <2>2, <2>10, <3>1
    <3>3. slots'.cur <= MaxSize
      BY <1>4, <2>2, <2>3
    <3> QED
      BY <1>0, <3>2, <3>3 DEF SlotsAccounted
  <2>12. slots'.cur \in 0..MaxSize
    BY <1>4, <2>2, <2>3
  <2>13. NoIdleSlot'
    BY <1>4, <2>2, <2>3, Facts DEF NoIdleSlot
  <2> QED
    BY <1>0, <1>2, <2>2, <2>4, <2>5, <2>7, <2>11, <2>12, <2>13, Facts
       DEF IInv, TypeOK, NoLostWakeup
<1>6. CASE ~Available(slots)
  <2>1. /\ push' = [push EXCEPT ![n] = "blocked"] /\ jobs' = Tail(jobs)
    BY <1>6 DEF TakeSlot
  <2>2. /\ slots' \in SemaphoreOf(Pushes) /\ slots'.cap = MaxSize
        /\ slots'.cur = slots.cur
    BY <1>0, <1>6, Facts, TakeProperties
  <2>3. slots.cur = MaxSize
    BY <1>4, <1>6, Facts DEF Available
  <2>4. jobs' \in Seq(Callers)
    BY <2>1, Facts, JobsType DEF Callers
  <2>5. push' \in [Pushes -> PushState]
    BY <1>1, <2>1, Facts
  <2>6. Queued(slots', push', "blocked")
    BY <1>0, <1>1, <1>6, <2>1, Facts, QueuedTake
  <2>7. Holding' = Holding
    BY <2>1, Facts DEF Holding
  <2>8. SlotsAccounted'
    BY <1>0, <1>4, <2>2, <2>7, Facts DEF SlotsAccounted
  <2>9. NoIdleSlot'
    BY <2>2, <2>3 DEF NoIdleSlot
  <2> QED
    BY <1>0, <1>2, <2>2, <2>4, <2>5, <2>6, <2>8, <2>9, Facts
       DEF IInv, TypeOK, NoLostWakeup
<1> QED
  BY <1>5, <1>6

(* The mutex of an empty list: taken at once, or queued for.               *)
LEMMA WaitForItemKeeps ==
  ASSUME IInv, NEW c \in Poppers, WaitForItem(c), jobs # <<>>,
         pop[c] \in {"ready", "woken"}
  PROVE  IInv'
<1>0. /\ data = <<>> /\ mutex' = Take(mutex, c)
      /\ UNCHANGED <<data, slots, push, ticks, out>>
  BY DEF WaitForItem
<1>1. {"woken", "waiting", "granted"} \subseteq PopState
  BY DEF PopState
<1>2. Holding' = Holding
  BY <1>0 DEF Holding
<1>3. Awake' \in SUBSET Poppers /\ Cardinality(Awake') \in Nat /\ Len(data') = 0
  <2>1. Awake' \in SUBSET Poppers
    BY DEF Awake
  <2> QED
    BY <1>0, <2>1, FS_Subset, FS_CardinalityType, CallersFinite
<1>4. NoLostWakeup' /\ SlotsAccounted' /\ NoIdleSlot'
  BY <1>0, <1>2, <1>3, Facts
     DEF NoLostWakeup, SlotsAccounted, NoIdleSlot, IInv
<1>5. CASE Available(mutex)
  <2>1. /\ pop' = [pop EXCEPT ![c] = "woken"] /\ jobs' = Append(Tail(jobs), c)
    BY <1>5 DEF WaitForItem
  <2>2. mutex.cur = 0 /\ mutex.wait = <<>>
    BY <1>5, Facts DEF Available
  <2>3. /\ mutex' \in SemaphoreOf(Poppers) /\ mutex'.cap = 1
        /\ mutex'.cur = 1 /\ mutex'.wait = <<>>
    BY <1>0, <1>5, <2>2, Facts, TakeProperties
  <2>4. jobs' \in Seq(Callers)
    BY <2>1, Facts, JobsType DEF Callers
  <2>5. pop' \in [Poppers -> PopState]
    BY <1>1, <2>1, Facts
  <2>6. Queued(mutex', pop', "waiting")
    BY <2>3 DEF Queued
  <2> QED
    BY <1>0, <1>4, <2>3, <2>4, <2>5, <2>6, Facts DEF IInv, TypeOK
<1>6. CASE ~Available(mutex)
  <2>1. /\ pop' = [pop EXCEPT ![c] = "waiting"] /\ jobs' = Tail(jobs)
    BY <1>6 DEF WaitForItem
  <2>2. mutex.cur = 1
    BY <1>6, Facts DEF Available
  <2>3. /\ mutex' \in SemaphoreOf(Poppers) /\ mutex'.cap = 1
        /\ mutex'.cur = 1
    BY <1>0, <1>6, <2>2, Facts, TakeProperties
  <2>4. jobs' \in Seq(Callers)
    BY <2>1, Facts, JobsType DEF Callers
  <2>5. pop' \in [Poppers -> PopState]
    BY <1>1, <2>1, Facts
  <2>6. Queued(mutex', pop', "waiting")
    BY <1>0, <1>1, <1>6, <2>1, Facts, QueuedTake
  <2> QED
    BY <1>0, <1>4, <2>3, <2>4, <2>5, <2>6, Facts DEF IInv, TypeOK
<1> QED
  BY <1>5, <1>6

(* What the removal of an item does to the slots: its slot is free, or     *)
(* belongs to the first push that waited.                                  *)
LEMMA FreeSlotKeeps ==
  ASSUME IInv, FreeSlot, data # <<>>
  PROVE  /\ slots' \in SemaphoreOf(Pushes) /\ slots'.cur \in 0..MaxSize
         /\ slots'.cap = MaxSize
         /\ push' \in [Pushes -> PushState]
         /\ ticks' \in Seq(Callers)
         /\ Queued(slots', push', "blocked")
         /\ slots'.wait # <<>> => slots'.cur = MaxSize
         /\ MaxSize > 0 => slots'.cur = Len(data) - 1 + Cardinality(Holding')
<1>0. /\ slots \in SemaphoreOf(Pushes) /\ slots.cur \in 0..MaxSize
      /\ slots.cap = MaxSize /\ slots.wait \in Seq(Pushes)
      /\ push \in [Pushes -> PushState] /\ ticks \in Seq(Callers)
      /\ Queued(slots, push, "blocked") /\ MaxSize \in Nat
      /\ slots.wait # <<>> => slots.cur = MaxSize
  BY Facts, MaxSizeAssumption
<1>1. Holding \in SUBSET Pushes /\ Holding' \in SUBSET Pushes
  BY DEF Holding
<1>2. Cardinality(Holding) \in Nat /\ Len(data) \in Nat \ {0}
  BY <1>1, FS_Subset, FS_CardinalityType, CallersFinite, Facts
<1>3. CASE MaxSize = 0
  <2>1. UNCHANGED <<slots, push, ticks>>
    BY <1>3 DEF FreeSlot
  <2> QED
    BY <1>0, <1>3, <2>1
<1>4. CASE MaxSize > 0
  <2>0. slots.cur > 0 /\ slots.cur = Len(data) + Cardinality(Holding)
    BY <1>0, <1>2, <1>4, Facts
  <2>1. /\ slots' = Leave(slots) /\ push' = Grant(push, Woken(slots))
        /\ ticks' = Tick(Woken(slots))
    BY <1>4, <2>0 DEF FreeSlot
  <2>2. Queued(slots', push', "blocked")
    <3>1. "blocked" \in PushState /\ "blocked" # "granted"
      BY DEF PushState
    <3> QED
      BY <1>0, <2>1, <3>1, QueuedLeave
  <2>3. CASE HandsOver(slots)
    <3> DEFINE y == slots.wait[1]
    <3>1. /\ slots' \in SemaphoreOf(Pushes) /\ slots'.cap = MaxSize
          /\ slots'.cur = slots.cur
          /\ Woken(slots) = {y} /\ y \in Pushes /\ Len(slots.wait) >= 1
      BY <1>0, <2>1, <2>3, LeaveProperties
    <3>2. push[y] = "blocked"
      BY <1>0, <3>1 DEF Queued
    <3>3. push' = [push EXCEPT ![y] = "granted"]
      BY <1>0, <2>1, <3>1 DEF Grant
    <3>4. ticks' \in Seq(Callers)
      BY <2>1, <3>1, TickType DEF Callers, IInv
    <3>5. Cardinality(Holding') = Cardinality(Holding) + 1
      <4> HIDE DEF y
      <4>1. \A c \in Pushes : c # y => (c \in Holding <=> c \in Holding')
        BY <1>0, <3>3 DEF Holding
      <4>2. y \notin Holding /\ y \in Holding'
        BY <1>0, <3>1, <3>2, <3>3 DEF Holding
      <4> QED
        BY <1>1, <3>1, <4>1, <4>2, CardinalityStep, CallersFinite
    <3>6. push' \in [Pushes -> PushState]
      BY <1>0, <3>3 DEF PushState
    <3>7. slots'.cur = MaxSize
      BY <1>0, <2>3, <3>1 DEF HandsOver
    <3> QED
      BY <1>0, <1>2, <2>0, <2>2, <3>1, <3>4, <3>5, <3>6, <3>7
  <2>4. CASE ~HandsOver(slots)
    <3>1. /\ slots' \in SemaphoreOf(Pushes) /\ slots'.cap = MaxSize
          /\ slots'.cur = slots.cur - 1
          /\ slots'.wait = slots.wait /\ Woken(slots) = {}
      BY <1>0, <2>1, <2>4, LeaveProperties
    <3>2. slots.wait = <<>>
      BY <1>0, <2>4 DEF HandsOver
    <3>3. push' = push /\ ticks' = ticks
      BY <1>0, <2>1, <3>1, GrantIsExcept DEF Tick
    <3>4. Holding' = Holding
      BY <3>3 DEF Holding
    <3> QED
      BY <1>0, <1>2, <2>0, <2>2, <3>1, <3>2, <3>3, <3>4
  <2> QED
    BY <2>3, <2>4
<1> QED
  BY <1>0, <1>3, <1>4

(* The removal: one item fewer, and one awake popper fewer at most.        *)
LEMMA TakeItemKeeps ==
  ASSUME IInv, NEW c \in Poppers, TakeItem(c), jobs # <<>>,
         pop[c] \in {"ready", "woken"}
  PROVE  IInv'
<1>0. /\ data # <<>> /\ data' = Tail(data) /\ out' = Append(out, Head(data))
      /\ FreeSlot /\ pop' = [pop EXCEPT ![c] = "idle"]
      /\ jobs' = Tail(jobs) /\ UNCHANGED mutex
  BY DEF TakeItem, RemoveItem
<1>1. /\ data' \in Seq(Pushes) /\ out' \in Seq(Pushes)
      /\ Len(data') = Len(data) - 1 /\ Len(data) \in Nat \ {0}
  BY <1>0, Facts
<1>2. "idle" \in PopState /\ "waiting" \in PopState
  BY DEF PopState
<1>3. jobs' \in Seq(Callers)
  BY <1>0, Facts, JobsType DEF Callers
<1>4. pop' \in [Poppers -> PopState]
  BY <1>0, <1>2, Facts
<1>5. Queued(mutex, pop', "waiting")
  BY <1>0, <1>2, Facts, QueuedOther
<1>6. SlotsAccounted'
  <2>1. slots'.cur \in 0..MaxSize
    BY <1>0, FreeSlotKeeps
  <2>2. MaxSize > 0 => slots'.cur = Len(data) - 1 + Cardinality(Holding')
    BY <1>0, FreeSlotKeeps
  <2>3. slots'.cur <= MaxSize
    BY <2>1, MaxSizeAssumption
  <2> QED
    BY <1>1, <2>2, <2>3 DEF SlotsAccounted
<1>7. NoLostWakeup'
  <2>1. Awake \in SUBSET Poppers /\ Awake' \in SUBSET Poppers
    BY DEF Awake
  <2>2. \A d \in Poppers : d # c => (d \in Awake <=> d \in Awake')
    BY <1>0, Facts DEF Awake
  <2>3. c \notin Awake'
    BY <1>0, Facts DEF Awake
  <2>4. Cardinality(Awake) \in Nat
    BY <2>1, FS_Subset, FS_CardinalityType, CallersFinite
  <2>5. Cardinality(Awake') \in {Cardinality(Awake), Cardinality(Awake) - 1}
    BY <2>1, <2>2, <2>3, CardinalityStep, CallersFinite
  <2>6. ASSUME mutex'.wait # <<>> PROVE Len(data') <= Cardinality(Awake')
    <3>1. Len(data) <= Cardinality(Awake)
      BY <1>0, <2>6, Facts
    <3> QED
      BY <1>1, <2>4, <2>5, <3>1
  <2> QED
    BY <2>6 DEF NoLostWakeup
<1> QED
  BY <1>0, <1>1, <1>3, <1>4, <1>5, <1>6, <1>7, Facts, FreeSlotKeeps
     DEF IInv, TypeOK, NoIdleSlot

(* A callback that runs leaves the list of ticks for the list of jobs.     *)
LEMMA GrantSlotKeeps ==
  ASSUME IInv, NEW n \in Pushes, GrantSlot(n)
  PROVE  IInv'
<1>1. /\ ticks # <<>> /\ push[n] = "granted"
      /\ push' = [push EXCEPT ![n] = "slot"]
      /\ ticks' = Tail(ticks) /\ jobs' = Append(jobs, n)
      /\ UNCHANGED <<data, slots, mutex, pop, out>>
  BY DEF GrantSlot
<1>2. "slot" \in PushState /\ "blocked" \in PushState
  BY DEF PushState
<1>3. jobs' \in Seq(Callers) /\ ticks' \in Seq(Callers)
  BY <1>1, Facts, JobsType DEF Callers
<1>4. push' \in [Pushes -> PushState]
  BY <1>1, <1>2, Facts
<1>5. Queued(slots, push', "blocked")
  BY <1>1, <1>2, Facts, QueuedOther
<1>6. Holding' = Holding /\ Awake' = Awake
  BY <1>1, Facts DEF Holding, Awake
<1> QED
  BY <1>1, <1>3, <1>4, <1>5, <1>6
     DEF IInv, TypeOK, SlotsAccounted, NoIdleSlot, NoLostWakeup

LEMMA GrantMutexKeeps ==
  ASSUME IInv, NEW c \in Poppers, GrantMutex(c)
  PROVE  IInv'
<1>1. /\ ticks # <<>> /\ pop[c] = "granted"
      /\ pop' = [pop EXCEPT ![c] = "woken"]
      /\ ticks' = Tail(ticks) /\ jobs' = Append(jobs, c)
      /\ UNCHANGED <<data, slots, mutex, push, out>>
  BY DEF GrantMutex
<1>2. "woken" \in PopState /\ "waiting" \in PopState
  BY DEF PopState
<1>3. jobs' \in Seq(Callers) /\ ticks' \in Seq(Callers)
  BY <1>1, Facts, JobsType DEF Callers
<1>4. pop' \in [Poppers -> PopState]
  BY <1>1, <1>2, Facts
<1>5. Queued(mutex, pop', "waiting")
  BY <1>1, <1>2, Facts, QueuedOther
<1>6. Holding' = Holding /\ Awake' = Awake
  BY <1>1, Facts DEF Holding, Awake
<1> QED
  BY <1>1, <1>3, <1>4, <1>5, <1>6
     DEF IInv, TypeOK, SlotsAccounted, NoIdleSlot, NoLostWakeup

LEMMA NextKeeps == IInv /\ [Next]_vars => IInv'
<1> SUFFICES ASSUME IInv, [Next]_vars PROVE IInv'
  OBVIOUS
<1>1. CASE UNCHANGED vars
  BY <1>1 DEF vars, IInv, TypeOK, SlotsAccounted, NoIdleSlot, NoLostWakeup,
              Queued, Holding, Awake
<1>2. ASSUME NEW n \in Pushes, CallPush(n) PROVE IInv'
  BY <1>2, CallPushKeeps
<1>3. ASSUME NEW c \in Poppers, CallPop(c) PROVE IInv'
  BY <1>3, CallPopKeeps
<1>4. ASSUME NEW n \in Pushes, ResumePush(n) PROVE IInv'
  <2>1. CASE MaxSize = 0
    BY <1>4, <2>1, InsertKeeps DEF ResumePush, Running
  <2>2. CASE MaxSize > 0
    BY <1>4, <2>2, TakeSlotKeeps DEF ResumePush, Running
  <2> QED
    BY <2>1, <2>2, MaxSizeAssumption
<1>5. ASSUME NEW n \in Pushes, FinishPush(n) PROVE IInv'
  BY <1>5, InsertKeeps DEF FinishPush, Running
<1>6. ASSUME NEW c \in Poppers, ResumePop(c) PROVE IInv'
  BY <1>6, WaitForItemKeeps, TakeItemKeeps DEF ResumePop, Running
<1>7. ASSUME NEW n \in Pushes, GrantSlot(n) PROVE IInv'
  BY <1>7, GrantSlotKeeps
<1>8. ASSUME NEW c \in Poppers, GrantMutex(c) PROVE IInv'
  BY <1>8, GrantMutexKeeps
<1> QED
  BY <1>1, <1>2, <1>3, <1>4, <1>5, <1>6, <1>7, <1>8 DEF Next, RunJob, RunTick

(***************************************************************************)
(* The theorems.                                                           *)
(***************************************************************************)

(* Every reachable state of the queue (queue.js:23-93) satisfies the       *)
(* inductive invariant.                                                    *)
THEOREM Invariance == Spec => []IInv
<1>1. Init => IInv
  BY InitKeeps
<1>2. IInv /\ [Next]_vars => IInv'
  BY NextKeeps
<1> QED
  BY <1>1, <1>2, PTL DEF Spec

(* The variables keep their types; in particular neither semaphore of      *)
(* queue.js:30-36 is ever over-released.                                   *)
THEOREM TypeCorrect == Spec => []TypeOK
<1>1. IInv => TypeOK
  BY DEF IInv
<1> QED
  BY <1>1, Invariance, PTL

(* The slots taken are the items and the pushes about to insert, so the    *)
(* list never outgrows its limit (queue.js:47-49, 84-86).                  *)
THEOREM SlotsAreAccounted == Spec => []SlotsAccounted
<1>1. IInv => SlotsAccounted
  BY DEF IInv
<1> QED
  BY <1>1, Invariance, PTL

(* While a popper waits, every item has an awake popper (queue.js:53-55,   *)
(* 78-80).                                                                 *)
THEOREM NoWakeupIsLost == Spec => []NoLostWakeup
<1>1. IInv => NoLostWakeup
  BY DEF IInv
<1> QED
  BY <1>1, Invariance, PTL

(* A push waits only while every slot is taken (queue.js:47-49, 84-86).    *)
THEOREM NoSlotIsIdle == Spec => []NoIdleSlot
<1>1. IInv => NoIdleSlot
  BY DEF IInv
<1> QED
  BY <1>1, Invariance, PTL

(***************************************************************************)
(* Refinement of the abstract FIFO, steps only.                            *)
(***************************************************************************)

pushingOf == {n \in Pushes : push[n] \notin {"idle", "done"}}
poppingOf == {c \in Poppers : pop[c] # "idle"}

(* A push that has a slot finds room for its item.                         *)
LEMMA RoomForHolder ==
  ASSUME IInv, NEW n \in Pushes, push[n] = "slot", MaxSize > 0
  PROVE  Len(data) < MaxSize
<1>1. Holding \in SUBSET Pushes /\ n \in Holding
  BY DEF Holding
<1>2. IsFiniteSet(Holding) /\ Cardinality(Holding) \in Nat
  BY <1>1, FS_Subset, FS_CardinalityType, CallersFinite
<1>3. Cardinality(Holding) # 0
  BY <1>1, <1>2, FS_EmptySet
<1>4. /\ slots.cur = Len(data) + Cardinality(Holding) /\ Len(data) \in Nat
      /\ slots.cur \in 0..MaxSize
  BY Facts
<1> QED
  BY <1>2, <1>3, <1>4, MaxSizeAssumption

LEMMA InsertIsDoPush ==
  ASSUME IInv, NEW n \in Pushes, Insert(n), push[n] \in {"ready", "slot"},
         MaxSize > 0 => push[n] = "slot"
  PROVE  Fifo!DoPush(n)
<1>1. /\ data' = Append(data, n) /\ push' = [push EXCEPT ![n] = "done"]
      /\ out' = out /\ WakePopper
  BY DEF Insert, InsertItem
<1>2. MaxSize = 0 \/ Len(data) < MaxSize
  BY RoomForHolder, MaxSizeAssumption
<1>3. n \in pushingOf /\ pushingOf' = pushingOf \ {n}
  BY <1>1, Facts DEF pushingOf
<1>4. poppingOf' = poppingOf
  <2>1. ~Available(mutex) => pop' = Grant(pop, Woken(mutex))
    BY <1>1 DEF WakePopper
  <2>2. Available(mutex) => pop' = pop
    BY <1>1 DEF WakePopper
  <2>3. \A c \in Woken(mutex) : c \in Poppers /\ pop[c] = "waiting"
    <3>1. HandsOver(mutex) => /\ Woken(mutex) = {mutex.wait[1]}
                              /\ Len(mutex.wait) >= 1
                              /\ mutex.wait[1] \in Poppers
      BY Facts, LeaveProperties
    <3>2. ~HandsOver(mutex) => Woken(mutex) = {}
      BY Facts, LeaveProperties
    <3>3. HandsOver(mutex) => 1 \in 1..Len(mutex.wait)
      BY <3>1, Facts
    <3>4. HandsOver(mutex) => pop[mutex.wait[1]] = "waiting"
      BY <3>3, Facts DEF Queued
    <3> QED
      BY <3>1, <3>2, <3>4
  <2>4. DOMAIN pop = Poppers
    BY Facts
  <2> QED
    BY <2>1, <2>2, <2>3, <2>4 DEF poppingOf, Grant
<1> QED
  BY <1>1, <1>2, <1>3, <1>4
     DEF Fifo!DoPush, Fifo!HasRoom, pushingOf, poppingOf

LEMMA TakeItemIsDoPop ==
  ASSUME IInv, NEW c \in Poppers, TakeItem(c), pop[c] \in {"ready", "woken"}
  PROVE  Fifo!DoPop(c)
<1>1. /\ data # <<>> /\ data' = Tail(data) /\ out' = Append(out, Head(data))
      /\ FreeSlot /\ pop' = [pop EXCEPT ![c] = "idle"]
  BY DEF TakeItem, RemoveItem
<1>2. c \in poppingOf /\ poppingOf' = poppingOf \ {c}
  BY <1>1, Facts DEF poppingOf
<1>3. pushingOf' = pushingOf
  <2>1. push' = push \/ push' = Grant(push, Woken(slots))
    BY <1>1 DEF FreeSlot
  <2>2. \A n \in Woken(slots) : n \in Pushes /\ push[n] = "blocked"
    <3>1. HandsOver(slots) => /\ Woken(slots) = {slots.wait[1]}
                              /\ Len(slots.wait) >= 1
                              /\ slots.wait[1] \in Pushes
      BY Facts, LeaveProperties
    <3>2. ~HandsOver(slots) => Woken(slots) = {}
      BY Facts, LeaveProperties
    <3>3. HandsOver(slots) => 1 \in 1..Len(slots.wait)
      BY <3>1, Facts
    <3>4. HandsOver(slots) => push[slots.wait[1]] = "blocked"
      BY <3>3, Facts DEF Queued
    <3> QED
      BY <3>1, <3>2, <3>4
  <2>3. DOMAIN push = Pushes
    BY Facts
  <2> QED
    BY <2>1, <2>2, <2>3 DEF pushingOf, Grant
<1> QED
  BY <1>1, <1>2, <1>3 DEF Fifo!DoPop, pushingOf, poppingOf

LEMMA StepSimulation == IInv /\ [Next]_vars => [Fifo!Next]_(Fifo!vars)
<1> SUFFICES ASSUME IInv, [Next]_vars PROVE [Fifo!Next]_(Fifo!vars)
  OBVIOUS
<1> DEFINE Same == UNCHANGED <<pushingOf, data, poppingOf, out>>
<1>0. Same => UNCHANGED Fifo!vars
  BY DEF Fifo!vars, pushingOf, poppingOf
<1>1. CASE UNCHANGED vars
  BY <1>0, <1>1 DEF vars, pushingOf, poppingOf
<1>2. ASSUME NEW n \in Pushes, CallPush(n) PROVE Fifo!CallPush(n)
  <2>1. /\ push[n] = "idle" /\ push' = [push EXCEPT ![n] = "ready"]
        /\ UNCHANGED <<data, pop, out>>
    BY <1>2 DEF CallPush
  <2>2. n \notin pushingOf /\ pushingOf' = pushingOf \cup {n}
    BY <2>1, Facts DEF pushingOf
  <2> QED
    BY <2>1, <2>2 DEF Fifo!CallPush, pushingOf
<1>3. ASSUME NEW c \in Poppers, CallPop(c) PROVE Fifo!CallPop(c)
  <2>1. /\ pop[c] = "idle" /\ pop' = [pop EXCEPT ![c] = "ready"]
        /\ UNCHANGED <<data, push, out>>
    BY <1>3 DEF CallPop
  <2>2. c \notin poppingOf /\ poppingOf' = poppingOf \cup {c}
    BY <2>1, Facts DEF poppingOf
  <2> QED
    BY <2>1, <2>2 DEF Fifo!CallPop, poppingOf
<1>4. ASSUME NEW n \in Pushes, ResumePush(n) PROVE Fifo!DoPush(n) \/ Same
  <2>1. CASE MaxSize = 0
    BY <1>4, <2>1, InsertIsDoPush DEF ResumePush
  <2>2. CASE MaxSize # 0
    <3>1. /\ push[n] = "ready" /\ UNCHANGED <<data, pop, out>>
          /\ \/ push' = [push EXCEPT ![n] = "slot"]
             \/ push' = [push EXCEPT ![n] = "blocked"]
      BY <1>4, <2>2 DEF ResumePush, TakeSlot
    <3>2. pushingOf' = pushingOf
      BY <3>1, Facts DEF pushingOf
    <3> QED
      BY <3>1, <3>2 DEF poppingOf
  <2> QED
    BY <2>1, <2>2
<1>5. ASSUME NEW n \in Pushes, FinishPush(n) PROVE Fifo!DoPush(n)
  BY <1>5, InsertIsDoPush DEF FinishPush
<1>6. ASSUME NEW c \in Poppers, ResumePop(c) PROVE Fifo!DoPop(c) \/ Same
  <2>1. CASE WaitForItem(c)
    <3>1. /\ pop[c] # "idle" /\ UNCHANGED <<data, push, out>>
          /\ \/ pop' = [pop EXCEPT ![c] = "woken"]
             \/ pop' = [pop EXCEPT ![c] = "waiting"]
      BY <1>6, <2>1 DEF ResumePop, WaitForItem
    <3>2. poppingOf' = poppingOf
      BY <3>1, Facts DEF poppingOf
    <3> QED
      BY <3>1, <3>2 DEF pushingOf
  <2>2. CASE TakeItem(c)
    BY <1>6, <2>2, TakeItemIsDoPop DEF ResumePop
  <2> QED
    BY <1>6, <2>1, <2>2 DEF ResumePop
<1>7. ASSUME NEW n \in Pushes, GrantSlot(n) PROVE Same
  <2>1. /\ push[n] = "granted" /\ push' = [push EXCEPT ![n] = "slot"]
        /\ UNCHANGED <<data, pop, out>>
    BY <1>7 DEF GrantSlot
  <2>2. pushingOf' = pushingOf
    BY <2>1, Facts DEF pushingOf
  <2> QED
    BY <2>1, <2>2 DEF poppingOf
<1>8. ASSUME NEW c \in Poppers, GrantMutex(c) PROVE Same
  <2>1. /\ pop[c] = "granted" /\ pop' = [pop EXCEPT ![c] = "woken"]
        /\ UNCHANGED <<data, push, out>>
    BY <1>8 DEF GrantMutex
  <2>2. poppingOf' = poppingOf
    BY <2>1, Facts DEF poppingOf
  <2> QED
    BY <2>1, <2>2 DEF pushingOf
<1> HIDE DEF Same
<1>9. Next => Fifo!Next \/ Same
  BY <1>2, <1>3, <1>4, <1>5, <1>6, <1>7, <1>8
     DEF Next, RunJob, RunTick, Fifo!Next, Fifo!SomePush, Fifo!SomePop
<1> QED
  BY <1>0, <1>1, <1>9

(* Every push and pop of queue.js:44-93 takes effect at one moment, in the *)
(* order of a FIFO that never exceeds its limit: the steps of the queue    *)
(* are steps of the abstract FIFO or invisible in it.                      *)
THEOREM StepsOfFifo == Spec => Fifo!Init /\ [][Fifo!Next]_(Fifo!vars)
<1>1. Init => Fifo!Init
  BY DEF Init, Fifo!Init
<1>2. IInv /\ [Next]_vars => [Fifo!Next]_(Fifo!vars)
  BY StepSimulation
<1> QED
  BY <1>1, <1>2, Invariance, PTL DEF Spec

-----------------------------------------------------------------------------
(* The workers of the multilang processor.                                 *)

(***************************************************************************)
(* Sequences.                                                              *)
(***************************************************************************)

LEMMA TailElements ==
  ASSUME NEW T, NEW s \in Seq(T), s # <<>>
  PROVE  /\ Tail(s) \in Seq(T) /\ Len(Tail(s)) = Len(s) - 1
         /\ Head(s) = s[1] /\ Head(s) \in T /\ 1 \in 1..Len(s)
         /\ \A i \in 1..Len(Tail(s)) : i + 1 \in 1..Len(s) /\ Tail(s)[i] = s[i + 1]
  OBVIOUS

LEMMA AppendElements ==
  ASSUME NEW T, NEW s \in Seq(T), NEW x \in T
  PROVE  /\ Append(s, x) \in Seq(T) /\ Len(Append(s, x)) = Len(s) + 1 /\ Len(s) \in Nat
         /\ \A i \in 1..Len(s) : Append(s, x)[i] = s[i]
         /\ Append(s, x)[Len(s) + 1] = x
         /\ \A i \in 1..Len(Append(s, x)) : i \in 1..Len(s) \/ i = Len(s) + 1
  OBVIOUS

LEMMA ConcatElements ==
  ASSUME NEW T, NEW s \in Seq(T), NEW t \in Seq(T)
  PROVE  /\ s \o t \in Seq(T) /\ Len(s \o t) = Len(s) + Len(t)
         /\ Len(s) \in Nat /\ Len(t) \in Nat
         /\ \A i \in 1..Len(s) : (s \o t)[i] = s[i]
         /\ \A i \in 1..Len(t) : (s \o t)[Len(s) + i] = t[i]
         /\ \A i \in 1..Len(s \o t) :
              i \in 1..Len(s) \/ (i - Len(s) \in 1..Len(t) /\ i > Len(s))
  BY ConcatProperties

LEMMA CutElements ==
  ASSUME NEW T, NEW s \in Seq(T), NEW n \in 0..Len(s), NEW last \in Seq(T)
  PROVE  /\ SubSeq(s, 1, n) \o last \in Seq(T)
         /\ Len(SubSeq(s, 1, n) \o last) = n + Len(last) /\ Len(last) \in Nat
         /\ \A i \in 1..n : i \in 1..Len(s) /\ (SubSeq(s, 1, n) \o last)[i] = s[i]
         /\ \A i \in 1..Len(last) : (SubSeq(s, 1, n) \o last)[n + i] = last[i]
         /\ \A i \in 1..Len(SubSeq(s, 1, n) \o last) :
              i \in 1..n \/ (i - n \in 1..Len(last) /\ i > n)
<1> DEFINE t == SubSeq(s, 1, n)
<1>1. t \in Seq(T) /\ Len(t) = n /\ \A i \in 1..n : i \in 1..Len(s) /\ t[i] = s[i]
  BY SubSeqProperties
<1> HIDE DEF t
<1>2. /\ t \o last \in Seq(T) /\ Len(t \o last) = Len(t) + Len(last)
      /\ Len(t) \in Nat /\ Len(last) \in Nat
      /\ \A i \in 1..Len(t) : (t \o last)[i] = t[i]
      /\ \A i \in 1..Len(last) : (t \o last)[Len(t) + i] = last[i]
      /\ \A i \in 1..Len(t \o last) :
           i \in 1..Len(t) \/ (i - Len(t) \in 1..Len(last) /\ i > Len(t))
  BY <1>1, ConcatElements
<1>3. /\ t \o last \in Seq(T)
      /\ Len(t \o last) = n + Len(last) /\ Len(last) \in Nat
      /\ \A i \in 1..n : i \in 1..Len(s) /\ (t \o last)[i] = s[i]
      /\ \A i \in 1..Len(last) : (t \o last)[n + i] = last[i]
      /\ \A i \in 1..Len(t \o last) : i \in 1..n \/ (i - n \in 1..Len(last) /\ i > n)
  BY <1>1, <1>2
<1> QED
  BY <1>3 DEF t

(* How often a value occurs that is nowhere in a sequence, or in the part  *)
(* of it that is left.                                                     *)
LEMMA OccursNone ==
  ASSUME NEW s, NEW S, \A i \in 1..Len(s) : s[i] \notin S
  PROVE  Occurs(s, S) = 0
<1>1. {i \in 1..Len(s) : s[i] \in S} = {}
  OBVIOUS
<1> QED
  BY <1>1, FS_EmptySet DEF Occurs

LEMMA OccursCut ==
  ASSUME NEW T, NEW S, NEW s \in Seq(T), NEW t \in Seq(T), NEW n \in 0..Len(s),
         \A i \in 1..n : i \in 1..Len(t) /\ t[i] = s[i],
         \A i \in 1..Len(t) : i \in 1..n \/ t[i] \notin S
  PROVE  /\ Occurs(t, S) <= Occurs(s, S)
         /\ (\A i \in 1..Len(s) : i > n => s[i] \notin S) => Occurs(t, S) = Occurs(s, S)
<1> DEFINE A == {i \in 1..Len(s) : s[i] \in S}
           B == {i \in 1..Len(t) : t[i] \in S}
<1>1. Len(s) \in Nat /\ n \in Nat /\ n <= Len(s)
  OBVIOUS
<1>2. B \subseteq A
  BY <1>1
<1>3. (\A i \in 1..Len(s) : i > n => s[i] \notin S) => B = A
  BY <1>1
<1>4. IsFiniteSet(A) /\ Cardinality(A) \in Nat /\ Cardinality(B) \in Nat
  BY OccursType DEF Occurs
<1> HIDE DEF A, B
<1>5. Cardinality(B) <= Cardinality(A)
  BY <1>2, <1>4, FS_Subset
<1>6. Occurs(s, S) = Cardinality(A) /\ Occurs(t, S) = Cardinality(B)
  BY DEF Occurs, A, B
<1> QED
  BY <1>3, <1>4, <1>5, <1>6

(* The sequences that the library and CHOOSE make of a finite set.         *)
LEMMA SequenceOfSet ==
  ASSUME NEW S, IsFiniteSet(S)
  PROVE  /\ SetToSeq(S) \in Seq(S)
         /\ \A i, j \in 1..Len(SetToSeq(S)) : SetToSeq(S)[i] = SetToSeq(S)[j] => i = j
         /\ \A x \in S : \E i \in 1..Len(SetToSeq(S)) : SetToSeq(S)[i] = x
<1> DEFINE n == Cardinality(S)
           ks == SetToSeq(S)
<1>1. n \in Nat
  BY FS_CardinalityType
<1>2. PICK f : f \in Bijection(1..n, S)
  <2>1. ExistsBijection(1..n, S)
    BY FS_CardinalityType
  <2> QED
    BY <2>1 DEF ExistsBijection
<1>3. \E f_ \in [1..n -> S] : IsInjective(f_)
  BY <1>2 DEF Bijection, Injection, Surjection, IsInjective
<1> HIDE DEF n
<1>4. ks \in [1..n -> S] /\ IsInjective(ks)
  BY <1>3 DEF SetToSeq, n
<1> HIDE DEF ks
<1>5. ks \in Injection(1..n, S)
  BY <1>4 DEF Injection
<1>6. IsFiniteSet(1..n) /\ Cardinality(1..n) = n
  <2>1. 1 \in Int /\ n \in Int
    BY <1>1
  <2>2. IsFiniteSet(1..n) /\ Cardinality(1..n) = IF 1 > n THEN 0 ELSE n - 1 + 1
    BY ONLY <2>1, FS_Interval
  <2> QED
    BY <1>1, <2>2
<1>7. ks \in Surjection(1..n, S)
  <2>1. Cardinality(1..n) = Cardinality(S)
    BY <1>6 DEF n
  <2> DEFINE D == 1..n
  <2>2. ks \in Injection(D, S) /\ Cardinality(D) = Cardinality(S)
    BY <1>5, <2>1
  <2> HIDE DEF D
  <2>3. ks \in Surjection(D, S)
    BY <2>2, FS_Injection
  <2> QED
    BY <2>3 DEF D
<1>8. /\ ks \in Seq(S) /\ Len(ks) = n
      /\ \A i, j \in 1..n : ks[i] = ks[j] => i = j
      /\ \A x \in S : \E i \in 1..n : ks[i] = x
  BY <1>1, <1>4, <1>7 DEF IsInjective, Surjection
<1> QED
  BY <1>8 DEF ks

(***************************************************************************)
(* The invariant.                                                          *)
(***************************************************************************)

IdsEmitted == \A w \in Workers : child[w].ids <= emits

(* An entry is with the workers from when it is given until its callback.  *)
Known ==
  /\ handled <=> phase = "up"
  /\ prmap = {e \in Entries : calls[e].state = "given"}
  /\ \A e \in Entries : answers[e] = IF calls[e].state = "answered" THEN 1 ELSE 0
  /\ \A e, d \in Entries : calls[e].state = "none" /\ e < d => calls[d].state = "none"
  /\ phase \in {"off", "starting", "unused"} => \A e \in Entries : calls[e].state = "none"
  /\ phase \in {"off", "unused"} => soon = <<>> /\ \A w \in Workers : child[w].state = "none"
  /\ bound.group => \A e \in Entries : calls[e].worker = Group[e]

(* A worker that does not run has nothing to do, and nothing follows the   *)
(* begin of a message that it left.                                        *)
Quiet ==
  \A w \in Workers :
    /\ child[w].state # "up" => stdin[w] = <<>> /\ child[w].work = {}
    /\ w \in restart => child[w].state = "closed"
    /\ child[w].state \in {"none", "closed"} => stdout[w] = <<>>
    /\ begun[w] => child[w].state # "up" /\ stdout[w] = <<>>
    /\ \A i \in 1..Len(stdout[w]) :
         stdout[w][i] = Cut => i = Len(stdout[w]) /\ child[w].state # "up"

(* The handshake is the first message that a worker reads.                 *)
Written(w) ==
  /\ \A j \in 1..Len(stdin[w]) :
       /\ stdin[w][j].kind \in {"handshake", "tuple", "ids"}
       /\ stdin[w][j].kind = "handshake" => child[w].first /\ j = 1
  /\ \A j \in 1..Len(soon) : soon[j][1] = w =>
       /\ soon[j][2].kind \in {"handshake", "tuple", "ids"}
       /\ soon[j][2].kind = "handshake" =>
            /\ child[w].first /\ stdin[w] = <<>>
            /\ \A i \in 1..(j - 1) : soon[i][1] # w

(* What a worker got, what is in its pipe and what is to be written there  *)
(* comes in the order of the calls.                                        *)
GivenTo(w, e) ==
  e \in Entries /\ calls[e].worker = w /\ calls[e].state \in {"given", "answered"}
TupleIn(w, i) == i \in 1..Len(stdin[w]) /\ stdin[w][i].kind = "tuple"
TupleSoon(w, i) == i \in 1..Len(soon) /\ soon[i][1] = w /\ soon[i][2].kind = "tuple"

GotInOrder(w) ==
  \A i \in 1..Len(got[w]) :
    /\ GivenTo(w, got[w][i])
    /\ \A j \in 1..Len(got[w]) : i < j => got[w][i] < got[w][j]
    /\ \A j \in 1..Len(stdin[w]) : TupleIn(w, j) => got[w][i] < stdin[w][j].entry
    /\ \A j \in 1..Len(soon) : TupleSoon(w, j) => got[w][i] < soon[j][2].entry
InInOrder(w) ==
  \A i \in 1..Len(stdin[w]) : TupleIn(w, i) =>
    /\ stdin[w][i].entry \in Entries /\ GivenTo(w, stdin[w][i].entry)
    /\ \A j \in 1..Len(stdin[w]) : i < j /\ TupleIn(w, j) => stdin[w][i].entry < stdin[w][j].entry
    /\ \A j \in 1..Len(soon) : TupleSoon(w, j) => stdin[w][i].entry < soon[j][2].entry
SoonInOrder(w) ==
  \A i \in 1..Len(soon) : TupleSoon(w, i) =>
    /\ soon[i][2].entry \in Entries /\ GivenTo(w, soon[i][2].entry)
    /\ \A j \in 1..Len(soon) : i < j /\ TupleSoon(w, j) => soon[i][2].entry < soon[j][2].entry
WaitsInOrder ==
  \A e \in Entries : calls[e].state = "waits" =>
    /\ calls[e].promise <= ready[calls[e].worker].made
    /\ calls[e].promise = ready[calls[e].worker].made =>
         /\ ~ready[calls[e].worker].done
         /\ \A d \in Entries : GivenTo(calls[e].worker, d) => d < e
Ordered ==
  /\ \A w \in Workers : GotInOrder(w) /\ InInOrder(w) /\ SoonInOrder(w)
  /\ WaitsInOrder

(* A worker acks or fails an entry that it got, after all that it emitted  *)
(* for it; and while somebody listens, the entry is one that it has.       *)
Answer(m) == m.kind \in {"ack", "fail"}
Got(w, e) == \E i \in 1..Len(got[w]) : got[w][i] = e
AnswersLast ==
  \A w \in Workers :
    /\ \A e \in child[w].work : Got(w, e)
    /\ \A i \in 1..Len(stdout[w]) : Answer(stdout[w][i]) =>
         /\ Got(w, stdout[w][i].entry) /\ stdout[w][i].entry \notin child[w].work
         /\ \A j \in 1..Len(stdout[w]) : stdout[w][j].entry = stdout[w][i].entry /\ i < j =>
              stdout[w][j].kind # "emit" /\ ~Answer(stdout[w][j])
HaveEntry ==
  phase = "up" =>
    \A w \in Workers :
      /\ child[w].work \subseteq prmap
      /\ \A i \in 1..Len(stdin[w]) : TupleIn(w, i) => stdin[w][i].entry \in prmap
      /\ \A i \in 1..Len(stdout[w]) : Answer(stdout[w][i]) => stdout[w][i].entry \in prmap
      /\ \A i \in 1..Len(soon) : TupleSoon(w, i) /\ ~closed[w] => soon[i][2].entry \in prmap

(* What was emitted for an entry has come or is in the pipe, unless the    *)
(* worker has ended.                                                       *)
Coming(w, e) == Occurs(stdout[w], {Message("emit", e)})
InHand(w, e) ==
  \/ e \in child[w].work
  \/ \E i \in 1..Len(stdout[w]) : Answer(stdout[w][i]) /\ stdout[w][i].entry = e
EmitsOf(w, e) ==
  /\ emit[e] + Coming(w, e) <= made[e]
  /\ ~Got(w, e) => made[e] = 0
  /\ phase = "up" /\ InHand(w, e) => emit[e] + Coming(w, e) = made[e]
ResultOf(w, e) ==
  /\ results[e] \in {0, made[e]}
  /\ results[e] # 0 => Got(w, e) /\ e \notin child[w].work
EmitsCounted ==
  /\ \A e \in Entries : EmitsOf(calls[e].worker, e) /\ ResultOf(calls[e].worker, e)
  /\ \A w \in Workers : \A i \in 1..Len(stdout[w]) :
       stdout[w][i].kind = "emit" => stdout[w][i].entry = 0 \/ Got(w, stdout[w][i].entry)

WorkersInv ==
  /\ WorkersTypeOK /\ IdsEmitted /\ ~crashed
  /\ Known /\ Quiet /\ (\A w \in Workers : Written(w))
  /\ Ordered /\ AnswersLast /\ HaveEntry /\ EmitsCounted


LEMMA MessageTypes ==
  /\ Cut \notin Messages /\ Cut.kind = "cut" /\ Cut.entry = 0
  /\ \A kind, e : Message(kind, e).kind = kind /\ Message(kind, e).entry = e
  /\ \A e \in 0..MaxEntries :
       \A kind \in {"handshake", "tuple", "ids", "pid", "emit", "ack", "fail"} :
         Message(kind, e) \in Messages
  /\ \A m \in Messages : m = Message(m.kind, m.entry) /\ m.entry \in 0..MaxEntries
  BY DEF Cut, Message, Messages

LEMMA EntriesTypes ==
  /\ MaxEntries \in Nat /\ MaxEmits \in Nat /\ Entries \subseteq 0..MaxEntries /\ 0 \in 0..MaxEntries
  /\ \A e \in Entries : e \in Nat /\ e # 0
  /\ IsFiniteSet(Workers) /\ Group \in [Entries -> Workers]
  BY BoltAssumption, GroupAssumption DEF Entries

LEMMA WorkersInitInv ==
  ASSUME NEW begin \in {"off", "unused"}, WorkersInit(begin)
  PROVE  WorkersInv
<1> USE EntriesTypes DEF WorkersInit, BoltInit
<1>1. WorkersTypeOK
  <2>1. NoChild \in Child
    BY DEF NoChild, Child
  <2>2. BoltTypeOK
    BY <2>1, BoltAssumption DEF BoltTypeOK
  <2>3. calls \in [Entries -> Call]
    BY DEF Call
  <2>4. /\ ready \in [Workers -> [made : Nat, done : BOOLEAN]] /\ restart \subseteq Workers
        /\ phase \in {"unused", "off", "starting", "up", "stopped"}
        /\ {handled, crashed} \subseteq BOOLEAN /\ closed \in [Workers -> BOOLEAN]
    OBVIOUS
  <2>5. /\ begun \in [Workers -> BOOLEAN] /\ soon \in Seq(Workers \X Messages)
        /\ prmap \subseteq Entries /\ {emit, results} \subseteq [Entries -> Nat]
        /\ answers \in [Entries -> Nat] /\ pushed \in Nat
    OBVIOUS
  <2> QED
    BY <2>2, <2>3, <2>4, <2>5 DEF WorkersTypeOK
<1>2. IdsEmitted /\ ~crashed
  BY DEF IdsEmitted, NoChild
<1>3. /\ \A w \in Workers : /\ child[w] = NoChild /\ child[w].state = "none" /\ child[w].work = {}
                            /\ stdin[w] = <<>> /\ stdout[w] = <<>> /\ got[w] = <<>> /\ ~begun[w]
      /\ \A e \in Entries : /\ calls[e].state = "none" /\ calls[e].worker = Group[e]
                            /\ emit[e] = 0 /\ made[e] = 0 /\ results[e] = 0 /\ answers[e] = 0
      /\ Len(<<>>) = 0
  BY DEF NoChild
<1> HIDE DEF WorkersInit, BoltInit
<1>4. /\ soon = <<>> /\ prmap = {} /\ restart = {} /\ phase = begin /\ handled = FALSE
  BY DEF WorkersInit
<1>5. Known
  BY <1>3, <1>4 DEF Known
<1>6. Quiet /\ \A w \in Workers : Written(w)
  BY <1>3, <1>4 DEF Quiet, Written
<1>7. Ordered
  BY <1>3, <1>4 DEF Ordered, GotInOrder, InInOrder, SoonInOrder, WaitsInOrder
<1>8. AnswersLast /\ HaveEntry
  BY <1>3, <1>4 DEF AnswersLast, HaveEntry
<1>9. EmitsCounted
  <2>1. \A e \in Entries : Coming(calls[e].worker, e) = 0
    BY <1>3, OccursEmpty DEF Coming
  <2> QED
    BY <1>3, <1>4, <2>1 DEF EmitsCounted, EmitsOf, ResultOf, InHand
<1> QED
  BY <1>1, <1>2, <1>5, <1>6, <1>7, <1>8, <1>9 DEF WorkersInv

(***************************************************************************)
(* Steps after which there is less to do, or that change other things.     *)
(***************************************************************************)

Shorter(s, t) ==
  \E n \in 0..Len(s) :
    /\ \A i \in 1..n : i \in 1..Len(t) /\ t[i] = s[i]
    /\ \A i \in 1..Len(t) : i \in 1..n \/ t[i] = Cut
Fewer(s, t) == t = s \/ t = <<>> \/ (s # <<>> /\ t = Tail(s))

LEMMA ShorterSame ==
  ASSUME NEW T, NEW s \in Seq(T)
  PROVE  Shorter(s, s)
<1>1. Len(s) \in 0..Len(s)
  OBVIOUS
<1> QED
  BY <1>1 DEF Shorter

LEMMA KnownKept ==
  ASSUME Known, UNCHANGED <<bound, phase, handled, prmap, calls, answers>>,
         phase \in {"off", "unused"} =>
           soon' = soon /\ \A w \in Workers : child[w].state = "none" => child'[w].state = "none"
  PROVE  Known'
  BY DEF Known

LEMMA FewerElements ==
  ASSUME WorkersTypeOK, NEW w \in Workers, Fewer(stdin[w], stdin'[w])
  PROVE  \E k \in {0, 1} : \A i \in 1..Len(stdin'[w]) :
           i + k \in 1..Len(stdin[w]) /\ stdin'[w][i] = stdin[w][i + k]
<1>1. stdin[w] \in Seq(Messages)
  BY DEF WorkersTypeOK, BoltTypeOK
<1>2. CASE stdin'[w] = stdin[w]
  <2>1. \A i \in 1..Len(stdin'[w]) : i + 0 \in 1..Len(stdin[w]) /\ stdin'[w][i] = stdin[w][i + 0]
    BY <1>2
  <2> QED
    BY <2>1
<1>3. CASE stdin'[w] = <<>>
  BY <1>3
<1>4. CASE stdin[w] # <<>> /\ stdin'[w] = Tail(stdin[w])
  <2>1. \A i \in 1..Len(stdin'[w]) : i + 1 \in 1..Len(stdin[w]) /\ stdin'[w][i] = stdin[w][i + 1]
    BY <1>1, <1>4, TailElements
  <2> QED
    BY <2>1
<1> QED
  BY <1>2, <1>3, <1>4 DEF Fewer

LEMMA OrderFewer ==
  ASSUME WorkersTypeOK, Ordered, UNCHANGED <<soon, got>>,
         \A w \in Workers : Fewer(stdin[w], stdin'[w]),
         \A w \in Workers : \A e : GivenTo(w, e) => GivenTo(w, e)'
  PROVE  \A w \in Workers : GotInOrder(w)' /\ InInOrder(w)' /\ SoonInOrder(w)'
<1>1. ASSUME NEW w \in Workers
      PROVE  GotInOrder(w)' /\ InInOrder(w)' /\ SoonInOrder(w)'
  <2>1. PICK k \in {0, 1} : \A i \in 1..Len(stdin'[w]) :
          i + k \in 1..Len(stdin[w]) /\ stdin'[w][i] = stdin[w][i + k]
    BY FewerElements
  <2>2. GotInOrder(w) /\ InInOrder(w) /\ SoonInOrder(w)
    BY DEF Ordered
  <2>3. \A j \in 1..Len(stdin'[w]) : TupleIn(w, j)' => TupleIn(w, j + k)
    BY <2>1 DEF TupleIn
  <2>4. \A j : TupleSoon(w, j)' <=> TupleSoon(w, j)
    BY DEF TupleSoon
  <2>5. \A e : GivenTo(w, e) => GivenTo(w, e)'
    OBVIOUS
  <2>6. GotInOrder(w)'
    BY <2>1, <2>2, <2>3, <2>4, <2>5 DEF GotInOrder
  <2>7. SoonInOrder(w)'
    BY <2>2, <2>4, <2>5 DEF SoonInOrder
  <2>8. ASSUME NEW i \in 1..Len(stdin'[w]), TupleIn(w, i)'
        PROVE  /\ stdin'[w][i].entry \in Entries /\ GivenTo(w, stdin'[w][i].entry)
               /\ \A j \in 1..Len(stdin'[w]) : i < j /\ TupleIn(w, j)' => stdin'[w][i].entry < stdin'[w][j].entry
               /\ \A j \in 1..Len(soon') : TupleSoon(w, j)' => stdin'[w][i].entry < soon'[j][2].entry
    <3>1. i + k \in 1..Len(stdin[w]) /\ stdin'[w][i] = stdin[w][i + k] /\ TupleIn(w, i + k)
      BY <2>1, <2>3, <2>8
    <3>2. \A j \in 1..Len(stdin'[w]) : i < j => i + k < j + k
      OBVIOUS
    <3> DEFINE m == stdin[w][i + k]
    <3>3. /\ m.entry \in Entries /\ GivenTo(w, m.entry)
          /\ \A j \in 1..Len(stdin[w]) : i + k < j /\ TupleIn(w, j) => m.entry < stdin[w][j].entry
          /\ \A j \in 1..Len(soon) : TupleSoon(w, j) => m.entry < soon[j][2].entry
      BY <2>2, <3>1 DEF InInOrder
    <3>4. m = stdin'[w][i]
      BY <3>1
    <3> HIDE DEF m
    <3>5. ASSUME NEW j \in 1..Len(stdin'[w]), i < j, TupleIn(w, j)'
          PROVE  m.entry < stdin'[w][j].entry
      BY <2>1, <2>3, <3>2, <3>3, <3>5
    <3> QED
      BY <2>4, <2>5, <3>3, <3>4, <3>5
  <2>9. InInOrder(w)'
    <3>1. \A i \in 1..Len(stdin'[w]) : TupleIn(w, i)' =>
            /\ stdin'[w][i].entry \in Entries /\ GivenTo(w, stdin'[w][i].entry)
            /\ \A j \in 1..Len(stdin'[w]) : i < j /\ TupleIn(w, j)' => stdin'[w][i].entry < stdin'[w][j].entry
            /\ \A j \in 1..Len(soon') : TupleSoon(w, j)' => stdin'[w][i].entry < soon'[j][2].entry
      BY <2>8
    <3> QED
      BY <2>5, <3>1 DEF InInOrder
  <2> QED
    BY <2>6, <2>7, <2>9
<1> QED
  BY <1>1

LEMMA OrderedFewer ==
  ASSUME WorkersTypeOK, Ordered, UNCHANGED <<calls, ready, soon, got>>,
         \A w \in Workers : Fewer(stdin[w], stdin'[w])
  PROVE  Ordered'
<1>1. \A w \in Workers : GotInOrder(w)' /\ InInOrder(w)' /\ SoonInOrder(w)'
  BY OrderFewer DEF GivenTo
<1>2. WaitsInOrder'
  BY DEF Ordered, WaitsInOrder, GivenTo
<1> QED
  BY <1>1, <1>2 DEF Ordered

LEMMA WrittenFewer ==
  ASSUME WorkersTypeOK, NEW w \in Workers, Written(w), UNCHANGED soon,
         \/ stdin'[w] = stdin[w] /\ child'[w].first = child[w].first
         \/ stdin'[w] = <<>> /\ child'[w].first = child[w].first
         \/ stdin[w] # <<>> /\ stdin'[w] = Tail(stdin[w])
  PROVE  Written(w)'
<1>1. stdin[w] \in Seq(Messages)
  BY DEF WorkersTypeOK, BoltTypeOK
<1>2. CASE stdin[w] # <<>> /\ stdin'[w] = Tail(stdin[w])
  <2>1. \A i \in 1..Len(stdin'[w]) : i + 1 \in 1..Len(stdin[w]) /\ stdin'[w][i] = stdin[w][i + 1]
    BY <1>1, <1>2, TailElements
  <2>2. \A i \in 1..Len(stdin'[w]) : stdin'[w][i].kind \in {"tuple", "ids"}
    BY <2>1 DEF Written
  <2> QED
    BY <1>2, <2>2 DEF Written
<1>3. CASE stdin'[w] = <<>> /\ child'[w].first = child[w].first
  BY <1>3 DEF Written
<1>4. CASE stdin'[w] = stdin[w] /\ child'[w].first = child[w].first
  BY <1>4 DEF Written
<1> QED
  BY <1>2, <1>3, <1>4

LEMMA AnswersFewer ==
  ASSUME WorkersTypeOK, AnswersLast, UNCHANGED got,
         \A w \in Workers : child'[w].work \subseteq child[w].work /\ Shorter(stdout[w], stdout'[w])
  PROVE  AnswersLast'
<1>1. \A w, e : Got(w, e)' <=> Got(w, e)
  BY DEF Got
<1>2. SUFFICES ASSUME NEW w \in Workers, NEW i \in 1..Len(stdout'[w]), Answer(stdout'[w][i])
               PROVE  /\ Got(w, stdout'[w][i].entry) /\ stdout'[w][i].entry \notin child'[w].work
                      /\ \A j \in 1..Len(stdout'[w]) : stdout'[w][j].entry = stdout'[w][i].entry /\ i < j =>
                           stdout'[w][j].kind # "emit" /\ ~Answer(stdout'[w][j])
  BY <1>1 DEF AnswersLast
<1>3. PICK n \in 0..Len(stdout[w]) :
        /\ \A k \in 1..n : k \in 1..Len(stdout'[w]) /\ stdout'[w][k] = stdout[w][k]
        /\ \A k \in 1..Len(stdout'[w]) : k \in 1..n \/ stdout'[w][k] = Cut
  BY DEF Shorter
<1>4. Cut.kind # "emit" /\ ~Answer(Cut)
  BY MessageTypes DEF Answer
<1>5. Len(stdout[w]) \in Nat
  BY DEF WorkersTypeOK, BoltTypeOK
<1>6. i \in 1..n /\ i \in 1..Len(stdout[w]) /\ stdout'[w][i] = stdout[w][i]
  BY <1>2, <1>3, <1>4, <1>5
<1>7. ASSUME NEW j \in 1..Len(stdout'[w]), stdout'[w][j].entry = stdout'[w][i].entry, i < j
      PROVE  stdout'[w][j].kind # "emit" /\ ~Answer(stdout'[w][j])
  <2>1. CASE stdout'[w][j] = Cut
    BY <1>4, <2>1
  <2>2. CASE j \in 1..n
    <3>1. j \in 1..Len(stdout[w]) /\ stdout'[w][j] = stdout[w][j]
      BY <1>3, <1>5, <2>2
    <3> QED
      BY <1>2, <1>6, <1>7, <3>1 DEF AnswersLast
  <2> QED
    BY <1>3, <2>1, <2>2
<1> QED
  BY <1>2, <1>6, <1>7 DEF AnswersLast


LEMMA HaveFewer ==
  ASSUME WorkersTypeOK, HaveEntry, UNCHANGED <<phase, prmap, soon, closed>>,
         \A w \in Workers : /\ child'[w].work \subseteq child[w].work
                            /\ Shorter(stdout[w], stdout'[w]) /\ Fewer(stdin[w], stdin'[w])
  PROVE  HaveEntry'
<1>1. SUFFICES ASSUME phase = "up", NEW w \in Workers
               PROVE  /\ child'[w].work \subseteq prmap
                      /\ \A i \in 1..Len(stdin'[w]) : stdin'[w][i].kind = "tuple" => stdin'[w][i].entry \in prmap
                      /\ \A i \in 1..Len(stdout'[w]) : Answer(stdout'[w][i]) => stdout'[w][i].entry \in prmap
                      /\ \A i \in 1..Len(soon) : TupleSoon(w, i) /\ ~closed[w] => soon[i][2].entry \in prmap
  BY DEF HaveEntry, TupleIn, TupleSoon
<1>2. PICK k \in {0, 1} : \A i \in 1..Len(stdin'[w]) :
        i + k \in 1..Len(stdin[w]) /\ stdin'[w][i] = stdin[w][i + k]
  BY FewerElements
<1>3. \A i \in 1..Len(stdin'[w]) : stdin'[w][i].kind = "tuple" => stdin'[w][i].entry \in prmap
  BY <1>1, <1>2 DEF HaveEntry, TupleIn
<1>4. ~Answer(Cut) /\ stdout[w] \in Seq(Messages \cup {Cut})
  BY MessageTypes DEF Answer, WorkersTypeOK, BoltTypeOK
<1>5. \A i \in 1..Len(stdout'[w]) : Answer(stdout'[w][i]) =>
        i \in 1..Len(stdout[w]) /\ stdout'[w][i] = stdout[w][i]
  BY <1>4 DEF Shorter
<1>6. \A i \in 1..Len(stdout'[w]) : Answer(stdout'[w][i]) => stdout'[w][i].entry \in prmap
  BY <1>1, <1>5 DEF HaveEntry
<1> QED
  BY <1>1, <1>3, <1>6 DEF HaveEntry

LEMMA ComingFewer ==
  ASSUME WorkersTypeOK, WorkersTypeOK', AnswersLast,
         NEW w \in Workers, Shorter(stdout[w], stdout'[w]), NEW e \in Entries
  PROVE  /\ Coming(w, e) \in Nat /\ Coming(w, e)' \in Nat /\ Coming(w, e)' <= Coming(w, e)
         /\ stdout'[w] = stdout[w] => Coming(w, e)' = Coming(w, e)
         /\ \A i \in 1..Len(stdout'[w]) : Answer(stdout'[w][i]) /\ stdout'[w][i].entry = e =>
              /\ Coming(w, e)' = Coming(w, e)
              /\ \E j \in 1..Len(stdout[w]) : stdout[w][j] = stdout'[w][i]
<1> DEFINE s == stdout[w]
           t == stdout'[w]
           S == {Message("emit", e)}
           M == Messages \cup {Cut}
<1>1. s \in Seq(M) /\ t \in Seq(M)
  BY DEF WorkersTypeOK, BoltTypeOK
<1>2. Coming(w, e) = Occurs(s, S) /\ Coming(w, e)' = Occurs(t, S)
  BY DEF Coming
<1>3. PICK n \in 0..Len(s) :
        /\ \A k \in 1..n : k \in 1..Len(t) /\ t[k] = s[k]
        /\ \A k \in 1..Len(t) : k \in 1..n \/ t[k] = Cut
  BY DEF Shorter
<1>4. Cut \notin S /\ ~Answer(Cut) /\ Message("emit", e).kind = "emit" /\ Message("emit", e).entry = e
  BY MessageTypes DEF Answer
<1>5. \A k \in 1..Len(t) : k \in 1..n \/ t[k] \notin S
  BY <1>3, <1>4
<1>6. /\ \A k \in 1..n : k \in 1..Len(t) /\ t[k] = s[k]
      /\ Occurs(s, S) \in Nat /\ Occurs(t, S) \in Nat
  BY <1>1, <1>3, OccursType
<1>7. \A i \in 1..Len(t) : Answer(t[i]) /\ t[i].entry = e =>
        /\ i \in 1..Len(s) /\ t[i] = s[i]
        /\ \A k \in 1..Len(s) : k > n => s[k] \notin S
  <2>1. SUFFICES ASSUME NEW i \in 1..Len(t), Answer(t[i]), t[i].entry = e
                 PROVE  /\ i \in 1..Len(s) /\ t[i] = s[i]
                        /\ \A k \in 1..Len(s) : k > n => s[k] \notin S
    OBVIOUS
  <2>2. i \in 1..n /\ i \in 1..Len(s) /\ t[i] = s[i] /\ n \in Nat
    BY <1>1, <1>3, <1>4, <2>1
  <2>3. ASSUME NEW k \in 1..Len(s), k > n
        PROVE  s[k] \notin S
    <3>1. i < k
      BY <1>1, <2>2, <2>3
    <3>2. s[k].entry = s[i].entry => s[k].kind # "emit"
      BY <2>1, <2>2, <3>1 DEF AnswersLast
    <3> QED
      BY <1>4, <2>1, <2>2, <3>2
  <2> QED
    BY <2>2, <2>3
<1> HIDE DEF s, t, S, M
<1>8. /\ Occurs(t, S) <= Occurs(s, S)
      /\ (\A k \in 1..Len(s) : k > n => s[k] \notin S) => Occurs(t, S) = Occurs(s, S)
  <2>1. n \in 0..Len(s)
    OBVIOUS
  <2>2. \A k \in 1..n : k \in 1..Len(t) /\ t[k] = s[k]
    BY <1>6
  <2> QED
    BY ONLY <1>1, <1>5, <2>1, <2>2, OccursCut
<1>9. ASSUME NEW i \in 1..Len(t), Answer(t[i]), t[i].entry = e
      PROVE  Coming(w, e)' = Coming(w, e) /\ \E j \in 1..Len(s) : s[j] = t[i]
  BY <1>2, <1>7, <1>8, <1>9
<1> QED
  BY <1>2, <1>6, <1>8, <1>9 DEF s, t

LEMMA EmitsFewer ==
  ASSUME WorkersTypeOK, WorkersTypeOK', AnswersLast, EmitsCounted,
         UNCHANGED <<calls, phase, emit, made, results, got>>,
         \A w \in Workers : /\ child'[w].work \subseteq child[w].work
                            /\ Shorter(stdout[w], stdout'[w])
                            /\ stdout'[w] = stdout[w] \/ child'[w].work = {}
  PROVE  EmitsCounted'
<1>1. \A w, e : Got(w, e)' <=> Got(w, e)
  BY DEF Got
<1>2. ASSUME NEW e \in Entries
      PROVE  EmitsOf(calls[e].worker, e)' /\ ResultOf(calls[e].worker, e)'
  <2>0. PICK w \in Workers : w = calls[e].worker
    BY DEF WorkersTypeOK, Call
  <2>1. /\ w \in Workers /\ emit[e] \in Nat /\ made[e] \in Nat
        /\ EmitsOf(w, e) /\ ResultOf(w, e)
    BY <2>0 DEF WorkersTypeOK, BoltTypeOK, EmitsCounted
  <2>2. /\ Coming(w, e) \in Nat /\ Coming(w, e)' \in Nat /\ Coming(w, e)' <= Coming(w, e)
        /\ stdout'[w] = stdout[w] => Coming(w, e)' = Coming(w, e)
        /\ \A i \in 1..Len(stdout'[w]) : Answer(stdout'[w][i]) /\ stdout'[w][i].entry = e =>
             /\ Coming(w, e)' = Coming(w, e)
             /\ \E j \in 1..Len(stdout[w]) : stdout[w][j] = stdout'[w][i]
    BY <2>1, ComingFewer
  <2>3. InHand(w, e)' => InHand(w, e) /\ Coming(w, e)' = Coming(w, e)
    BY <2>1, <2>2 DEF InHand
  <2>4. EmitsOf(w, e)'
    BY <1>1, <2>1, <2>2, <2>3 DEF EmitsOf
  <2>5. ResultOf(w, e)'
    BY <1>1, <2>1 DEF ResultOf
  <2> QED
    BY <2>0, <2>4, <2>5
<1>3. ASSUME NEW w \in Workers, NEW i \in 1..Len(stdout'[w]), stdout'[w][i].kind = "emit"
      PROVE  stdout'[w][i].entry = 0 \/ Got(w, stdout'[w][i].entry)
  <2>1. Cut.kind # "emit" /\ stdout[w] \in Seq(Messages \cup {Cut})
    BY MessageTypes DEF WorkersTypeOK, BoltTypeOK
  <2>2. i \in 1..Len(stdout[w]) /\ stdout'[w][i] = stdout[w][i]
    BY <1>3, <2>1 DEF Shorter
  <2> QED
    BY <1>3, <2>2 DEF EmitsCounted
<1> QED
  BY <1>1, <1>2, <1>3 DEF EmitsCounted


(* A worker reads, ends or is ready: what it has to do becomes less.       *)
LEMMA LessToDo ==
  ASSUME WorkersInv, WorkersTypeOK', IdsEmitted',
         UNCHANGED <<bound, made, got, parentVars>>,
         NEW w \in Workers, child[w].state = "up",
         \A v \in Workers : v # w =>
           child'[v] = child[v] /\ stdin'[v] = stdin[v] /\ stdout'[v] = stdout[v],
         child'[w].work \subseteq child[w].work, Shorter(stdout[w], stdout'[w]),
         \/ /\ child'[w].state = "exited" /\ child'[w].work = {} /\ stdin'[w] = <<>>
            /\ child'[w].first = child[w].first
            /\ \A i \in 1..Len(stdout'[w]) : stdout'[w][i] = Cut => i = Len(stdout'[w])
         \/ /\ child'[w].state = "up" /\ stdout'[w] = stdout[w]
            /\ stdin[w] # <<>> /\ stdin'[w] = Tail(stdin[w])
  PROVE  WorkersInv'
<1> USE DEF WorkersInv
<1>1. UNCHANGED <<phase, handled, ready, closed, restart, begun, soon, calls, prmap,
                  emit, results, answers, crashed>>
  BY DEF parentVars
<1>2. \A v \in Workers : /\ child'[v].work \subseteq child[v].work
                         /\ Shorter(stdout[v], stdout'[v]) /\ Fewer(stdin[v], stdin'[v])
                         /\ stdout'[v] = stdout[v] \/ child'[v].work = {}
  <2>1. \A v \in Workers : Shorter(stdout[v], stdout[v])
    BY ShorterSame DEF WorkersTypeOK, BoltTypeOK
  <2> QED
    BY <2>1 DEF Fewer
<1>3. Known'
  BY <1>1, KnownKept DEF Known
<1>4. Quiet'
  BY <1>1 DEF Quiet
<1>5. \A v \in Workers : Written(v)'
  BY <1>1, WrittenFewer
<1>6. Ordered'
  BY <1>1, <1>2, OrderedFewer
<1>7. AnswersLast'
  BY <1>2, AnswersFewer
<1>8. HaveEntry'
  BY <1>1, <1>2, HaveFewer
<1>9. EmitsCounted'
  BY <1>1, <1>2, EmitsFewer
<1> QED
  BY <1>1, <1>3, <1>4, <1>5, <1>6, <1>7, <1>8, <1>9

(* Types, as a worker takes a step.                                        *)
LEMMA ChildField ==
  ASSUME NEW c \in Child
  PROVE  /\ \A x \in {"none", "up", "exited", "closed"} : [c EXCEPT !.state = x] \in Child
         /\ \A x \in BOOLEAN : [c EXCEPT !.first = x] \in Child /\ [c EXCEPT !.ready = x] \in Child
         /\ \A x \in 0..MaxEmits : [c EXCEPT !.ids = x] \in Child
         /\ \A x \in SUBSET Entries : [c EXCEPT !.work = x] \in Child
         /\ \A x \in {0, 1} : [c EXCEPT !.state = "exited", !.code = x, !.work = {}] \in Child
         /\ c.ids \in 0..MaxEmits /\ c.work \in SUBSET Entries
  BY DEF Child

LEMMA ChildTypes ==
  ASSUME WorkersTypeOK, IdsEmitted, NEW w \in Workers, NEW c \in Child,
         child' = [child EXCEPT ![w] = c], c.ids <= emits',
         UNCHANGED <<bound, parentVars>>,
         stdin' \in [Workers -> Seq(Messages)],
         stdout' \in [Workers -> Seq(Messages \cup {Cut})],
         exits' \in 0..bound.exits, emits' \in 0..bound.emits, emits <= emits',
         got' \in [Workers -> Seq(Entries)], made' \in [Entries -> Nat]
  PROVE  WorkersTypeOK' /\ IdsEmitted'
<1>1. child' \in [Workers -> Child]
  BY DEF WorkersTypeOK, BoltTypeOK
<1>2. BoltTypeOK'
  BY <1>1 DEF WorkersTypeOK, BoltTypeOK
<1>3. WorkersTypeOK'
  BY <1>2 DEF WorkersTypeOK, parentVars
<1>4. IdsEmitted'
  <2>1. SUFFICES ASSUME NEW v \in Workers
                 PROVE  child'[v].ids <= emits'
    BY DEF IdsEmitted
  <2>2. child[v].ids \in Nat /\ emits \in Nat /\ child[v].ids <= emits /\ emits' \in Nat
    <3>1. child[v] \in Child /\ emits \in 0..bound.emits /\ bound \in Worlds
      BY DEF WorkersTypeOK, BoltTypeOK
    <3>2. MaxEmits \in Nat /\ bound.emits \in 0..MaxEmits
      BY <3>1, BoltAssumption
    <3>3. child[v].ids \in 0..MaxEmits
      BY <3>1, ChildField
    <3>4. emits \in Nat /\ emits' \in Nat /\ child[v].ids \in Nat
      BY <3>1, <3>2, <3>3
    <3> QED
      BY <3>4 DEF IdsEmitted
  <2>3. CASE v = w
    BY <2>3 DEF WorkersTypeOK, BoltTypeOK
  <2>4. CASE v # w
    <3>1. child'[v] = child[v]
      BY <2>4 DEF WorkersTypeOK, BoltTypeOK
    <3> QED
      BY <2>2, <3>1
  <2> QED
    BY <2>3, <2>4
<1> QED
  BY <1>3, <1>4


LEMMA Bounds ==
  ASSUME WorkersTypeOK
  PROVE  /\ MaxEmits \in Nat /\ bound \in Worlds /\ bound.emits \in 0..MaxEmits
         /\ bound.emits \in Nat /\ emits \in Nat /\ emits <= bound.emits
         /\ \A w \in Workers : child[w].ids \in Nat
<1>1. MaxEmits \in Nat /\ bound \in Worlds /\ bound.emits \in 0..MaxEmits
  BY BoltAssumption DEF WorkersTypeOK, BoltTypeOK
<1>2. emits \in 0..bound.emits
  BY DEF WorkersTypeOK, BoltTypeOK
<1>3. \A w \in Workers : child[w].ids \in 0..MaxEmits
  BY ChildField DEF WorkersTypeOK, BoltTypeOK
<1> QED
  BY <1>1, <1>2, <1>3

LEMMA ExitsEffect ==
  ASSUME WorkersTypeOK, IdsEmitted, NEW w \in Workers, NEW code \in {0, 1}, Exits(w, code)
  PROVE  /\ child'[w].state = "exited" /\ child'[w].work = {} /\ stdin'[w] = <<>>
         /\ child'[w].first = child[w].first /\ child'[w].ids = child[w].ids
         /\ stdin' \in [Workers -> Seq(Messages)]
         /\ \A v \in Workers : v # w => child'[v] = child[v] /\ stdin'[v] = stdin[v]
         /\ \E c \in Child : child' = [child EXCEPT ![w] = c] /\ c.ids <= emits
<1>1. child[w] \in Child /\ child \in [Workers -> Child] /\ stdin \in [Workers -> Seq(Messages)]
  BY DEF WorkersTypeOK, BoltTypeOK
<1> DEFINE c == [child[w] EXCEPT !.state = "exited", !.code = code, !.work = {}]
<1>2. child' = [child EXCEPT ![w] = c]
  BY <1>1 DEF Exits
<1>3. /\ c \in Child /\ c.state = "exited" /\ c.work = {} /\ c.first = child[w].first
      /\ c.ids = child[w].ids
  <2>1. c \in Child
    BY <1>1, ChildField
  <2>2. /\ c.state = "exited" /\ c.work = {} /\ c.first = child[w].first
        /\ c.ids = child[w].ids
    BY <1>1 DEF Child
  <2> QED
    BY <2>1, <2>2
<1> HIDE DEF c
<1>4. child'[w] = c /\ \A v \in Workers : v # w => child'[v] = child[v]
  BY <1>1, <1>2
<1>5. c.ids <= emits
  BY <1>3 DEF IdsEmitted
<1>6. \E d \in Child : child' = [child EXCEPT ![w] = d] /\ d.ids <= emits
  BY <1>2, <1>3, <1>5
<1>7. stdin' = [stdin EXCEPT ![w] = <<>>]
  BY DEF Exits
<1>8. /\ stdin'[w] = <<>> /\ stdin' \in [Workers -> Seq(Messages)]
      /\ \A v \in Workers : v # w => stdin'[v] = stdin[v]
  BY <1>1, <1>7
<1> QED
  BY <1>3, <1>4, <1>6, <1>8

LEMMA ThrowsKeeps ==
  ASSUME WorkersInv, NEW w \in Workers, child[w].state = "up", Throws(w),
         UNCHANGED <<bound, exits, emits, made, parentVars>>
  PROVE  WorkersInv'
<1> USE DEF WorkersInv
<1>1. Exits(w, 1) /\ UNCHANGED <<stdout, got>>
  BY DEF Throws
<1>2. /\ child'[w].state = "exited" /\ child'[w].work = {} /\ stdin'[w] = <<>>
      /\ child'[w].first = child[w].first
      /\ stdin' \in [Workers -> Seq(Messages)]
      /\ \A v \in Workers : v # w => child'[v] = child[v] /\ stdin'[v] = stdin[v]
      /\ \E c \in Child : child' = [child EXCEPT ![w] = c] /\ c.ids <= emits
  BY <1>1, ExitsEffect
<1>3. WorkersTypeOK' /\ IdsEmitted'
  <2>1. PICK c \in Child : child' = [child EXCEPT ![w] = c] /\ c.ids <= emits
    BY <1>2
  <2>2. /\ exits \in 0..bound.exits /\ emits \in 0..bound.emits
        /\ stdout \in [Workers -> Seq(Messages \cup {Cut})]
        /\ got \in [Workers -> Seq(Entries)] /\ made \in [Entries -> Nat]
        /\ bound \in Worlds
    BY DEF WorkersTypeOK, BoltTypeOK
  <2>3. emits <= emits
    BY <2>2, BoltAssumption
  <2> QED
    BY <1>1, <1>2, <2>1, <2>2, <2>3, ChildTypes
<1>4. Shorter(stdout[w], stdout[w])
  BY ShorterSame DEF WorkersTypeOK, BoltTypeOK
<1>5. \A i \in 1..Len(stdout'[w]) : stdout'[w][i] = Cut => i = Len(stdout'[w])
  BY <1>1 DEF Quiet
<1> QED
  BY <1>1, <1>2, <1>3, <1>4, <1>5, LessToDo

LEMMA DiesKeeps ==
  ASSUME WorkersInv, NEW w \in Workers, Dies(w), UNCHANGED parentVars
  PROVE  WorkersInv'
<1> USE DEF WorkersInv
<1>1. PICK code \in bound.codes : Exits(w, code)
  BY DEF Dies
<1>2. PICK n \in 0..Len(stdout[w]), last \in {<<>>, <<Cut>>} :
        stdout' = [stdout EXCEPT ![w] = SubSeq(@, 1, n) \o last]
  BY DEF Dies
<1>3. /\ child[w].state = "up" /\ exits < bound.exits /\ exits' = exits + 1
      /\ UNCHANGED <<bound, emits, got, made>>
  BY DEF Dies
<1>4. bound \in Worlds /\ code \in {0, 1}
  BY BoltAssumption DEF WorkersTypeOK, BoltTypeOK
<1>5. /\ child'[w].state = "exited" /\ child'[w].work = {} /\ stdin'[w] = <<>>
      /\ child'[w].first = child[w].first
      /\ stdin' \in [Workers -> Seq(Messages)]
      /\ \A v \in Workers : v # w => child'[v] = child[v] /\ stdin'[v] = stdin[v]
      /\ \E c \in Child : child' = [child EXCEPT ![w] = c] /\ c.ids <= emits
  BY <1>1, <1>4, ExitsEffect
<1> DEFINE s == stdout[w]
           t == SubSeq(s, 1, n) \o last
           M == Messages \cup {Cut}
<1>6. /\ s \in Seq(M) /\ last \in Seq(M) /\ stdout \in [Workers -> Seq(M)]
      /\ \A i \in 1..Len(last) : last[i] = Cut /\ i = Len(last)
  <2>1. stdout \in [Workers -> Seq(M)]
    BY DEF WorkersTypeOK, BoltTypeOK
  <2>2. Cut \in M
    OBVIOUS
  <2> HIDE DEF M
  <2>3. last \in Seq(M) /\ \A i \in 1..Len(last) : last[i] = Cut /\ i = Len(last)
    <3>1. CASE last = <<>>
      BY <3>1
    <3>2. CASE last = <<Cut>>
      BY <2>2, <3>2
    <3> QED
      BY <3>1, <3>2
  <2> QED
    BY <2>1, <2>3
<1>7. stdout' = [stdout EXCEPT ![w] = t]
  BY <1>2
<1> HIDE DEF s, M
<1>8. /\ t \in Seq(M) /\ Len(t) = n + Len(last) /\ Len(last) \in Nat
      /\ \A i \in 1..n : i \in 1..Len(s) /\ t[i] = s[i]
      /\ \A i \in 1..Len(last) : t[n + i] = last[i]
      /\ \A i \in 1..Len(t) : i \in 1..n \/ (i - n \in 1..Len(last) /\ i > n)
  <2>1. n \in 0..Len(s)
    BY DEF s
  <2>2. s \in Seq(M) /\ last \in Seq(M)
    BY <1>6
  <2>3. /\ SubSeq(s, 1, n) \o last \in Seq(M)
        /\ Len(SubSeq(s, 1, n) \o last) = n + Len(last) /\ Len(last) \in Nat
        /\ \A i \in 1..n : i \in 1..Len(s) /\ (SubSeq(s, 1, n) \o last)[i] = s[i]
        /\ \A i \in 1..Len(last) : (SubSeq(s, 1, n) \o last)[n + i] = last[i]
        /\ \A i \in 1..Len(SubSeq(s, 1, n) \o last) :
             i \in 1..n \/ (i - n \in 1..Len(last) /\ i > n)
    BY ONLY <2>1, <2>2, CutElements, Zenon
  <2> QED
    BY ONLY <2>3
<1> HIDE DEF t
<1>9. n \in Nat /\ n \in 0..Len(s)
  BY <1>6 DEF s
<1>10. Shorter(s, t)
  <2>1. \A i \in 1..n : i \in 1..Len(t) /\ t[i] = s[i]
    BY <1>8, <1>9
  <2>2. ASSUME NEW i \in 1..Len(t), ~(i \in 1..n)
        PROVE  t[i] = Cut
    <3>1. i - n \in 1..Len(last) /\ n + (i - n) = i
      BY <1>8, <1>9, <2>2
    <3> QED
      BY <1>6, <1>8, <3>1
  <2> QED
    BY <1>9, <2>1, <2>2 DEF Shorter
<1>11. ASSUME NEW i \in 1..Len(t), t[i] = Cut
       PROVE  i = Len(t)
  <2>1. CASE i \in 1..n
    <3>1. i \in 1..Len(s) /\ s[i] = Cut
      BY <1>8, <1>11, <2>1
    <3> QED
      BY <1>3, <3>1 DEF Quiet, s
  <2>2. CASE i - n \in 1..Len(last) /\ i > n
    <3>1. i - n = Len(last) /\ i - n \in 1..Len(last)
      BY <1>6, <1>9, <2>2
    <3> QED
      BY <1>8, <1>9, <3>1
  <2> QED
    BY <1>8, <2>1, <2>2
<1>12. stdout' \in [Workers -> Seq(M)] /\ stdout'[w] = t /\ \A v \in Workers : v # w => stdout'[v] = stdout[v]
  BY <1>6, <1>7, <1>8
<1>13. WorkersTypeOK' /\ IdsEmitted'
  <2>1. PICK c \in Child : child' = [child EXCEPT ![w] = c] /\ c.ids <= emits
    BY <1>5
  <2>2. /\ exits' \in 0..bound.exits /\ emits \in 0..bound.emits
        /\ got \in [Workers -> Seq(Entries)] /\ made \in [Entries -> Nat]
        /\ emits <= emits
    BY <1>3, <1>4, BoltAssumption, SMTT(30) DEF WorkersTypeOK, BoltTypeOK
  <2> QED
    BY <1>3, <1>5, <1>12, <2>1, <2>2, ChildTypes DEF M
<1> QED
  BY <1>3, <1>5, <1>10, <1>11, <1>12, <1>13, LessToDo DEF s


LEMMA SetupKeeps ==
  ASSUME WorkersInv, NEW w \in Workers, child[w].state = "up", stdin[w] # <<>>,
         InitSetupInfo(w) \/ (HandleNewTaskId(w) /\ child[w].ids > 0),
         UNCHANGED <<bound, exits, emits, made, parentVars>>
  PROVE  WorkersInv'
<1> USE DEF WorkersInv
<1>1. /\ stdin' = [stdin EXCEPT ![w] = Tail(@)] /\ UNCHANGED <<stdout, got>>
      /\ \/ child' = [child EXCEPT ![w].first = FALSE]
         \/ child' = [child EXCEPT ![w].ids = @ - 1]
  BY DEF InitSetupInfo, HandleNewTaskId
<1>2. /\ child[w] \in Child /\ child \in [Workers -> Child]
      /\ stdin \in [Workers -> Seq(Messages)]
      /\ stdout \in [Workers -> Seq(Messages \cup {Cut})]
      /\ exits \in 0..bound.exits /\ emits \in 0..bound.emits /\ bound \in Worlds
      /\ got \in [Workers -> Seq(Entries)] /\ made \in [Entries -> Nat]
  BY DEF WorkersTypeOK, BoltTypeOK
<1>3. child[w].ids \in 0..MaxEmits /\ MaxEmits \in Nat /\ emits \in Nat
  BY <1>2, ChildField, Bounds
<1>4. PICK c \in Child : /\ child' = [child EXCEPT ![w] = c] /\ c.ids <= emits
                         /\ c.state = child[w].state /\ c.work = child[w].work
  <2>1. CASE child' = [child EXCEPT ![w].first = FALSE]
    <3> DEFINE c == [child[w] EXCEPT !.first = FALSE]
    <3>1. c \in Child
      BY <1>2, ChildField
    <3>2. c.state = child[w].state /\ c.work = child[w].work /\ c.ids = child[w].ids
      BY <1>2 DEF Child
    <3>3. child' = [child EXCEPT ![w] = c]
      BY <1>2, <2>1
    <3> QED
      BY <3>1, <3>2, <3>3 DEF IdsEmitted
  <2>2. CASE child' = [child EXCEPT ![w].ids = @ - 1] /\ child[w].ids > 0
    <3> DEFINE c == [child[w] EXCEPT !.ids = @ - 1]
    <3>1. child[w].ids - 1 \in 0..MaxEmits
      BY <1>3, <2>2
    <3>2. c \in Child
      BY <1>2, <3>1, ChildField
    <3>3. c.state = child[w].state /\ c.work = child[w].work /\ c.ids = child[w].ids - 1
      BY <1>2 DEF Child
    <3>4. child' = [child EXCEPT ![w] = c]
      BY <1>2, <2>2
    <3>5. c.ids <= emits
      BY <1>3, <3>3 DEF IdsEmitted
    <3> QED
      BY <3>2, <3>3, <3>4, <3>5
  <2>3. child' = [child EXCEPT ![w].ids = @ - 1] => child[w].ids > 0 \/ InitSetupInfo(w)
    OBVIOUS
  <2> QED
    BY <1>1, <2>1, <2>2, <2>3 DEF InitSetupInfo, HandleNewTaskId
<1>5. /\ child'[w] = c /\ \A v \in Workers : v # w => child'[v] = child[v] /\ stdin'[v] = stdin[v]
      /\ stdin'[w] = Tail(stdin[w])
  BY <1>1, <1>2, <1>4
<1>6. stdin' \in [Workers -> Seq(Messages)]
  BY <1>1, <1>2, TailElements
<1>7. WorkersTypeOK' /\ IdsEmitted'
  <2>1. emits <= emits
    BY <1>3
  <2> QED
    BY <1>1, <1>2, <1>4, <1>6, <2>1, ChildTypes
<1>8. Shorter(stdout[w], stdout[w])
  BY <1>2, ShorterSame
<1>9. UNCHANGED <<bound, made, got, parentVars>> /\ stdout' = stdout
  BY <1>1
<1> QED
  BY <1>4, <1>5, <1>7, <1>8, <1>9, LessToDo

(* A worker takes the next tuple: it got none of a later call, and nothing *)
(* was emitted for it yet.                                                 *)
LEMMA CommandKeeps ==
  ASSUME WorkersInv, NEW w \in Workers, child[w].state = "up", stdin[w] # <<>>,
         ~child[w].first, Head(stdin[w]).kind # "ids", HandleNewCommand(w, Head(stdin[w])),
         UNCHANGED <<bound, exits, emits, made, parentVars>>
  PROVE  WorkersInv'
<1> USE DEF WorkersInv
<1> DEFINE e == Head(stdin[w]).entry
<1>0. UNCHANGED <<phase, handled, ready, closed, restart, begun, soon, calls, prmap,
                  emit, results, answers, crashed, stdout>>
  BY DEF parentVars, HandleNewCommand
<1>1. /\ child \in [Workers -> Child] /\ stdin \in [Workers -> Seq(Messages)]
      /\ stdout \in [Workers -> Seq(Messages \cup {Cut})]
      /\ exits \in 0..bound.exits /\ emits \in 0..bound.emits /\ bound \in Worlds
      /\ got \in [Workers -> Seq(Entries)] /\ made \in [Entries -> Nat]
      /\ child[w] \in Child /\ stdin[w] \in Seq(Messages) /\ got[w] \in Seq(Entries)
  BY DEF WorkersTypeOK, BoltTypeOK
<1>2. /\ Tail(stdin[w]) \in Seq(Messages) /\ Head(stdin[w]) = stdin[w][1] /\ 1 \in 1..Len(stdin[w])
      /\ \A i \in 1..Len(Tail(stdin[w])) : i + 1 \in 1..Len(stdin[w]) /\ Tail(stdin[w])[i] = stdin[w][i + 1]
  BY <1>1, TailElements
<1>3. Written(w) /\ InInOrder(w) /\ GotInOrder(w) /\ SoonInOrder(w)
  BY DEF Ordered
<1>4. TupleIn(w, 1) /\ stdin[w][1].entry = e
  BY <1>2, <1>3 DEF TupleIn, Written
<1>5. /\ e \in Entries /\ GivenTo(w, e)
      /\ \A j \in 1..Len(stdin[w]) : 1 < j /\ TupleIn(w, j) => e < stdin[w][j].entry
      /\ \A j \in 1..Len(soon) : TupleSoon(w, j) => e < soon[j][2].entry
      /\ \A i \in 1..Len(got[w]) : got[w][i] < e
  BY <1>2, <1>3, <1>4 DEF InInOrder, GotInOrder
<1> DEFINE c == [child[w] EXCEPT !.work = @ \cup {e}]
           g == Append(got[w], e)
<1>6. /\ child' = [child EXCEPT ![w] = c] /\ got' = [got EXCEPT ![w] = g]
      /\ stdin' = [stdin EXCEPT ![w] = Tail(@)]
  BY <1>1 DEF HandleNewCommand
<1> HIDE DEF e
<1>7. /\ c \in Child /\ c.ids = child[w].ids /\ c.state = child[w].state /\ c.first = child[w].first
      /\ c.work = child[w].work \cup {e}
  <2>1. child[w].work \cup {e} \in SUBSET Entries
    BY <1>1, <1>5, ChildField
  <2>2. c \in Child
    BY <1>1, <2>1, ChildField
  <2> QED
    BY <1>1, <2>2 DEF Child
<1> HIDE DEF c
<1>8. /\ g \in Seq(Entries) /\ Len(g) = Len(got[w]) + 1 /\ Len(got[w]) \in Nat
      /\ \A i \in 1..Len(got[w]) : g[i] = got[w][i]
      /\ g[Len(got[w]) + 1] = e
      /\ \A i \in 1..Len(g) : i \in 1..Len(got[w]) \/ i = Len(got[w]) + 1
  BY <1>1, <1>5, AppendElements
<1> HIDE DEF g
<1>9. /\ child'[w] = c /\ got'[w] = g /\ stdin'[w] = Tail(stdin[w])
      /\ \A v \in Workers : v # w =>
           child'[v] = child[v] /\ got'[v] = got[v] /\ stdin'[v] = stdin[v]
  BY <1>1, <1>6
<1>10. WorkersTypeOK' /\ IdsEmitted'
  <2>1. emits <= emits /\ c.ids <= emits
    BY <1>1, <1>7, BoltAssumption DEF IdsEmitted
  <2>2. stdin' \in [Workers -> Seq(Messages)] /\ got' \in [Workers -> Seq(Entries)]
    BY <1>1, <1>2, <1>6, <1>8
  <2> QED
    BY <1>0, <1>1, <1>6, <1>7, <2>1, <2>2, ChildTypes
<1>11. Known'
  BY <1>0, KnownKept DEF Known
<1>12. Quiet'
  BY <1>0, <1>7, <1>9 DEF Quiet
<1>13. \A v \in Workers : Written(v)'
  BY <1>0, <1>7, <1>9, WrittenFewer
<1>14. /\ \A d : Got(w, d)' <=> Got(w, d) \/ d = e
       /\ \A v \in Workers : v # w => \A d : Got(v, d)' <=> Got(v, d)
       /\ ~Got(w, e)
  <2>1. \A d : Got(w, d)' <=> Got(w, d) \/ d = e
    <3>1. /\ got'[w] = g /\ Len(g) \in Nat
          /\ \A i \in 1..Len(got[w]) : i \in 1..Len(g)
          /\ Len(got[w]) + 1 \in 1..Len(g)
      BY <1>8, <1>9
    <3>2. ASSUME NEW d, Got(w, d)
          PROVE  Got(w, d)'
      BY <1>8, <3>1, <3>2 DEF Got
    <3>3. ASSUME NEW d, d = e
          PROVE  Got(w, d)'
      BY <1>8, <3>1, <3>3 DEF Got
    <3>4. ASSUME NEW d, Got(w, d)'
          PROVE  Got(w, d) \/ d = e
      <4>1. PICK i \in 1..Len(g) : g[i] = d
        BY <3>1, <3>4 DEF Got
      <4> QED
        BY <1>8, <4>1 DEF Got
    <3> QED
      BY <3>2, <3>3, <3>4
  <2>2. ~Got(w, e)
    BY <1>5, EntriesTypes DEF Got
  <2> QED
    BY <1>9, <2>1, <2>2 DEF Got
<1>15. Ordered'
  <2>1. \A v, d : GivenTo(v, d)' <=> GivenTo(v, d)
    BY <1>0 DEF GivenTo
  <2>2. \A v, j : TupleSoon(v, j)' <=> TupleSoon(v, j)
    BY <1>0 DEF TupleSoon
  <2>3. \A v \in Workers : v # w => \A j : TupleIn(v, j)' <=> TupleIn(v, j)
    BY <1>9 DEF TupleIn
  <2>4. \A v \in Workers : v # w => GotInOrder(v)' /\ InInOrder(v)' /\ SoonInOrder(v)'
    <3>1. SUFFICES ASSUME NEW v \in Workers, v # w
                   PROVE  GotInOrder(v)' /\ InInOrder(v)' /\ SoonInOrder(v)'
      OBVIOUS
    <3>2. GotInOrder(v) /\ InInOrder(v) /\ SoonInOrder(v)
      BY DEF Ordered
    <3>3. UNCHANGED <<got[v], stdin[v], soon>>
      BY <1>0, <1>9, <3>1
    <3>4. GotInOrder(v)'
      BY <2>1, <2>2, <2>3, <3>1, <3>2, <3>3 DEF GotInOrder
    <3>5. InInOrder(v)'
      BY <2>1, <2>2, <2>3, <3>1, <3>2, <3>3 DEF InInOrder
    <3>6. SoonInOrder(v)'
      BY <2>1, <2>2, <3>2, <3>3 DEF SoonInOrder
    <3> QED
      BY <3>4, <3>5, <3>6
  <2>5. \A j \in 1..Len(stdin'[w]) :
          /\ j + 1 \in 1..Len(stdin[w]) /\ stdin'[w][j] = stdin[w][j + 1] /\ 1 < j + 1
          /\ TupleIn(w, j)' => TupleIn(w, j + 1)
    BY <1>2, <1>9 DEF TupleIn
  <2>6. SoonInOrder(w)'
    BY <1>0, <1>3, <2>1, <2>2 DEF SoonInOrder
  <2>7. InInOrder(w)'
    <3>1. SUFFICES ASSUME NEW i \in 1..Len(stdin'[w]), TupleIn(w, i)'
                   PROVE  /\ stdin'[w][i].entry \in Entries /\ GivenTo(w, stdin'[w][i].entry)
                          /\ \A j \in 1..Len(stdin'[w]) : i < j /\ TupleIn(w, j)' => stdin'[w][i].entry < stdin'[w][j].entry
                          /\ \A j \in 1..Len(soon) : TupleSoon(w, j) => stdin'[w][i].entry < soon[j][2].entry
      BY <1>0, <2>1, <2>2 DEF InInOrder
    <3> DEFINE m == stdin[w][i + 1]
    <3>2. /\ m.entry \in Entries /\ GivenTo(w, m.entry)
          /\ \A j \in 1..Len(stdin[w]) : i + 1 < j /\ TupleIn(w, j) => m.entry < stdin[w][j].entry
          /\ \A j \in 1..Len(soon) : TupleSoon(w, j) => m.entry < soon[j][2].entry
      BY <1>3, <2>5, <3>1 DEF InInOrder
    <3>3. m = stdin'[w][i]
      BY <2>5
    <3> HIDE DEF m
    <3>4. ASSUME NEW j \in 1..Len(stdin'[w]), i < j, TupleIn(w, j)'
          PROVE  m.entry < stdin'[w][j].entry
      <4>1. /\ j + 1 \in 1..Len(stdin[w]) /\ TupleIn(w, j + 1) /\ stdin'[w][j] = stdin[w][j + 1]
            /\ i + 1 < j + 1
        BY <2>5, <3>4
      <4> QED
        BY <3>2, <4>1
    <3> QED
      BY <3>2, <3>3, <3>4
  <2>8. GotInOrder(w)'
    <3>1. SUFFICES ASSUME NEW i \in 1..Len(g)
                   PROVE  /\ GivenTo(w, g[i])
                          /\ \A j \in 1..Len(g) : i < j => g[i] < g[j]
                          /\ \A j \in 1..Len(stdin'[w]) : TupleIn(w, j)' => g[i] < stdin'[w][j].entry
                          /\ \A j \in 1..Len(soon) : TupleSoon(w, j) => g[i] < soon[j][2].entry
      BY <1>0, <1>9, <2>1, <2>2 DEF GotInOrder
    <3>2. CASE i = Len(got[w]) + 1
      <4>1. g[i] = e /\ \A j \in 1..Len(g) : ~(i < j)
        BY <1>8, <3>2
      <4>2. \A j \in 1..Len(stdin'[w]) : TupleIn(w, j)' => e < stdin'[w][j].entry
        BY <1>5, <2>5
      <4> QED
        BY <1>5, <4>1, <4>2
    <3>3. CASE i \in 1..Len(got[w])
      <4>1. /\ GivenTo(w, g[i]) /\ g[i] < e
            /\ \A j \in 1..Len(got[w]) : i < j => g[i] < g[j]
            /\ \A j \in 1..Len(stdin[w]) : TupleIn(w, j) => g[i] < stdin[w][j].entry
            /\ \A j \in 1..Len(soon) : TupleSoon(w, j) => g[i] < soon[j][2].entry
        BY <1>3, <1>5, <1>8, <3>3 DEF GotInOrder
      <4>2. \A j \in 1..Len(g) : i < j => g[i] < g[j]
        BY <1>8, <4>1
      <4>3. \A j \in 1..Len(stdin'[w]) : TupleIn(w, j)' => g[i] < stdin'[w][j].entry
        BY <2>5, <4>1
      <4> QED
        BY <4>1, <4>2, <4>3
    <3> QED
      BY <1>8, <3>2, <3>3
  <2>9. WaitsInOrder'
    BY <1>0, <2>1 DEF Ordered, WaitsInOrder
  <2> QED
    BY <2>4, <2>6, <2>7, <2>8, <2>9 DEF Ordered
<1>16. AnswersLast'
  BY <1>0, <1>7, <1>9, <1>14 DEF AnswersLast
<1>17. HaveEntry'
  <2>1. \A j \in 1..Len(stdin'[w]) :
          j + 1 \in 1..Len(stdin[w]) /\ stdin'[w][j] = stdin[w][j + 1]
    BY <1>2, <1>9
  <2>2. phase = "up" => e \in prmap
    BY <1>2, <1>4 DEF HaveEntry
  <2>3. SUFFICES ASSUME phase = "up", NEW v \in Workers
                 PROVE  /\ child'[v].work \subseteq prmap
                        /\ \A i \in 1..Len(stdin'[v]) : stdin'[v][i].kind = "tuple" => stdin'[v][i].entry \in prmap
                        /\ \A i \in 1..Len(stdout[v]) : Answer(stdout[v][i]) => stdout[v][i].entry \in prmap
                        /\ \A i \in 1..Len(soon) : TupleSoon(v, i) /\ ~closed[v] => soon[i][2].entry \in prmap
    BY <1>0 DEF HaveEntry, TupleIn, TupleSoon
  <2>4. /\ child[v].work \subseteq prmap
        /\ \A i \in 1..Len(stdin[v]) : stdin[v][i].kind = "tuple" => stdin[v][i].entry \in prmap
        /\ \A i \in 1..Len(stdout[v]) : Answer(stdout[v][i]) => stdout[v][i].entry \in prmap
        /\ \A i \in 1..Len(soon) : TupleSoon(v, i) /\ ~closed[v] => soon[i][2].entry \in prmap
    BY <2>3 DEF HaveEntry, TupleIn
  <2>5. child'[v].work \subseteq prmap
    BY <1>7, <1>9, <2>2, <2>3, <2>4
  <2>6. \A i \in 1..Len(stdin'[v]) : stdin'[v][i].kind = "tuple" => stdin'[v][i].entry \in prmap
    <3>1. CASE v = w
      BY <2>1, <2>4, <3>1
    <3>2. CASE v # w
      BY <1>9, <2>4, <3>2
    <3> QED
      BY <3>1, <3>2
  <2> QED
    BY <2>4, <2>5, <2>6
<1>18. EmitsCounted'
  <2>1. \A v, d : Coming(v, d)' = Coming(v, d)
    BY <1>0 DEF Coming
  <2>2. ASSUME NEW d \in Entries, NEW v \in Workers, v = calls[d].worker
        PROVE  EmitsOf(v, d)' /\ ResultOf(v, d)'
    <3>1. EmitsOf(v, d) /\ ResultOf(v, d)
      BY <2>2 DEF EmitsCounted
    <3>2. CASE d = e
      <4>1. v = w /\ ~Got(v, d)
        BY <1>5, <1>14, <2>2, <3>2 DEF GivenTo
      <4>2. emit[d] \in Nat /\ Coming(v, d) \in Nat /\ emit[d] + Coming(v, d) <= made[d] /\ made[d] = 0
        BY <1>1, <3>1, <4>1, OccursType DEF EmitsOf, Coming, WorkersTypeOK
      <4>3. results[d] = 0
        BY <3>1, <4>1 DEF ResultOf
      <4> QED
        BY <1>0, <2>1, <4>2, <4>3 DEF EmitsOf, ResultOf
    <3>3. CASE d # e
      <4>1. InHand(v, d)' => InHand(v, d)
        BY <1>0, <1>7, <1>9, <3>3 DEF InHand
      <4>2. Got(v, d)' <=> Got(v, d)
        BY <1>14, <3>3
      <4>3. d \in child'[v].work <=> d \in child[v].work
        BY <1>7, <1>9, <3>3
      <4> QED
        BY <1>0, <2>1, <3>1, <4>1, <4>2, <4>3 DEF EmitsOf, ResultOf
    <3> QED
      BY <3>2, <3>3
  <2>3. \A d \in Entries : calls[d].worker \in Workers
    BY DEF WorkersTypeOK, Call
  <2>4. \A d \in Entries : EmitsOf(calls[d].worker, d)' /\ ResultOf(calls[d].worker, d)'
    <3>1. SUFFICES ASSUME NEW d \in Entries
                   PROVE  EmitsOf(calls[d].worker, d)' /\ ResultOf(calls[d].worker, d)'
      OBVIOUS
    <3>2. PICK v \in Workers : v = calls[d].worker
      BY <2>3
    <3>3. EmitsOf(v, d)' /\ ResultOf(v, d)' /\ calls'[d].worker = v
      BY <1>0, <2>2, <3>2
    <3> QED
      BY <3>3
  <2> QED
    BY <1>0, <1>14, <2>4 DEF EmitsCounted
<1> QED
  BY <1>0, <1>10, <1>11, <1>12, <1>13, <1>15, <1>16, <1>17, <1>18


(* A worker writes a message: the last one about an entry is its answer.   *)
LEMMA SaysKeeps ==
  ASSUME WorkersInv, WorkersTypeOK', IdsEmitted',
         NEW w \in Workers, child[w].state = "up", NEW c \in Child, NEW m \in Messages,
         child' = [child EXCEPT ![w] = c], stdout' = [stdout EXCEPT ![w] = Append(@, m)],
         UNCHANGED <<bound, stdin, got, parentVars>>,
         c.state = "up", c.first = child[w].first,
         \/ m.kind \notin {"emit", "ack", "fail"} /\ c.work = child[w].work /\ made' = made
         \/ /\ Answer(m) /\ m.entry \in child[w].work /\ c.work = child[w].work \ {m.entry}
            /\ made' = made
         \/ /\ m.kind = "emit" /\ m.entry \in child[w].work \cup {0} /\ c.work = child[w].work
            /\ made' = IF m.entry = 0 THEN made ELSE [made EXCEPT ![m.entry] = @ + 1]
  PROVE  WorkersInv'
<1> USE DEF WorkersInv
<1>0. UNCHANGED <<phase, handled, ready, closed, restart, begun, soon, calls, prmap,
                  emit, results, answers, crashed>>
  BY DEF parentVars
<1>1. /\ child \in [Workers -> Child] /\ stdout \in [Workers -> Seq(Messages \cup {Cut})]
      /\ stdout[w] \in Seq(Messages \cup {Cut}) /\ made \in [Entries -> Nat]
      /\ child[w].work \in SUBSET Entries
  BY ChildField DEF WorkersTypeOK, BoltTypeOK
<1> DEFINE s == stdout[w]
           t == Append(s, m)
           M == Messages \cup {Cut}
<1>2. /\ t \in Seq(M) /\ Len(t) = Len(s) + 1 /\ Len(s) \in Nat
      /\ \A i \in 1..Len(s) : t[i] = s[i]
      /\ t[Len(s) + 1] = m
      /\ \A i \in 1..Len(t) : i \in 1..Len(s) \/ i = Len(s) + 1
  <2>1. s \in Seq(M) /\ m \in M
    BY <1>1
  <2> HIDE DEF s, M
  <2> QED
    BY <2>1, AppendElements
<1>3. /\ child'[w] = c /\ stdout'[w] = t
      /\ \A v \in Workers : v # w => child'[v] = child[v] /\ stdout'[v] = stdout[v]
  BY <1>1
<1> HIDE DEF t
<1>4. m # Cut /\ m = Message(m.kind, m.entry)
  BY MessageTypes
<1>5. Known'
  BY <1>0, KnownKept DEF Known
<1>6. Quiet'
  <2>1. SUFFICES ASSUME NEW v \in Workers
                 PROVE  /\ child'[v].state # "up" => stdin[v] = <<>> /\ child'[v].work = {}
                        /\ v \in restart => child'[v].state = "closed"
                        /\ child'[v].state \in {"none", "closed"} => stdout'[v] = <<>>
                        /\ begun[v] => child'[v].state # "up" /\ stdout'[v] = <<>>
                        /\ \A i \in 1..Len(stdout'[v]) :
                             stdout'[v][i] = Cut => i = Len(stdout'[v]) /\ child'[v].state # "up"
    BY <1>0 DEF Quiet
  <2>2. CASE v = w
    BY <1>2, <1>3, <1>4, <2>2 DEF Quiet
  <2>3. CASE v # w
    BY <1>3, <2>3 DEF Quiet
  <2> QED
    BY <2>2, <2>3
<1>7. \A v \in Workers : Written(v)'
  BY <1>0, <1>3, WrittenFewer
<1>8. Ordered'
  BY <1>0, OrderedFewer DEF Fewer
<1>9. \A v, d : Got(v, d)' <=> Got(v, d)
  BY DEF Got
<1>10. /\ \A d \in child[w].work : Got(w, d) /\ d # 0
       /\ \A i \in 1..Len(s) : Answer(s[i]) =>
            s[i].entry \notin child[w].work /\ s[i].entry # 0 /\ Got(w, s[i].entry)
  <2>1. \A d : Got(w, d) => d # 0
    BY EntriesTypes DEF Got, WorkersTypeOK, BoltTypeOK
  <2> QED
    BY <2>1 DEF AnswersLast
<1>11. AnswersLast'
  <2>1. SUFFICES ASSUME NEW v \in Workers
                 PROVE  /\ \A e \in child'[v].work : Got(v, e)
                        /\ \A i \in 1..Len(stdout'[v]) : Answer(stdout'[v][i]) =>
                             /\ Got(v, stdout'[v][i].entry) /\ stdout'[v][i].entry \notin child'[v].work
                             /\ \A j \in 1..Len(stdout'[v]) : stdout'[v][j].entry = stdout'[v][i].entry /\ i < j =>
                                  stdout'[v][j].kind # "emit" /\ ~Answer(stdout'[v][j])
    BY <1>9 DEF AnswersLast
  <2>2. CASE v # w
    BY <1>3, <2>2 DEF AnswersLast
  <2>3. CASE v = w
    <3>1. \A d \in c.work : Got(w, d)
      BY <1>10
    <3>2. ASSUME NEW i \in 1..Len(t), Answer(t[i])
          PROVE  /\ Got(w, t[i].entry) /\ t[i].entry \notin c.work
                 /\ \A j \in 1..Len(t) : t[j].entry = t[i].entry /\ i < j =>
                      t[j].kind # "emit" /\ ~Answer(t[j])
      <4>1. CASE i = Len(s) + 1
        <5>1. t[i] = m /\ Answer(m) /\ \A j \in 1..Len(t) : ~(i < j)
          BY <1>2, <3>2, <4>1
        <5> QED
          BY <1>10, <5>1 DEF Answer
      <4>2. CASE i \in 1..Len(s)
        <5>1. /\ t[i] = s[i] /\ Answer(s[i]) /\ Got(w, s[i].entry)
              /\ s[i].entry \notin child[w].work /\ s[i].entry # 0
              /\ \A j \in 1..Len(s) : s[j].entry = s[i].entry /\ i < j =>
                   s[j].kind # "emit" /\ ~Answer(s[j])
          BY <1>2, <1>10, <3>2, <4>2 DEF AnswersLast
        <5>2. ASSUME NEW j \in 1..Len(t), t[j].entry = t[i].entry, i < j
              PROVE  t[j].kind # "emit" /\ ~Answer(t[j])
          <6>1. CASE j \in 1..Len(s)
            BY <1>2, <5>1, <5>2, <6>1
          <6>2. CASE j = Len(s) + 1
            BY <1>2, <5>1, <5>2, <6>2 DEF Answer
          <6> QED
            BY <1>2, <6>1, <6>2
        <5> QED
          BY <5>1, <5>2
      <4> QED
        BY <1>2, <4>1, <4>2
    <3> QED
      BY <1>3, <2>3, <3>1, <3>2, SMTT(30)
  <2> QED
    BY <2>2, <2>3
<1>12. HaveEntry'
  <2>1. SUFFICES ASSUME phase = "up", NEW v \in Workers
                 PROVE  /\ child'[v].work \subseteq prmap
                        /\ \A i \in 1..Len(stdout'[v]) : Answer(stdout'[v][i]) => stdout'[v][i].entry \in prmap
    BY <1>0 DEF HaveEntry, TupleIn, TupleSoon
  <2>2. /\ child[v].work \subseteq prmap
        /\ \A i \in 1..Len(stdout[v]) : Answer(stdout[v][i]) => stdout[v][i].entry \in prmap
    BY <2>1 DEF HaveEntry
  <2>3. CASE v # w
    BY <1>3, <2>2, <2>3
  <2>4. CASE v = w
    <3>1. Answer(m) => m.entry \in prmap
      BY <2>2, <2>4 DEF Answer
    <3>2. \A i \in 1..Len(t) : Answer(t[i]) => t[i].entry \in prmap
      BY <1>2, <2>2, <2>4, <3>1
    <3> QED
      BY <1>3, <2>2, <2>4, <3>2
  <2> QED
    BY <2>3, <2>4
<1>13. EmitsCounted'
  <2>1. ASSUME NEW d \in Entries
        PROVE  /\ Coming(w, d)' = Coming(w, d) + (IF m = Message("emit", d) THEN 1 ELSE 0)
               /\ \A v \in Workers : v # w => Coming(v, d)' = Coming(v, d)
               /\ \A v \in Workers : Coming(v, d) \in Nat
    <3> DEFINE S == {Message("emit", d)}
    <3>1. s \in Seq(M) /\ m \in M
      BY <1>1
    <3> HIDE DEF s, M
    <3>2. Occurs(Append(s, m), S) = Occurs(s, S) + (IF m \in S THEN 1 ELSE 0)
      BY <3>1, OccursAppend
    <3>3. Coming(w, d)' = Occurs(t, S) /\ Coming(w, d) = Occurs(s, S)
      BY <1>3 DEF Coming, s
    <3>4. \A v \in Workers : Coming(v, d) \in Nat
      BY <1>1, OccursType DEF Coming
    <3> QED
      BY <1>3, <3>2, <3>3, <3>4 DEF Coming, t
  <2>2. ASSUME NEW d \in Entries, NEW v \in Workers, v = calls[d].worker
        PROVE  EmitsOf(v, d)' /\ ResultOf(v, d)'
    <3>1. /\ EmitsOf(v, d) /\ ResultOf(v, d) /\ d # 0
          /\ emit[d] \in Nat /\ made[d] \in Nat /\ Coming(v, d) \in Nat
      BY <1>1, <2>1, <2>2, EntriesTypes DEF EmitsCounted, WorkersTypeOK
    <3>2. CASE v # w
      <4>1. InHand(v, d)' => InHand(v, d)
        BY <1>3, <3>2 DEF InHand
      <4>2. made'[d] = made[d]
        <5>1. m.entry = d /\ m.entry \in child[w].work => FALSE
          <6>1. ~Got(w, d)
            BY <2>2, <3>2 DEF Got, Ordered, GotInOrder, GivenTo
          <6> QED
            BY <1>10, <6>1
        <5> QED
          BY <1>1, <3>1, <5>1
      <4> QED
        BY <1>0, <1>3, <1>9, <2>1, <3>1, <3>2, <4>1, <4>2 DEF EmitsOf, ResultOf
    <3>3. CASE v = w
      <4>1. \A i \in 1..Len(t) : Answer(t[i]) /\ t[i].entry = d =>
              \/ d \in child[w].work
              \/ \E k \in 1..Len(s) : Answer(s[k]) /\ s[k].entry = d
        BY <1>2 DEF Answer
      <4>2. InHand(v, d)' => InHand(v, d)
        BY <1>3, <3>3, <4>1 DEF InHand
      <4>3. CASE m = Message("emit", d)
        <5>1. m.kind = "emit" /\ m.entry = d /\ d \in child[w].work
          BY <3>1, <4>3, MessageTypes DEF Answer
        <5>2. made'[d] = made[d] + 1 /\ results[d] = 0 /\ Got(w, d)
          BY <1>1, <1>10, <3>1, <3>3, <5>1 DEF ResultOf, Answer
        <5>3. emit[d] + Coming(v, d)' <= made'[d] /\ (phase = "up" /\ InHand(v, d)' => emit[d] + Coming(v, d)' = made'[d])
          BY <2>1, <3>1, <3>3, <4>2, <4>3, <5>2 DEF EmitsOf
        <5> QED
          BY <1>0, <1>9, <3>3, <5>2, <5>3 DEF EmitsOf, ResultOf
      <4>4. CASE m # Message("emit", d)
        <5>1. made'[d] = made[d]
          BY <1>1, <1>4, <3>1, <4>4
        <5>2. Coming(v, d)' = Coming(v, d)
          BY <2>1, <3>1, <3>3, <4>4
        <5>3. EmitsOf(v, d)'
          BY <1>0, <1>9, <3>1, <4>2, <5>1, <5>2 DEF EmitsOf
        <5>4. ResultOf(v, d)'
          BY <1>0, <1>3, <1>9, <3>1, <3>3, <5>1 DEF ResultOf
        <5> QED
          BY <5>3, <5>4
      <4> QED
        BY <4>3, <4>4
    <3> QED
      BY <3>2, <3>3
  <2>3. \A d \in Entries : EmitsOf(calls[d].worker, d)' /\ ResultOf(calls[d].worker, d)'
    <3>1. SUFFICES ASSUME NEW d \in Entries
                   PROVE  EmitsOf(calls[d].worker, d)' /\ ResultOf(calls[d].worker, d)'
      OBVIOUS
    <3>2. PICK v \in Workers : v = calls[d].worker
      BY DEF WorkersTypeOK, Call
    <3>3. EmitsOf(v, d)' /\ ResultOf(v, d)' /\ calls'[d].worker = v
      BY <1>0, <2>2, <3>2
    <3> QED
      BY <3>3
  <2>4. ASSUME NEW v \in Workers, NEW i \in 1..Len(stdout'[v]), stdout'[v][i].kind = "emit"
        PROVE  stdout'[v][i].entry = 0 \/ Got(v, stdout'[v][i].entry)
    <3>1. CASE v # w
      BY <1>3, <2>4, <3>1 DEF EmitsCounted
    <3>2. CASE v = w /\ i \in 1..Len(s)
      BY <1>2, <1>3, <2>4, <3>2 DEF EmitsCounted
    <3>3. CASE v = w /\ i = Len(s) + 1
      <4>1. m.kind = "emit" /\ stdout'[v][i] = m
        BY <1>2, <1>3, <2>4, <3>3
      <4> QED
        BY <1>10, <3>3, <4>1 DEF Answer
    <3> QED
      BY <1>2, <1>3, <3>1, <3>2, <3>3
  <2> QED
    BY <1>0, <1>9, <2>3, <2>4 DEF EmitsCounted
<1> QED
  BY <1>0, <1>5, <1>6, <1>7, <1>8, <1>11, <1>12, <1>13


LEMMA HandleNewChunkKeeps ==
  ASSUME WorkersInv, NEW w \in Workers, HandleNewChunk(w), UNCHANGED parentVars
  PROVE  WorkersInv'
<1>1. /\ child[w].state = "up" /\ stdin[w] # <<>>
      /\ HandleNewMessage(w, Head(stdin[w]))
      /\ UNCHANGED <<bound, exits, emits, made, parentVars>>
  BY DEF HandleNewChunk
<1>2. CASE child[w].first
  <2>1. InitSetupInfo(w)
    BY <1>1, <1>2 DEF HandleNewMessage
  <2> QED
    BY <1>1, <2>1, SetupKeeps
<1>3. CASE ~child[w].first /\ Head(stdin[w]).kind = "ids"
  <2>1. HandleNewTaskId(w)
    BY <1>1, <1>3 DEF HandleNewMessage
  <2>2. CASE child[w].ids > 0
    BY <1>1, <2>1, <2>2, SetupKeeps
  <2>3. CASE ~(child[w].ids > 0)
    <3>1. Throws(w)
      BY <2>1, <2>3 DEF HandleNewTaskId
    <3> QED
      BY <1>1, <3>1, ThrowsKeeps
  <2> QED
    BY <2>2, <2>3
<1>4. CASE ~child[w].first /\ Head(stdin[w]).kind # "ids"
  <2>1. HandleNewCommand(w, Head(stdin[w]))
    BY <1>1, <1>4 DEF HandleNewMessage
  <2> QED
    BY <1>1, <1>4, <2>1, CommandKeeps
<1> QED
  BY <1>2, <1>3, <1>4

(* What a worker that says something leaves, with its types.               *)
LEMMA SaidTypes ==
  ASSUME WorkersInv, NEW w \in Workers, NEW c \in Child, NEW m \in Messages,
         child' = [child EXCEPT ![w] = c], stdout' = [stdout EXCEPT ![w] = Append(@, m)],
         UNCHANGED <<bound, stdin, exits, got, parentVars>>,
         c.ids <= emits', emits' \in 0..bound.emits, emits <= emits',
         made' \in [Entries -> Nat]
  PROVE  WorkersTypeOK' /\ IdsEmitted'
<1> USE DEF WorkersInv
<1>1. /\ stdin \in [Workers -> Seq(Messages)]
      /\ stdout \in [Workers -> Seq(Messages \cup {Cut})]
      /\ exits \in 0..bound.exits /\ got \in [Workers -> Seq(Entries)]
  BY DEF WorkersTypeOK, BoltTypeOK
<1> DEFINE M == Messages \cup {Cut}
           s == stdout[w]
<1>2. s \in Seq(M) /\ m \in M /\ stdout \in [Workers -> Seq(M)]
  BY <1>1
<1>3. stdout' = [stdout EXCEPT ![w] = Append(s, m)]
  OBVIOUS
<1> HIDE DEF M, s
<1>4. Append(s, m) \in Seq(M)
  BY <1>2, AppendElements
<1>5. stdout' \in [Workers -> Seq(M)]
  BY <1>2, <1>3, <1>4
<1> QED
  BY <1>1, <1>5, ChildTypes DEF M

LEMMA SendPidKeeps ==
  ASSUME WorkersInv, NEW w \in Workers, SendPid(w), UNCHANGED parentVars
  PROVE  WorkersInv'
<1> USE DEF WorkersInv
<1>1. /\ child \in [Workers -> Child] /\ child[w] \in Child /\ emits \in 0..bound.emits
      /\ made \in [Entries -> Nat] /\ emits <= emits
  BY Bounds DEF WorkersTypeOK, BoltTypeOK
<1> DEFINE c == [child[w] EXCEPT !.ready = TRUE]
           m == Message("pid", 0)
<1>2. /\ child' = [child EXCEPT ![w] = c] /\ stdout' = [stdout EXCEPT ![w] = Append(@, m)]
      /\ child[w].state = "up" /\ UNCHANGED <<bound, stdin, exits, emits, got, made>>
  BY <1>1 DEF SendPid, SendMsgToParent
<1>3. m \in Messages /\ m.kind \notin {"emit", "ack", "fail"}
  BY MessageTypes, EntriesTypes
<1>4. c \in Child
  BY <1>1, ChildField
<1>5. /\ c.ids = child[w].ids /\ c.state = child[w].state /\ c.first = child[w].first
      /\ c.work = child[w].work
  BY <1>1 DEF Child
<1> HIDE DEF c, m
<1>6. c.ids <= emits
  BY <1>5 DEF IdsEmitted
<1>7. WorkersTypeOK' /\ IdsEmitted'
  BY <1>1, <1>2, <1>3, <1>4, <1>6, SaidTypes
<1> QED
  BY <1>2, <1>3, <1>4, <1>5, <1>7, SaysKeeps

LEMMA AcksOrFailsKeeps ==
  ASSUME WorkersInv, NEW w \in Workers, NEW e \in Entries, AcksOrFails(w, e), UNCHANGED parentVars
  PROVE  WorkersInv'
<1> USE DEF WorkersInv
<1>1. /\ child \in [Workers -> Child] /\ child[w] \in Child /\ emits \in 0..bound.emits
      /\ made \in [Entries -> Nat] /\ emits <= emits
  BY Bounds DEF WorkersTypeOK, BoltTypeOK
<1>2. PICK kind \in {"ack", "fail"} : SendMsgToParent(w, Message(kind, e))
  BY DEF AcksOrFails
<1> DEFINE c == [child[w] EXCEPT !.work = @ \ {e}]
           m == Message(kind, e)
<1>3. /\ child' = [child EXCEPT ![w] = c] /\ stdout' = [stdout EXCEPT ![w] = Append(@, m)]
      /\ child[w].state = "up" /\ UNCHANGED <<bound, stdin, exits, emits, got, made>>
      /\ e \in child[w].work
  BY <1>1, <1>2 DEF AcksOrFails, SendMsgToParent
<1>4. m \in Messages /\ Answer(m) /\ m.entry = e
  BY MessageTypes, EntriesTypes DEF Answer
<1>5. c \in Child
  <2>1. child[w].work \ {e} \in SUBSET Entries
    BY <1>1, ChildField
  <2> QED
    BY <1>1, <2>1, ChildField
<1>6. /\ c.ids = child[w].ids /\ c.state = child[w].state /\ c.first = child[w].first
      /\ c.work = child[w].work \ {e}
  BY <1>1 DEF Child
<1> HIDE DEF c, m
<1>7. c.ids <= emits
  BY <1>6 DEF IdsEmitted
<1>8. WorkersTypeOK' /\ IdsEmitted'
  BY <1>1, <1>3, <1>4, <1>5, <1>7, SaidTypes
<1> QED
  BY <1>3, <1>4, <1>5, <1>6, <1>8, SaysKeeps

LEMMA EmitKeeps ==
  ASSUME WorkersInv, NEW w \in Workers, NEW e \in {0} \cup Entries, NEW callback \in bound.callbacks,
         Emit(w, e, callback), UNCHANGED parentVars
  PROVE  WorkersInv'
<1> USE DEF WorkersInv
<1>1. /\ child \in [Workers -> Child] /\ child[w] \in Child
      /\ made \in [Entries -> Nat]
  BY DEF WorkersTypeOK, BoltTypeOK
<1>2. /\ MaxEmits \in Nat /\ bound.emits \in 0..MaxEmits /\ emits \in Nat
      /\ callback \in {0, 1} /\ child[w].ids \in Nat /\ child[w].ids <= emits
  BY Bounds, BoltAssumption DEF IdsEmitted
<1> DEFINE c == [child[w] EXCEPT !.ids = @ + callback]
           m == Message("emit", e)
<1>3. /\ child' = [child EXCEPT ![w] = c] /\ stdout' = [stdout EXCEPT ![w] = Append(@, m)]
      /\ child[w].state = "up" /\ UNCHANGED <<bound, stdin, exits, got>>
      /\ e \in child[w].work \cup {0} /\ emits < bound.emits /\ emits' = emits + 1
      /\ made' = IF e = 0 THEN made ELSE [made EXCEPT ![e] = @ + 1]
  BY <1>1 DEF Emit, SendMsgToParent
<1>4. m \in Messages /\ m.kind = "emit" /\ m.entry = e
  BY MessageTypes, EntriesTypes
<1>5. c \in Child
  <2>1. child[w].ids + callback \in 0..MaxEmits
    BY <1>2, <1>3
  <2> QED
    BY <1>1, <2>1, ChildField
<1>6. /\ c.ids = child[w].ids + callback /\ c.state = child[w].state /\ c.first = child[w].first
      /\ c.work = child[w].work
  BY <1>1 DEF Child
<1> HIDE DEF c, m
<1>7. c.ids <= emits' /\ emits' \in 0..bound.emits /\ emits <= emits'
  BY <1>2, <1>3, <1>6
<1>8. made' \in [Entries -> Nat]
  BY <1>1, <1>3
<1>9. WorkersTypeOK' /\ IdsEmitted'
  BY <1>3, <1>4, <1>5, <1>7, <1>8, SaidTypes
<1> QED
  BY <1>3, <1>4, <1>5, <1>6, <1>9, SaysKeeps

LEMMA ChildStepKeeps ==
  ASSUME WorkersInv, NEW w \in Workers, ChildStep(w), UNCHANGED parentVars
  PROVE  WorkersInv'
  BY HandleNewChunkKeeps, SendPidKeeps, DiesKeeps, AcksOrFailsKeeps, EmitKeeps DEF ChildStep

(***************************************************************************)
(* More to be written to the workers.                                      *)
(***************************************************************************)

LEMMA OrderGrows ==
  ASSUME WorkersTypeOK, Ordered, UNCHANGED <<stdin, got>>,
         NEW t \in Seq(Workers \X Messages), soon' = soon \o t,
         \A v \in Workers : \A d : GivenTo(v, d) => GivenTo(v, d)',
         \A i \in 1..Len(t) : t[i][2].kind = "tuple" =>
           /\ t[i][2].entry \in Entries /\ GivenTo(t[i][1], t[i][2].entry)'
           /\ \A d : GivenTo(t[i][1], d) => d < t[i][2].entry
           /\ \A j \in 1..Len(t) : i < j /\ t[j][2].kind = "tuple" /\ t[j][1] = t[i][1] =>
                t[i][2].entry < t[j][2].entry
  PROVE  \A w \in Workers : GotInOrder(w)' /\ InInOrder(w)' /\ SoonInOrder(w)'
<1> SUFFICES ASSUME NEW w \in Workers
             PROVE  GotInOrder(w)' /\ InInOrder(w)' /\ SoonInOrder(w)'
  OBVIOUS
<1> DEFINE T == Workers \X Messages
           s == soon
           u == soon'
<1>1. s \in Seq(T) /\ t \in Seq(T) /\ u = s \o t
  BY DEF WorkersTypeOK
<1> HIDE DEF T, s, u
<1>2. /\ Len(s) \in Nat /\ Len(t) \in Nat /\ Len(u) = Len(s) + Len(t)
      /\ \A i \in 1..Len(s) : u[i] = s[i]
      /\ \A i \in 1..Len(t) : u[Len(s) + i] = t[i]
      /\ \A i \in 1..Len(u) : i \in 1..Len(s) \/ (i - Len(s) \in 1..Len(t) /\ i > Len(s))
  BY <1>1, ConcatElements
<1>3. \A i \in 1..Len(u) :
        \/ i \in 1..Len(s) /\ u[i] = s[i]
        \/ \E k \in 1..Len(t) : i = Len(s) + k /\ u[i] = t[k]
  <2>1. SUFFICES ASSUME NEW i \in 1..Len(u), i - Len(s) \in 1..Len(t), i > Len(s)
                 PROVE  \E k \in 1..Len(t) : i = Len(s) + k /\ u[i] = t[k]
    BY <1>2
  <2>2. i = Len(s) + (i - Len(s))
    BY <1>2
  <2> QED
    BY <1>2, <2>1, <2>2
<1>4. GotInOrder(w) /\ InInOrder(w) /\ SoonInOrder(w)
  BY DEF Ordered
<1>5. \A i : TupleIn(w, i)' <=> TupleIn(w, i)
  BY DEF TupleIn
<1> DEFINE Mine(k) == k \in 1..Len(t) /\ t[k][1] = w /\ t[k][2].kind = "tuple"
<1>6. \A i : TupleSoon(w, i)' =>
        \/ i \in 1..Len(s) /\ u[i] = s[i] /\ TupleSoon(w, i)
        \/ \E k \in 1..Len(t) : i = Len(s) + k /\ u[i] = t[k] /\ Mine(k)
  BY <1>3 DEF TupleSoon, s, u
<1>7. \A k \in 1..Len(t) : Mine(k) =>
           /\ t[k][2].entry \in Entries /\ GivenTo(w, t[k][2].entry)'
           /\ \A d : GivenTo(w, d) => d < t[k][2].entry
           /\ \A j \in 1..Len(t) : k < j /\ Mine(j) => t[k][2].entry < t[j][2].entry
  OBVIOUS
<1> HIDE DEF Mine
<1>8. \A d : GivenTo(w, d) => /\ GivenTo(w, d)'
                              /\ \A i : TupleSoon(w, i)' => (TupleSoon(w, i) /\ u[i] = s[i]) \/ d < u[i][2].entry
  BY <1>6, <1>7
<1>9. GotInOrder(w)'
  <2>1. \A i \in 1..Len(got[w]) : \A j \in 1..Len(u) : TupleSoon(w, j)' => got[w][i] < u[j][2].entry
    BY <1>4, <1>8 DEF GotInOrder, TupleSoon, s
  <2> QED
    BY <1>4, <1>5, <1>8, <2>1 DEF GotInOrder, u
<1>10. InInOrder(w)'
  <2>1. \A i \in 1..Len(stdin[w]) : TupleIn(w, i) =>
          \A j \in 1..Len(u) : TupleSoon(w, j)' => stdin[w][i].entry < u[j][2].entry
    BY <1>4, <1>8 DEF InInOrder, TupleSoon, s
  <2> QED
    BY <1>4, <1>5, <1>8, <2>1 DEF InInOrder, u
<1>11. SoonInOrder(w)'
  <2>1. SUFFICES ASSUME NEW i \in 1..Len(u), TupleSoon(w, i)'
                 PROVE  /\ u[i][2].entry \in Entries
                        /\ \A e : e = u[i][2].entry => GivenTo(w, e)'
                        /\ \A j \in 1..Len(u) : i < j /\ TupleSoon(w, j)' => u[i][2].entry < u[j][2].entry
    BY DEF SoonInOrder, u
  <2>2. CASE i \in 1..Len(s) /\ u[i] = s[i] /\ TupleSoon(w, i)
    <3>1. /\ s[i][2].entry \in Entries /\ GivenTo(w, s[i][2].entry)
          /\ \A j \in 1..Len(s) : i < j /\ TupleSoon(w, j) => s[i][2].entry < s[j][2].entry
      BY <1>4, <2>2 DEF SoonInOrder, s
    <3>4. PICK e \in Entries : e = s[i][2].entry
      BY <3>1
    <3>2. /\ e = u[i][2].entry /\ GivenTo(w, e)'
          /\ \A j : TupleSoon(w, j)' => (TupleSoon(w, j) /\ u[j] = s[j]) \/ e < u[j][2].entry
      BY <1>8, <2>2, <3>1, <3>4
    <3>3. \A j : TupleSoon(w, j) => j \in 1..Len(s)
      BY DEF TupleSoon, s
    <3> QED
      BY <2>2, <3>1, <3>2, <3>3, <3>4
  <2>3. CASE \E k \in 1..Len(t) : i = Len(s) + k /\ u[i] = t[k] /\ Mine(k)
    <3>1. PICK k \in 1..Len(t) : i = Len(s) + k /\ u[i] = t[k] /\ Mine(k)
      BY <2>3
    <3>2. ASSUME NEW j \in 1..Len(u), i < j, TupleSoon(w, j)'
          PROVE  u[i][2].entry < u[j][2].entry
      <4>0. ~(j \in 1..Len(s))
        BY <1>2, <3>1, <3>2
      <4>1. PICK l \in 1..Len(t) : j = Len(s) + l /\ u[j] = t[l] /\ Mine(l)
        BY <1>6, <3>2, <4>0
      <4>2. k < l
        BY <1>2, <3>1, <3>2, <4>1
      <4> QED
        BY <1>7, <3>1, <4>1, <4>2
    <3> QED
      BY <1>7, <3>1, <3>2
  <2> QED
    BY <1>6, <2>1, <2>2, <2>3
<1> QED
  BY <1>9, <1>10, <1>11

LEMMA WrittenGrows ==
  ASSUME WorkersTypeOK, UNCHANGED <<stdin, child>>,
         NEW t \in Seq(Workers \X Messages), soon' = soon \o t,
         \A i \in 1..Len(t) : t[i][2].kind \in {"tuple", "ids"},
         NEW w \in Workers, Written(w)
  PROVE  Written(w)'
<1> DEFINE T == Workers \X Messages
           s == soon
           u == soon'
<1>1. s \in Seq(T) /\ t \in Seq(T) /\ u = s \o t
  BY DEF WorkersTypeOK
<1> HIDE DEF T, s, u
<1>2. /\ Len(s) \in Nat /\ Len(t) \in Nat /\ Len(u) = Len(s) + Len(t)
      /\ \A i \in 1..Len(s) : u[i] = s[i]
      /\ \A i \in 1..Len(t) : u[Len(s) + i] = t[i]
      /\ \A i \in 1..Len(u) : i \in 1..Len(s) \/ (i - Len(s) \in 1..Len(t) /\ i > Len(s))
  BY <1>1, ConcatElements
<1>3. ASSUME NEW j \in 1..Len(u), u[j][1] = w
      PROVE  /\ u[j][2].kind \in {"handshake", "tuple", "ids"}
             /\ u[j][2].kind = "handshake" =>
                  /\ child[w].first /\ stdin[w] = <<>>
                  /\ \A i \in 1..(j - 1) : u[i][1] # w
  <2>1. CASE j \in 1..Len(s)
    <3>1. \A i \in 1..(j - 1) : i \in 1..Len(s) /\ u[i] = s[i]
      <4>1. Len(s) \in Nat
        BY <1>2
      <4>2. \A i \in 1..(j - 1) : i \in 1..Len(s)
        BY ONLY <2>1, <4>1
      <4>3. \A i \in 1..Len(s) : u[i] = s[i]
        BY <1>2
      <4> QED
        BY ONLY <4>2, <4>3
    <3>2. u[j] = s[j]
      BY <1>2, <2>1
    <3>3. j \in 1..Len(soon) /\ soon[j][1] = w
      BY <1>3, <2>1, <3>2 DEF s
    <3>4. /\ s[j][2].kind \in {"handshake", "tuple", "ids"}
          /\ s[j][2].kind = "handshake" =>
               /\ child[w].first /\ stdin[w] = <<>>
               /\ \A i \in 1..(j - 1) : s[i][1] # w
      BY <3>3 DEF Written, s
    <3> QED
      BY ONLY <3>1, <3>2, <3>4
  <2>2. CASE j - Len(s) \in 1..Len(t) /\ j > Len(s)
    <3>1. u[j] = t[j - Len(s)]
      <4>1. Len(s) + (j - Len(s)) = j
        BY <1>2
      <4> QED
        BY <1>2, <2>2, <4>1
    <3> QED
      BY <2>2, <3>1
  <2> QED
    BY <1>2, <2>1, <2>2
<1> QED
  BY <1>3 DEF Written, u

LEMMA GrownElement ==
  ASSUME NEW T, NEW s \in Seq(T), NEW t \in Seq(T), NEW u, u = s \o t, NEW i \in 1..Len(u)
  PROVE  \/ i \in 1..Len(s) /\ u[i] = s[i]
         \/ \E k \in 1..Len(t) : u[i] = t[k]
<1>1. /\ Len(s) \in Nat /\ Len(t) \in Nat
      /\ \A j \in 1..Len(s) : u[j] = s[j]
      /\ \A j \in 1..Len(t) : u[Len(s) + j] = t[j]
      /\ i \in 1..Len(s) \/ (i - Len(s) \in 1..Len(t) /\ i > Len(s))
  BY ConcatElements
<1>2. CASE i - Len(s) \in 1..Len(t) /\ i > Len(s)
  <2>1. Len(s) + (i - Len(s)) = i
    BY <1>1
  <2> QED
    BY <1>1, <1>2, <2>1
<1> QED
  BY <1>1, <1>2

LEMMA AppendsOne ==
  ASSUME NEW T, NEW s \in Seq(T), NEW x \in T
  PROVE  Append(s, x) = s \o <<x>> /\ <<x>> \in Seq(T) /\ Len(<<x>>) = 1 /\ <<x>>[1] = x
  OBVIOUS

(***************************************************************************)
(* nsyslog takes the first message that a worker wrote.                    *)
(***************************************************************************)

Taken(w) ==
  /\ stdout[w] # <<>> /\ stdout' = [stdout EXCEPT ![w] = Tail(@)]
  /\ begun' = [begun EXCEPT ![w] = Head(stdout[w]) = Cut]
  /\ UNCHANGED <<bound, exits, emits, child, stdin, got, made, phase, handled, closed, restart>>

LEMMA TakenMessages ==
  ASSUME WorkersInv, NEW w \in Workers, Taken(w)
  PROVE  /\ Head(stdout[w]) \in Messages \cup {Cut} /\ Head(stdout[w]) = stdout[w][1]
         /\ 1 \in 1..Len(stdout[w])
         /\ stdout' \in [Workers -> Seq(Messages \cup {Cut})] /\ begun' \in [Workers -> BOOLEAN]
         /\ Len(stdout'[w]) = Len(stdout[w]) - 1
         /\ \A i \in 1..Len(stdout'[w]) :
              i + 1 \in 1..Len(stdout[w]) /\ stdout'[w][i] = stdout[w][i + 1]
         /\ \A v \in Workers : v # w => stdout'[v] = stdout[v]
         /\ begun'[w] = (Head(stdout[w]) = Cut) /\ ~begun[w]
         /\ \A v \in Workers : v # w => begun'[v] = begun[v]
         /\ phase \notin {"off", "unused"}
<1> DEFINE M == Messages \cup {Cut}
           s == stdout[w]
<1>1. stdout \in [Workers -> Seq(M)] /\ s \in Seq(M) /\ s # <<>> /\ begun \in [Workers -> BOOLEAN]
  BY DEF WorkersInv, WorkersTypeOK, BoltTypeOK, Taken
<1>2. stdout' = [stdout EXCEPT ![w] = Tail(s)] /\ begun' = [begun EXCEPT ![w] = Head(s) = Cut]
  BY DEF Taken
<1>3. ~begun[w] /\ phase \notin {"off", "unused"}
  BY <1>1 DEF WorkersInv, Quiet, Known
<1> HIDE DEF M, s
<1>4. /\ Tail(s) \in Seq(M) /\ Len(Tail(s)) = Len(s) - 1
      /\ Head(s) = s[1] /\ Head(s) \in M /\ 1 \in 1..Len(s)
      /\ \A i \in 1..Len(Tail(s)) : i + 1 \in 1..Len(s) /\ Tail(s)[i] = s[i + 1]
  BY <1>1, TailElements
<1>5. /\ stdout' \in [Workers -> Seq(M)] /\ stdout'[w] = Tail(s)
      /\ \A v \in Workers : v # w => stdout'[v] = stdout[v]
  BY <1>1, <1>2, <1>4
<1>6. /\ begun' \in [Workers -> BOOLEAN] /\ begun'[w] = (Head(s) = Cut)
      /\ \A v \in Workers : v # w => begun'[v] = begun[v]
  BY <1>1, <1>2
<1> QED
  BY <1>3, <1>4, <1>5, <1>6 DEF M, s

LEMMA TakenComing ==
  ASSUME WorkersInv, NEW w \in Workers, Taken(w), NEW d \in Entries
  PROVE  /\ Coming(w, d) = Coming(w, d)' + (IF Head(stdout[w]) = Message("emit", d) THEN 1 ELSE 0)
         /\ \A v \in Workers : v # w => Coming(v, d)' = Coming(v, d)
         /\ \A v \in Workers : Coming(v, d) \in Nat /\ Coming(v, d)' \in Nat
         /\ \A v \in Workers : InHand(v, d)' => InHand(v, d)
<1> DEFINE M == Messages \cup {Cut}
           s == stdout[w]
           S == {Message("emit", d)}
<1>1. stdout \in [Workers -> Seq(M)] /\ s \in Seq(M) /\ s # <<>>
  BY DEF WorkersInv, WorkersTypeOK, BoltTypeOK, Taken
<1>2. /\ stdout' \in [Workers -> Seq(M)] /\ stdout'[w] = Tail(s)
      /\ \A v \in Workers : v # w => stdout'[v] = stdout[v]
  BY <1>1, TakenMessages DEF Taken
<1>3. /\ \A i \in 1..Len(stdout'[w]) : i + 1 \in 1..Len(s) /\ stdout'[w][i] = s[i + 1]
      /\ UNCHANGED child
  BY TakenMessages DEF Taken
<1>4. \A v \in Workers : /\ Coming(v, d) = Occurs(stdout[v], S)
                         /\ Coming(v, d)' = Occurs(stdout'[v], S)
  BY DEF Coming
<1>5. \A v \in Workers : InHand(v, d)' => InHand(v, d)
  <2>1. ASSUME NEW v \in Workers, NEW i \in 1..Len(stdout'[v]), Answer(stdout'[v][i]), stdout'[v][i].entry = d
        PROVE  \E k \in 1..Len(stdout[v]) : Answer(stdout[v][k]) /\ stdout[v][k].entry = d
    <3>1. CASE v = w
      BY <1>3, <2>1, <3>1
    <3>2. CASE v # w
      BY <1>2, <2>1, <3>2
    <3> QED
      BY <3>1, <3>2
  <2> QED
    BY <1>3, <2>1 DEF InHand
<1> DEFINE S2 == S
<1> HIDE DEF M
<1>6. \A v \in Workers : Occurs(stdout[v], S) \in Nat /\ Occurs(stdout'[v], S) \in Nat
  <2>1. \A v \in Workers : stdout[v] \in Seq(M) /\ stdout'[v] \in Seq(M)
    BY <1>1, <1>2
  <2> HIDE DEF S
  <2> QED
    BY <2>1, OccursType
<1> HIDE DEF s, S
<1>7. Occurs(s, S) = Occurs(Tail(s), S) + (IF Head(s) \in S THEN 1 ELSE 0)
  BY <1>1, OccursTail
<1> QED
  BY <1>2, <1>4, <1>5, <1>6, <1>7 DEF s, S

LEMMA TakenKeeps ==
  ASSUME WorkersInv, NEW w \in Workers, Taken(w)
  PROVE  /\ BoltTypeOK' /\ IdsEmitted' /\ Quiet' /\ AnswersLast'
         /\ \A v \in Workers : \A d : Got(v, d)' <=> Got(v, d)
         /\ \A v \in Workers : \A i \in 1..Len(stdout'[v]) :
              stdout'[v][i].kind = "emit" => stdout'[v][i].entry = 0 \/ Got(v, stdout'[v][i].entry)
<1> USE DEF WorkersInv
<1>1. /\ stdout' \in [Workers -> Seq(Messages \cup {Cut})]
      /\ Len(stdout'[w]) = Len(stdout[w]) - 1
      /\ \A i \in 1..Len(stdout'[w]) :
           i + 1 \in 1..Len(stdout[w]) /\ stdout'[w][i] = stdout[w][i + 1]
      /\ \A v \in Workers : v # w => stdout'[v] = stdout[v] /\ begun'[v] = begun[v]
      /\ begun'[w] = (stdout[w][1] = Cut) /\ 1 \in 1..Len(stdout[w])
      /\ Head(stdout[w]) = stdout[w][1] /\ ~begun[w]
  BY TakenMessages, Zenon
<1>2. /\ UNCHANGED <<bound, exits, emits, child, stdin, got, made, phase, handled, closed, restart>>
      /\ stdout[w] # <<>> /\ stdout[w] \in Seq(Messages \cup {Cut})
      /\ stdout'[w] \in Seq(Messages \cup {Cut})
  BY <1>1 DEF Taken, WorkersTypeOK, BoltTypeOK
<1>3. BoltTypeOK' /\ IdsEmitted'
  BY <1>1, <1>2 DEF WorkersTypeOK, BoltTypeOK, IdsEmitted
<1>4. \A v, d : Got(v, d)' <=> Got(v, d)
  BY <1>2 DEF Got
<1>5. Quiet'
  <2>1. SUFFICES ASSUME NEW v \in Workers
                 PROVE  /\ child[v].state # "up" => stdin[v] = <<>> /\ child[v].work = {}
                        /\ v \in restart => child[v].state = "closed"
                        /\ child[v].state \in {"none", "closed"} => stdout'[v] = <<>>
                        /\ begun'[v] => child[v].state # "up" /\ stdout'[v] = <<>>
                        /\ \A i \in 1..Len(stdout'[v]) :
                             stdout'[v][i] = Cut => i = Len(stdout'[v]) /\ child[v].state # "up"
    BY <1>2 DEF Quiet
  <2>2. CASE v # w
    BY <1>1, <2>2 DEF Quiet
  <2>3. CASE v = w
    <3>1. child[w].state \notin {"none", "closed"}
      BY <1>2 DEF Quiet
    <3>2. begun'[w] => child[w].state # "up" /\ stdout'[w] = <<>>
      <4>1. begun'[w] => Len(stdout[w]) = 1 /\ child[w].state # "up"
        BY <1>1 DEF Quiet
      <4> QED
        BY <1>1, <1>2, <4>1
    <3>3. \A i \in 1..Len(stdout'[w]) :
            stdout'[w][i] = Cut => i = Len(stdout'[w]) /\ child[w].state # "up"
      <4>1. SUFFICES ASSUME NEW i \in 1..Len(stdout'[w]), stdout'[w][i] = Cut
                     PROVE  i = Len(stdout'[w]) /\ child[w].state # "up"
        OBVIOUS
      <4>2. i + 1 \in 1..Len(stdout[w]) /\ stdout[w][i + 1] = Cut
        BY <1>1, <4>1
      <4>3. i + 1 = Len(stdout[w]) /\ child[w].state # "up"
        BY <4>2 DEF Quiet
      <4> QED
        BY <1>1, <1>2, <4>3
    <3> QED
      BY <2>3, <3>1, <3>2, <3>3 DEF Quiet
  <2> QED
    BY <2>2, <2>3
<1>6. AnswersLast'
  <2>1. SUFFICES ASSUME NEW v \in Workers, NEW i \in 1..Len(stdout'[v]), Answer(stdout'[v][i])
                 PROVE  /\ Got(v, stdout'[v][i].entry) /\ stdout'[v][i].entry \notin child[v].work
                        /\ \A j \in 1..Len(stdout'[v]) : stdout'[v][j].entry = stdout'[v][i].entry /\ i < j =>
                             stdout'[v][j].kind # "emit" /\ ~Answer(stdout'[v][j])
    BY <1>2, <1>4 DEF AnswersLast
  <2>2. PICK f \in {0, 1} : \A j \in 1..Len(stdout'[v]) :
          j + f \in 1..Len(stdout[v]) /\ stdout'[v][j] = stdout[v][j + f]
    <3>1. CASE v # w
      <4>1. \A j \in 1..Len(stdout'[v]) : j + 0 = j
        OBVIOUS
      <4>2. \A j \in 1..Len(stdout'[v]) :
              j + 0 \in 1..Len(stdout[v]) /\ stdout'[v][j] = stdout[v][j + 0]
        BY <1>1, <3>1, <4>1
      <4> QED
        BY <4>2
    <3>2. CASE v = w
      <4>1. \A j \in 1..Len(stdout'[v]) :
              j + 1 \in 1..Len(stdout[v]) /\ stdout'[v][j] = stdout[v][j + 1]
        BY <1>1, <3>2
      <4> QED
        BY <4>1
    <3> QED
      BY <3>1, <3>2
  <2>3. PICK m : m = stdout'[v][i]
    OBVIOUS
  <2>4. i + f \in 1..Len(stdout[v]) /\ stdout[v][i + f] = m /\ Answer(m)
    BY <2>1, <2>2, <2>3
  <2>5. /\ Got(v, m.entry) /\ m.entry \notin child[v].work
        /\ \A j \in 1..Len(stdout[v]) : stdout[v][j].entry = m.entry /\ i + f < j =>
             stdout[v][j].kind # "emit" /\ ~Answer(stdout[v][j])
    BY <2>4 DEF AnswersLast
  <2>6. \A j \in 1..Len(stdout'[v]) : i < j => i + f < j + f
    OBVIOUS
  <2>7. ASSUME NEW j \in 1..Len(stdout'[v]), stdout'[v][j].entry = m.entry, i < j
        PROVE  stdout'[v][j].kind # "emit" /\ ~Answer(stdout'[v][j])
    BY <2>2, <2>5, <2>6, <2>7
  <2> QED
    BY <2>3, <2>5, <2>7
<1>7. ASSUME NEW v \in Workers, NEW i \in 1..Len(stdout'[v]), stdout'[v][i].kind = "emit"
      PROVE  stdout'[v][i].entry = 0 \/ Got(v, stdout'[v][i].entry)
  <2>1. CASE v # w
    BY <1>1, <1>7, <2>1 DEF EmitsCounted
  <2>2. CASE v = w
    BY <1>1, <1>7, <2>2, SMTT(30) DEF EmitsCounted
  <2> QED
    BY <2>1, <2>2
<1> QED
  BY <1>3, <1>4, <1>5, <1>6, <1>7

(* Nothing but the message is taken, or the entries stay with the workers. *)
LEMMA TakenHave ==
  ASSUME WorkersInv, NEW w \in Workers, Taken(w), phase = "up", NEW v \in Workers
  PROVE  /\ child'[v].work \subseteq prmap
         /\ \A i : TupleIn(v, i)' => stdin'[v][i].entry \in prmap
         /\ \A i \in 1..Len(stdout'[v]) : Answer(stdout'[v][i]) => stdout'[v][i].entry \in prmap
<1> USE DEF WorkersInv
<1>1. /\ child[v].work \subseteq prmap
      /\ \A i \in 1..Len(stdin[v]) : TupleIn(v, i) => stdin[v][i].entry \in prmap
      /\ \A i \in 1..Len(stdout[v]) : Answer(stdout[v][i]) => stdout[v][i].entry \in prmap
  BY DEF HaveEntry
<1>2. UNCHANGED <<child, stdin>>
  BY DEF Taken
<1>3. \A i : TupleIn(v, i)' => TupleIn(v, i) /\ i \in 1..Len(stdin[v])
  BY <1>2 DEF TupleIn
<1>4. \A i \in 1..Len(stdout'[v]) : \E k \in 1..Len(stdout[v]) : stdout'[v][i] = stdout[v][k]
  <2>1. CASE v = w
    BY <2>1, TakenMessages
  <2>2. CASE v # w
    BY <2>2, TakenMessages
  <2> QED
    BY <2>1, <2>2
<1> QED
  BY <1>1, <1>2, <1>3, <1>4

LEMMA TakenEmits ==
  ASSUME WorkersInv, NEW w \in Workers, Taken(w), WorkersTypeOK',
         \A e \in Entries :
           /\ calls'[e].worker = calls[e].worker
           /\ \/ emit'[e] = emit[e]
              \/ emit'[e] = emit[e] + 1 /\ Head(stdout[w]) = Message("emit", e)
           /\ phase = "up" /\ Head(stdout[w]) = Message("emit", e) /\ e \in prmap =>
                emit'[e] = emit[e] + 1
           /\ \/ results'[e] = results[e]
              \/ /\ results'[e] = emit[e] /\ emit[e] \in {0, made[e]}
                 /\ Got(calls[e].worker, e) /\ e \notin child[calls[e].worker].work
  PROVE  EmitsCounted'
<1> USE DEF WorkersInv
<1>1. /\ \A v \in Workers : \A d : Got(v, d)' <=> Got(v, d)
      /\ \A v \in Workers : \A i \in 1..Len(stdout'[v]) :
           stdout'[v][i].kind = "emit" => stdout'[v][i].entry = 0 \/ Got(v, stdout'[v][i].entry)
      /\ UNCHANGED <<child, made, phase>>
  BY TakenKeeps DEF Taken
<1>2. ASSUME NEW e \in Entries, NEW v \in Workers, v = calls[e].worker
      PROVE  EmitsOf(v, e)' /\ ResultOf(v, e)'
  <2>1. /\ EmitsOf(v, e) /\ ResultOf(v, e)
        /\ emit[e] \in Nat /\ made[e] \in Nat /\ emit'[e] \in Nat
    BY <1>2 DEF EmitsCounted, WorkersTypeOK, BoltTypeOK
  <2>2. /\ Coming(w, e) = Coming(w, e)' + (IF Head(stdout[w]) = Message("emit", e) THEN 1 ELSE 0)
        /\ v # w => Coming(v, e)' = Coming(v, e)
        /\ Coming(v, e) \in Nat /\ Coming(v, e)' \in Nat
        /\ InHand(v, e)' => InHand(v, e)
    BY TakenComing
  <2>3. ResultOf(v, e)'
    BY <1>1, <1>2, <2>1 DEF ResultOf
  <2>4. CASE Head(stdout[w]) = Message("emit", e)
    <3>1. v = w
      <4>1. stdout[w][1].kind = "emit" /\ stdout[w][1].entry = e /\ 1 \in 1..Len(stdout[w])
        BY <2>4, TakenMessages, MessageTypes
      <4>2. Got(w, e)
        BY <4>1, EntriesTypes DEF EmitsCounted
      <4> QED
        BY <1>2, <4>2 DEF Got, Ordered, GotInOrder, GivenTo
    <3>2. phase = "up" /\ InHand(v, e) => e \in prmap
      BY DEF InHand, HaveEntry
    <3>3. Coming(v, e) = Coming(v, e)' + 1
      BY <2>2, <2>4, <3>1
    <3>4. emit'[e] + Coming(v, e)' <= made'[e]
      BY <1>1, <2>1, <2>2, <3>3 DEF EmitsOf
    <3>5. phase = "up" /\ InHand(v, e)' => emit'[e] + Coming(v, e)' = made'[e]
      BY <1>1, <2>1, <2>2, <2>4, <3>2, <3>3, SMTT(30) DEF EmitsOf
    <3>6. ~Got(v, e)' => made'[e] = 0
      BY <1>1, <2>1 DEF EmitsOf
    <3>7. EmitsOf(v, e)'
      BY <1>1, <3>4, <3>5, <3>6 DEF EmitsOf
    <3> QED
      BY <2>3, <3>7
  <2>5. CASE Head(stdout[w]) # Message("emit", e)
    <3>1. Coming(v, e)' = Coming(v, e) /\ emit'[e] = emit[e]
      BY <2>2, <2>5
    <3>2. EmitsOf(v, e)'
      BY <1>1, <2>1, <2>2, <3>1 DEF EmitsOf
    <3> QED
      BY <2>3, <3>2
  <2> QED
    BY <2>4, <2>5
<1>3. \A e \in Entries : EmitsOf(calls[e].worker, e)' /\ ResultOf(calls[e].worker, e)'
  <2>1. SUFFICES ASSUME NEW e \in Entries
                 PROVE  EmitsOf(calls[e].worker, e)' /\ ResultOf(calls[e].worker, e)'
    OBVIOUS
  <2>2. PICK v \in Workers : v = calls[e].worker
    BY DEF WorkersTypeOK, Call
  <2>3. EmitsOf(v, e)' /\ ResultOf(v, e)' /\ calls'[e].worker = v
    BY <1>2, <2>2
  <2> QED
    BY <2>3
<1> QED
  BY <1>1, <1>3 DEF EmitsCounted

LEMMA DataIgnored ==
  ASSUME WorkersInv, NEW w \in Workers, Taken(w),
         UNCHANGED <<ready, soon, callVars, pushed, crashed>>,
         phase = "up" => Head(stdout[w]).kind # "emit"
  PROVE  WorkersInv'
<1> USE DEF WorkersInv
<1>1. /\ UNCHANGED <<calls, prmap, emit, results, answers, ready, soon, pushed, crashed>>
      /\ UNCHANGED <<bound, child, stdin, got, phase, handled, closed, restart>>
  BY DEF callVars, Taken
<1>2. BoltTypeOK' /\ IdsEmitted' /\ Quiet' /\ AnswersLast' /\ begun' \in [Workers -> BOOLEAN]
  BY TakenKeeps, TakenMessages
<1>3. WorkersTypeOK'
  BY <1>1, <1>2 DEF WorkersTypeOK
<1>4. Known'
  BY <1>1, KnownKept DEF Known
<1>5. \A v \in Workers : Written(v)'
  BY <1>1, WrittenFewer
<1>6. Ordered'
  BY <1>1, OrderedFewer DEF Fewer
<1>7. HaveEntry'
  <2>1. SUFFICES ASSUME phase = "up", NEW v \in Workers
                 PROVE  \A i \in 1..Len(soon') : TupleSoon(v, i)' /\ ~closed'[v] => soon'[i][2].entry \in prmap
    BY <1>1, TakenHave DEF HaveEntry
  <2> QED
    BY <1>1, <2>1 DEF HaveEntry, TupleSoon
<1>8. EmitsCounted'
  <2>1. \A e \in Entries : phase = "up" => Head(stdout[w]) # Message("emit", e)
    BY MessageTypes
  <2> QED
    BY <1>1, <1>3, <2>1, TakenEmits
<1> QED
  BY <1>1, <1>2, <1>3, <1>4, <1>5, <1>6, <1>7, <1>8

LEMMA InOrderTuples ==
  ASSUME WorkersTypeOK, NEW w \in Workers
  PROVE  \E s, t : /\ s = InOrder(w) /\ t = Tuples(InOrder(w))
                   /\ t \in Seq(Workers \X Messages)
                   /\ \A i \in 1..Len(t) : s[i] \in Waiting(w) /\ t[i] = <<w, Message("tuple", s[i])>>
                   /\ \A i, j \in 1..Len(t) : i < j => s[i] < s[j]
<1> DEFINE W == Waiting(w)
           n == Cardinality(W)
           s == InOrder(w)
<1>1. W \in SUBSET (1..MaxEntries) /\ MaxEntries \in Nat
  BY EntriesTypes DEF Waiting, Entries
<1> HIDE DEF W, n
<1>2. n \in Nat /\ \E q \in [1..n -> W] : \A i, j \in DOMAIN q : i < j => q[i] < q[j]
  <2>1. PICK m \in Nat : \E q \in [1..m -> W] : InAscent(W, m, q)
    BY <1>1, AscendingExists
  <2>2. PICK q \in [1..m -> W] : /\ \A a, b \in 1..m : a < b => q[a] < q[b]
                                 /\ \A a, b \in 1..m : q[a] = q[b] => a = b
                                 /\ \A x \in W : \E a \in 1..m : q[a] = x
    BY <2>1 DEF InAscent
  <2>3. q \in Bijection(1..m, W)
    BY <2>2 DEF Bijection, Injection, Surjection, IsInjective
  <2>4. IsFiniteSet(1..m) /\ Cardinality(1..m) = m
    BY <2>1, FS_Interval
  <2>5. IsFiniteSet(W) /\ Cardinality(W) = m
    BY <2>3, <2>4, FS_Bijection DEF ExistsBijection
  <2> QED
    BY <2>1, <2>2, <2>5 DEF n
<1>3. s \in [1..n -> W] /\ \A i, j \in DOMAIN s : i < j => s[i] < s[j]
  BY <1>2 DEF InOrder, W, n
<1> HIDE DEF s
<1>4. Len(s) = n /\ \A i, j \in 1..n : i < j => s[i] < s[j]
  BY <1>2, <1>3
<1>5. \A i \in 1..n : s[i] \in W /\ calls[s[i]].worker = w /\ s[i] \in Entries
  BY <1>3 DEF W, Waiting
<1> DEFINE t == [i \in 1..n |-> <<w, Message("tuple", s[i])>>]
<1>6. \A i \in 1..n : Message("tuple", s[i]) \in Messages
  BY <1>5, MessageTypes, EntriesTypes
<1>7. t \in Seq(Workers \X Messages) /\ Len(t) = n
  BY <1>2, <1>6
<1>8. t = Tuples(s)
  BY <1>4, <1>5 DEF Tuples
<1> HIDE DEF t
<1>9. \A i \in 1..n : t[i] = <<w, Message("tuple", s[i])>>
  BY DEF t
<1>10. /\ s = InOrder(w) /\ t = Tuples(InOrder(w)) /\ t \in Seq(Workers \X Messages)
       /\ \A i \in 1..Len(t) : s[i] \in W /\ t[i] = <<w, Message("tuple", s[i])>>
       /\ \A i, j \in 1..Len(t) : i < j => s[i] < s[j]
  BY <1>4, <1>5, <1>7, <1>8, <1>9 DEF s
<1> QED
  BY <1>10 DEF W

(* Those that waited for the worker are given to it: after all that it has *)
(* been given, in the order of their calls.                                *)
LEMMA DataPid ==
  ASSUME WorkersInv, NEW w \in Workers, Taken(w), OnPid(w), Head(stdout[w]).kind = "pid"
  PROVE  WorkersInv'
<1> USE DEF WorkersInv
<1>1. PICK W \in SUBSET Entries : W = Waiting(w)
  BY DEF Waiting
<1>2. /\ UNCHANGED <<bound, child, stdin, got, made, phase, handled, closed, restart>>
      /\ UNCHANGED <<emit, results, answers, pushed, crashed>>
      /\ prmap' = prmap \cup W /\ ready' = [ready EXCEPT ![w].done = TRUE]
      /\ calls' = [e \in Entries |-> IF e \in W THEN [calls[e] EXCEPT !.state = "given"] ELSE calls[e]]
  BY <1>1 DEF Taken, OnPid
<1>3. /\ ready \in [Workers -> [made : Nat, done : BOOLEAN]] /\ calls \in [Entries -> Call]
      /\ \A e \in Entries : calls[e] \in Call
  BY DEF WorkersTypeOK
<1>4. /\ ready' \in [Workers -> [made : Nat, done : BOOLEAN]]
      /\ \A v \in Workers : ready'[v].made = ready[v].made /\ (v # w => ready'[v] = ready[v])
  BY <1>2, <1>3
<1>5. /\ calls' \in [Entries -> Call]
      /\ \A e \in Entries :
           /\ calls'[e].worker = calls[e].worker /\ calls'[e].promise = calls[e].promise
           /\ calls'[e].state = IF e \in W THEN "given" ELSE calls[e].state
  BY <1>2, <1>3 DEF Call
<1>6. \A e \in Entries : e \in W <=> /\ calls[e].state = "waits" /\ calls[e].worker = w
                                     /\ calls[e].promise = ready[w].made
  BY <1>1 DEF Waiting
<1>7. PICK s, t : /\ s = InOrder(w) /\ t = Tuples(InOrder(w))
                  /\ t \in Seq(Workers \X Messages)
                  /\ \A i \in 1..Len(t) : s[i] \in Waiting(w) /\ t[i] = <<w, Message("tuple", s[i])>>
                  /\ \A i, j \in 1..Len(t) : i < j => s[i] < s[j]
  BY InOrderTuples
<1>8. soon' = soon \o t
  BY <1>7 DEF OnPid
<1>9. soon' \in Seq(Workers \X Messages)
  BY <1>7, <1>8, ConcatElements DEF WorkersTypeOK
<1>10. BoltTypeOK' /\ IdsEmitted' /\ Quiet' /\ AnswersLast' /\ begun' \in [Workers -> BOOLEAN]
  BY TakenKeeps, TakenMessages
<1>11. WorkersTypeOK'
  BY <1>2, <1>4, <1>5, <1>9, <1>10 DEF WorkersTypeOK
<1>12. Known'
  <2>1. \A e \in Entries : e \in W => calls[e].state = "waits"
    BY <1>6
  <2>2. prmap' = {e \in Entries : calls'[e].state = "given"}
    BY <1>2, <1>5 DEF Known
  <2>3. \A e \in Entries : answers'[e] = IF calls'[e].state = "answered" THEN 1 ELSE 0
    BY <1>2, <1>5, <2>1 DEF Known
  <2>4. \A e \in Entries : calls'[e].state = "none" <=> calls[e].state = "none"
    BY <1>5, <2>1
  <2>5. phase \notin {"off", "unused"}
    BY TakenMessages, Zenon
  <2>6. \A e \in Entries : calls'[e].worker = calls[e].worker
    BY <1>5
  <2> QED
    BY <1>2, <2>2, <2>3, <2>4, <2>5, <2>6 DEF Known
<1>13. \A v \in Workers : \A d :
         /\ GivenTo(v, d) => GivenTo(v, d)' /\ d \in Entries
         /\ v # w => (GivenTo(v, d)' <=> GivenTo(v, d))
  BY <1>5, <1>6 DEF GivenTo
<1>14. Ordered'
  <2>1. \A i \in 1..Len(t) : t[i][1] = w /\ t[i][2].kind = "tuple" /\ t[i][2].entry = s[i] /\ s[i] \in W
    BY <1>1, <1>7, MessageTypes
  <2>2. \A e \in W : GivenTo(w, e)'
    BY <1>5, <1>6 DEF GivenTo
  <2>3. \A e \in W : \A d : GivenTo(w, d) => d < e
    BY <1>6, <1>13 DEF Ordered, WaitsInOrder
  <2>4. \A i \in 1..Len(t) : t[i][2].kind = "tuple" =>
          /\ t[i][2].entry \in Entries /\ GivenTo(t[i][1], t[i][2].entry)'
          /\ \A d : GivenTo(t[i][1], d) => d < t[i][2].entry
          /\ \A j \in 1..Len(t) : i < j /\ t[j][2].kind = "tuple" /\ t[j][1] = t[i][1] =>
               t[i][2].entry < t[j][2].entry
    <3>1. SUFFICES ASSUME NEW i \in 1..Len(t)
                   PROVE  /\ s[i] \in Entries /\ GivenTo(w, s[i])'
                          /\ \A d : GivenTo(w, d) => d < s[i]
                          /\ \A j \in 1..Len(t) : i < j => s[i] < s[j]
      BY <2>1
    <3> QED
      BY <1>7, <2>1, <2>2, <2>3
  <2>5. \A v \in Workers : GotInOrder(v)' /\ InInOrder(v)' /\ SoonInOrder(v)'
    BY <1>2, <1>7, <1>8, <1>13, <2>4, OrderGrows
  <2>6. WaitsInOrder'
    <3>1. SUFFICES ASSUME NEW e \in Entries, calls'[e].state = "waits",
                          NEW v \in Workers, v = calls[e].worker
                   PROVE  /\ calls[e].promise <= ready'[v].made
                          /\ calls[e].promise = ready'[v].made =>
                               ~ready'[v].done /\ \A d \in Entries : GivenTo(v, d)' => d < e
      BY <1>3, <1>5 DEF WaitsInOrder, Call
    <3>2. /\ calls[e].promise <= ready[v].made
          /\ calls[e].promise = ready[v].made =>
               ~ready[v].done /\ \A d \in Entries : GivenTo(v, d) => d < e
      BY <1>5, <3>1 DEF Ordered, WaitsInOrder
    <3>3. calls[e].promise = ready[v].made => v # w
      BY <1>5, <1>6, <3>1
    <3> QED
      BY <1>4, <1>13, <3>2, <3>3
  <2> QED
    BY <2>5, <2>6 DEF Ordered
<1>15. \A v \in Workers : Written(v)'
  <2>1. \A i \in 1..Len(t) : t[i][2].kind \in {"tuple", "ids"}
    BY <1>7, MessageTypes
  <2> QED
    BY <1>2, <1>7, <1>8, <2>1, WrittenGrows
<1>16. HaveEntry'
  <2>1. SUFFICES ASSUME phase = "up", NEW v \in Workers, ~closed[v],
                        NEW i \in 1..Len(soon'), TupleSoon(v, i)'
                 PROVE  soon'[i][2].entry \in prmap'
    BY <1>2, TakenHave DEF HaveEntry
  <2>2. soon \in Seq(Workers \X Messages)
    BY DEF WorkersTypeOK
  <2>3. \/ i \in 1..Len(soon) /\ soon'[i] = soon[i]
        \/ \E k \in 1..Len(t) : soon'[i] = t[k]
    <3> DEFINE T == Workers \X Messages
               old == soon
               new == soon'
    <3>1. old \in Seq(T) /\ t \in Seq(T) /\ new = old \o t /\ i \in 1..Len(new)
      BY <1>7, <1>8, <2>1, <2>2
    <3> HIDE DEF T, old, new
    <3>2. \/ i \in 1..Len(old) /\ new[i] = old[i]
          \/ \E k \in 1..Len(t) : new[i] = t[k]
      <4>1. /\ Len(old) \in Nat /\ Len(t) \in Nat
            /\ \A j \in 1..Len(old) : new[j] = old[j]
            /\ \A j \in 1..Len(t) : new[Len(old) + j] = t[j]
            /\ \A j \in 1..Len(new) :
                 j \in 1..Len(old) \/ (j - Len(old) \in 1..Len(t) /\ j > Len(old))
        BY <3>1, ConcatElements
      <4> DEFINE k == i - Len(old)
      <4>2. CASE k \in 1..Len(t) /\ i > Len(old)
        <5>1. Len(old) + k = i
          BY <4>1, <4>2
        <5> QED
          BY <4>1, <4>2, <5>1
      <4> QED
        BY <3>1, <4>1, <4>2
    <3> QED
      BY <3>2 DEF old, new
  <2>4. CASE i \in 1..Len(soon) /\ soon'[i] = soon[i]
    BY <1>2, <2>1, <2>4 DEF HaveEntry, TupleSoon
  <2>5. CASE \E k \in 1..Len(t) : soon'[i] = t[k]
    BY <1>1, <1>2, <1>7, <2>5, MessageTypes
  <2> QED
    BY <2>3, <2>4, <2>5
<1>17. EmitsCounted'
  <2>1. \A e : Head(stdout[w]) # Message("emit", e)
    BY MessageTypes
  <2> QED
    BY <1>2, <1>5, <1>11, <2>1, TakenEmits
<1> QED
  BY <1>2, <1>10, <1>11, <1>12, <1>14, <1>15, <1>16, <1>17

(* An emit is counted for the entry that it names, if that is still known. *)
LEMMA DataEmit ==
  ASSUME WorkersInv, NEW w \in Workers, Taken(w), OnEmit(w, Head(stdout[w])),
         Head(stdout[w]).kind = "emit"
  PROVE  WorkersInv'
<1> USE DEF WorkersInv
<1>1. PICK m \in Messages : m = Head(stdout[w])
  BY TakenMessages, MessageTypes
<1>2. /\ UNCHANGED <<bound, child, stdin, got, made, phase, handled, closed, restart>>
      /\ UNCHANGED <<ready, calls, prmap, results, answers, crashed>>
      /\ emit' = [e \in Entries |-> IF e \in {m.entry} \cap prmap THEN emit[e] + 1 ELSE emit[e]]
      /\ pushed' = IF {m.entry} \cap prmap = {} THEN pushed + 1 ELSE pushed
      /\ soon' = Append(soon, <<w, Message("ids", 0)>>)
  BY <1>1 DEF Taken, OnEmit, Anchor
<1>3. /\ soon \in Seq(Workers \X Messages) /\ emit \in [Entries -> Nat] /\ pushed \in Nat
      /\ calls \in [Entries -> Call]
  BY DEF WorkersTypeOK
<1>4. PICK x \in Workers \X Messages : x = <<w, Message("ids", 0)>>
  BY MessageTypes, EntriesTypes
<1> DEFINE t == <<x>>
<1>5. /\ t \in Seq(Workers \X Messages) /\ Len(t) = 1 /\ t[1] = x /\ soon' = soon \o t
      /\ x[1] = w /\ x[2].kind = "ids"
  <2> DEFINE P == Workers \X Messages
  <2>1. soon \in Seq(P) /\ x \in P /\ soon' = Append(soon, x)
    BY <1>2, <1>3, <1>4
  <2> HIDE DEF P
  <2>2. soon' = soon \o t /\ t \in Seq(P) /\ Len(t) = 1 /\ t[1] = x
    BY <2>1, AppendsOne
  <2> QED
    BY <1>4, <2>2, MessageTypes DEF P
<1> HIDE DEF t
<1>6. soon' \in Seq(Workers \X Messages)
  BY <1>3, <1>5, ConcatElements
<1>7. /\ emit' \in [Entries -> Nat] /\ pushed' \in Nat
      /\ \A e \in Entries : /\ emit'[e] = emit[e] \/ (emit'[e] = emit[e] + 1 /\ e = m.entry)
                            /\ e = m.entry /\ e \in prmap => emit'[e] = emit[e] + 1
  BY <1>2, <1>3
<1>8. BoltTypeOK' /\ IdsEmitted' /\ Quiet' /\ AnswersLast' /\ begun' \in [Workers -> BOOLEAN]
  BY TakenKeeps, TakenMessages
<1>9. WorkersTypeOK'
  BY <1>2, <1>6, <1>7, <1>8 DEF WorkersTypeOK
<1>10. Known'
  <2>1. phase \notin {"off", "unused"}
    BY TakenMessages, Zenon
  <2> QED
    BY <1>2, <2>1, KnownKept
<1>11. Ordered'
  <2>1. \A v, d : GivenTo(v, d)' <=> GivenTo(v, d)
    BY <1>2 DEF GivenTo
  <2>2. \A i \in 1..Len(t) : t[i][2].kind = "ids"
    BY <1>5
  <2>3. \A v \in Workers : GotInOrder(v)' /\ InInOrder(v)' /\ SoonInOrder(v)'
    BY <1>2, <1>5, <2>1, <2>2, OrderGrows
  <2>4. WaitsInOrder'
    BY <1>2, <2>1 DEF Ordered, WaitsInOrder
  <2> QED
    BY <2>3, <2>4 DEF Ordered
<1>12. \A v \in Workers : Written(v)'
  <2>1. \A i \in 1..Len(t) : t[i][2].kind \in {"tuple", "ids"}
    BY <1>5
  <2> QED
    BY <1>2, <1>5, <2>1, WrittenGrows
<1>13. HaveEntry'
  <2>1. SUFFICES ASSUME phase = "up", NEW v \in Workers, ~closed[v],
                        NEW i \in 1..Len(soon'), TupleSoon(v, i)'
                 PROVE  soon'[i][2].entry \in prmap
    BY <1>2, TakenHave DEF HaveEntry
  <2>2. \/ i \in 1..Len(soon) /\ soon'[i] = soon[i]
        \/ \E k \in 1..Len(t) : soon'[i] = t[k]
    <3> DEFINE P == Workers \X Messages
               s == soon
               u == soon'
    <3>1. s \in Seq(P) /\ t \in Seq(P) /\ u = s \o t /\ i \in 1..Len(u)
      BY <1>3, <1>5, <2>1
    <3> HIDE DEF P, s, u
    <3>2. \/ i \in 1..Len(s) /\ u[i] = s[i]
          \/ \E k \in 1..Len(t) : u[i] = t[k]
      BY <3>1, GrownElement
    <3> QED
      BY <3>2 DEF s, u
  <2>3. ~ \E k \in 1..Len(t) : soon'[i] = t[k]
    BY <1>5, <2>1 DEF TupleSoon
  <2> QED
    BY <1>2, <2>1, <2>2, <2>3 DEF HaveEntry, TupleSoon
<1>14. EmitsCounted'
  <2>1. \A e \in Entries : Head(stdout[w]) = Message("emit", e) <=> e = m.entry
    BY <1>1, MessageTypes
  <2> QED
    BY <1>2, <1>7, <1>9, <2>1, TakenEmits
<1> QED
  BY <1>2, <1>8, <1>9, <1>10, <1>11, <1>12, <1>13, <1>14

(* An ack or a failure: the entry is known, what came for it is all that   *)
(* was emitted, and nobody has it any more.                                *)
LEMMA DataAnswer ==
  ASSUME WorkersInv, NEW w \in Workers, Taken(w), OnAckOrFail(Head(stdout[w])),
         Answer(Head(stdout[w])), handled
  PROVE  WorkersInv'
<1> USE DEF WorkersInv
<1>1. PICK m \in Messages : m = Head(stdout[w]) /\ m = stdout[w][1] /\ 1 \in 1..Len(stdout[w])
  BY TakenMessages, MessageTypes DEF Answer
<1>2. phase = "up"
  BY DEF Known
<1>3. PICK e \in prmap : e = m.entry
  BY <1>1, <1>2 DEF HaveEntry
<1>4. /\ Got(w, e) /\ e \notin child[w].work
      /\ \A j \in 1..Len(stdout[w]) : stdout[w][j].entry = e /\ 1 < j =>
           stdout[w][j].kind # "emit" /\ ~Answer(stdout[w][j])
  BY <1>1, <1>3 DEF AnswersLast
<1>5. e \in Entries /\ calls[e].state = "given" /\ calls[e].worker = w
  BY <1>3, <1>4 DEF Known, Got, Ordered, GotInOrder, GivenTo
<1>6. /\ UNCHANGED <<bound, child, stdin, got, made, phase, handled, closed, restart>>
      /\ UNCHANGED <<ready, soon, emit, pushed, crashed>>
      /\ calls' = [d \in Entries |-> IF d = e THEN [calls[d] EXCEPT !.state = "answered"] ELSE calls[d]]
      /\ prmap' = prmap \ {e}
      /\ answers' = [d \in Entries |-> IF d = e THEN answers[d] + 1 ELSE answers[d]]
      /\ results' = [d \in Entries |-> IF d = e /\ m.kind = "ack" THEN emit[d] ELSE results[d]]
  BY <1>1, <1>3 DEF Taken, OnAckOrFail, CallBack, Deleted
<1>7. /\ calls \in [Entries -> Call] /\ answers \in [Entries -> Nat]
      /\ emit \in [Entries -> Nat] /\ results \in [Entries -> Nat] /\ prmap \subseteq Entries
      /\ made \in [Entries -> Nat]
  BY DEF WorkersTypeOK, BoltTypeOK
<1>8. /\ calls' \in [Entries -> Call]
      /\ \A d \in Entries :
           /\ calls'[d].worker = calls[d].worker /\ calls'[d].promise = calls[d].promise
           /\ calls'[d].state = IF d = e THEN "answered" ELSE calls[d].state
  BY <1>6, <1>7 DEF Call
<1>9. BoltTypeOK' /\ IdsEmitted' /\ Quiet' /\ AnswersLast' /\ begun' \in [Workers -> BOOLEAN]
  BY TakenKeeps, TakenMessages
<1>10. /\ prmap' \subseteq Entries /\ answers' \in [Entries -> Nat] /\ results' \in [Entries -> Nat]
  BY <1>6, <1>7
<1>11. WorkersTypeOK'
  BY <1>6, <1>8, <1>9, <1>10 DEF WorkersTypeOK
<1>12. Known'
  <2>1. prmap' = {d \in Entries : calls'[d].state = "given"}
    BY <1>6, <1>8 DEF Known
  <2>2. \A d \in Entries : answers'[d] = IF calls'[d].state = "answered" THEN 1 ELSE 0
    BY <1>5, <1>6, <1>8 DEF Known
  <2>3. \A d \in Entries : calls'[d].state = "none" <=> calls[d].state = "none"
    BY <1>5, <1>8
  <2> QED
    BY <1>2, <1>6, <1>8, <2>1, <2>2, <2>3 DEF Known
<1>13. \A v \in Workers : \A d : GivenTo(v, d)' <=> GivenTo(v, d)
  BY <1>5, <1>8 DEF GivenTo
<1>14. Ordered'
  <2>1. \A v \in Workers : GotInOrder(v)' /\ InInOrder(v)' /\ SoonInOrder(v)'
    BY <1>6, <1>13, OrderFewer DEF Fewer
  <2>2. WaitsInOrder'
    <3>1. \A d \in Entries : calls'[d].state = "waits" => calls[d].state = "waits" /\ calls[d].worker \in Workers
      BY <1>7, <1>8 DEF Call
    <3> QED
      BY <1>6, <1>8, <1>13, <3>1 DEF Ordered, WaitsInOrder
  <2> QED
    BY <2>1, <2>2 DEF Ordered
<1>15. \A v \in Workers : Written(v)'
  BY <1>6, WrittenFewer
<1>16. HaveEntry'
  <2>1. \A v \in Workers : GivenTo(v, e) => v = w
    BY <1>5 DEF GivenTo
  <2>2. \A v \in Workers : Got(v, e) => v = w
    BY <2>1 DEF Got, Ordered, GotInOrder
  <2>3. SUFFICES ASSUME NEW v \in Workers
                 PROVE  /\ e \notin child[v].work
                        /\ \A i : TupleIn(v, i) => stdin[v][i].entry # e
                        /\ \A i \in 1..Len(stdout'[v]) : Answer(stdout'[v][i]) => stdout'[v][i].entry # e
                        /\ \A i : TupleSoon(v, i) => soon[i][2].entry # e
    <3>1. SUFFICES ASSUME NEW v \in Workers
                   PROVE  /\ child'[v].work \subseteq prmap'
                          /\ \A i : TupleIn(v, i)' => stdin'[v][i].entry \in prmap'
                          /\ \A i \in 1..Len(stdout'[v]) : Answer(stdout'[v][i]) => stdout'[v][i].entry \in prmap'
                          /\ \A i : TupleSoon(v, i)' /\ ~closed'[v] => soon'[i][2].entry \in prmap'
      BY DEF HaveEntry
    <3>2. /\ child'[v].work \subseteq prmap
          /\ \A i : TupleIn(v, i)' => stdin'[v][i].entry \in prmap
          /\ \A i \in 1..Len(stdout'[v]) : Answer(stdout'[v][i]) => stdout'[v][i].entry \in prmap
      BY <1>2, TakenHave
    <3>3. \A i : TupleSoon(v, i) /\ ~closed[v] => soon[i][2].entry \in prmap
      BY <1>2 DEF HaveEntry, TupleSoon
    <3>4. /\ \A i : TupleIn(v, i)' <=> TupleIn(v, i)
          /\ \A i : TupleSoon(v, i)' <=> TupleSoon(v, i)
      BY <1>6 DEF TupleIn, TupleSoon
    <3> QED
      BY <1>6, <2>3, <3>2, <3>3, <3>4
  <2>4. e \notin child[v].work
    BY <1>4, <2>2 DEF AnswersLast
  <2>5. ASSUME NEW i, TupleIn(v, i)
        PROVE  stdin[v][i].entry # e
    <3>1. i \in 1..Len(stdin[v]) /\ (stdin[v][i].entry = e => GivenTo(v, e))
      BY <2>5 DEF TupleIn, Ordered, InInOrder
    <3>2. \A k \in 1..Len(got[v]) : got[v][k] < stdin[v][i].entry
      BY <2>5, <3>1 DEF Ordered, GotInOrder
    <3> QED
      BY <1>4, <1>5, <2>1, <3>1, <3>2, EntriesTypes, SMTT(30) DEF Got
  <2>6. ASSUME NEW i, TupleSoon(v, i)
        PROVE  soon[i][2].entry # e
    <3>1. i \in 1..Len(soon) /\ (soon[i][2].entry = e => GivenTo(v, e))
      BY <2>6 DEF TupleSoon, Ordered, SoonInOrder
    <3>2. \A k \in 1..Len(got[v]) : got[v][k] < soon[i][2].entry
      BY <2>6, <3>1 DEF Ordered, GotInOrder
    <3> QED
      BY <1>4, <1>5, <2>1, <3>1, <3>2, EntriesTypes, SMTT(30) DEF Got
  <2>7. ASSUME NEW i \in 1..Len(stdout'[v]), Answer(stdout'[v][i])
        PROVE  stdout'[v][i].entry # e
    <3>1. CASE v # w
      <4>1. i \in 1..Len(stdout[v]) /\ stdout'[v][i] = stdout[v][i]
        BY <2>7, <3>1, TakenMessages
      <4>2. Got(v, stdout[v][i].entry)
        BY <2>7, <4>1 DEF AnswersLast
      <4> QED
        BY <2>2, <3>1, <4>1, <4>2
    <3>2. CASE v = w
      <4>1. i + 1 \in 1..Len(stdout[w]) /\ stdout'[w][i] = stdout[w][i + 1] /\ 1 < i + 1
        BY <2>7, <3>2, TakenMessages
      <4> QED
        BY <1>4, <2>7, <3>2, <4>1
    <3> QED
      BY <3>1, <3>2
  <2> QED
    BY <2>4, <2>5, <2>6, <2>7
<1>17. EmitsCounted'
  <2>1. Coming(w, e) = 0
    <3>1. \A j \in 1..Len(stdout[w]) : stdout[w][j] \notin {Message("emit", e)}
      <4>1. SUFFICES ASSUME NEW j \in 1..Len(stdout[w])
                     PROVE  stdout[w][j].kind # "emit" \/ stdout[w][j].entry # e
        BY MessageTypes
      <4>2. CASE j = 1
        BY <1>1, <4>2 DEF Answer
      <4>3. CASE 1 < j
        BY <1>4, <4>3
      <4> QED
        BY <4>2, <4>3
    <3> QED
      BY <3>1, OccursNone DEF Coming
  <2>2. InHand(w, e)
    BY <1>1, <1>3 DEF InHand
  <2>3. emit[e] = made[e]
    <3>1. emit[e] + Coming(w, e) = made[e]
      BY <1>2, <1>5, <2>2 DEF EmitsCounted, EmitsOf
    <3> QED
      BY <1>5, <1>7, <2>1, <3>1
  <2>4. \A d : Head(stdout[w]) # Message("emit", d)
    BY MessageTypes DEF Answer
  <2>5. \A d \in Entries :
          \/ results'[d] = results[d]
          \/ /\ results'[d] = emit[d] /\ emit[d] \in {0, made[d]}
             /\ Got(calls[d].worker, d) /\ d \notin child[calls[d].worker].work
    BY <1>4, <1>5, <1>6, <2>3
  <2> QED
    BY <1>6, <1>8, <1>11, <2>4, <2>5, TakenEmits
<1> QED
  BY <1>6, <1>9, <1>11, <1>12, <1>14, <1>15, <1>16, <1>17

LEMMA OnDataKeeps ==
  ASSUME WorkersInv, NEW w \in Workers, OnData(w)
  PROVE  WorkersInv'
<1>1. Taken(w)
  BY DEF OnData, Taken
<1>2. /\ IF Head(stdout[w]) # Cut /\ ~begun[w] THEN ProcessMessage(w, Head(stdout[w]))
         ELSE UNCHANGED <<ready, soon, callVars, pushed, crashed>>
      /\ ~begun[w] /\ Cut.kind = "cut" /\ (phase = "up" => handled)
  BY <1>1, TakenMessages, MessageTypes DEF OnData, WorkersInv, Known
<1>3. CASE Head(stdout[w]) = Cut
  BY <1>1, <1>2, <1>3, DataIgnored
<1>4. CASE Head(stdout[w]) # Cut
  <2>1. ProcessMessage(w, Head(stdout[w]))
    BY <1>2, <1>4
  <2> DEFINE m == Head(stdout[w])
  <2>2. CASE m.kind = "pid"
    BY <1>1, <2>1, <2>2, DataPid DEF ProcessMessage
  <2>3. CASE m.kind = "emit" /\ handled
    BY <1>1, <2>1, <2>3, DataEmit DEF ProcessMessage
  <2>4. CASE m.kind \in {"ack", "fail"} /\ handled
    BY <1>1, <2>1, <2>4, DataAnswer DEF ProcessMessage, Answer
  <2>5. CASE m.kind # "pid" /\ ~(m.kind \in {"emit", "ack", "fail"} /\ handled)
    BY <1>1, <1>2, <2>1, <2>5, DataIgnored DEF ProcessMessage
  <2> QED
    BY <2>2, <2>3, <2>4, <2>5
<1> QED
  BY <1>3, <1>4

(***************************************************************************)
(* What nsyslog does by itself.                                            *)
(***************************************************************************)

LEMMA NoneYet ==
  ASSUME WorkersInv, phase \in {"off", "starting"}
  PROVE  \A w \in Workers :
           /\ \A e : ~GivenTo(w, e) /\ ~Got(w, e)
           /\ child[w].work = {}
           /\ \A i \in 1..Len(stdin[w]) : ~TupleIn(w, i)
           /\ \A i \in 1..Len(stdout[w]) : ~Answer(stdout[w][i])
           /\ \A i \in 1..Len(soon) : ~TupleSoon(w, i)
<1> USE DEF WorkersInv
<1>1. \A w, e : ~GivenTo(w, e)
  BY DEF Known, GivenTo
<1>2. SUFFICES ASSUME NEW w \in Workers
               PROVE  /\ \A e : ~Got(w, e)
                      /\ child[w].work = {}
                      /\ \A i \in 1..Len(stdin[w]) : ~TupleIn(w, i)
                      /\ \A i \in 1..Len(stdout[w]) : ~Answer(stdout[w][i])
                      /\ \A i \in 1..Len(soon) : ~TupleSoon(w, i)
  BY <1>1
<1>3. \A e : ~Got(w, e)
  BY <1>1 DEF Got, Ordered, GotInOrder
<1>4. child[w].work = {} /\ \A i \in 1..Len(stdout[w]) : ~Answer(stdout[w][i])
  BY <1>3 DEF AnswersLast
<1>5. \A i \in 1..Len(stdin[w]) : ~TupleIn(w, i)
  BY <1>1 DEF Ordered, InInOrder
<1>6. \A i \in 1..Len(soon) : ~TupleSoon(w, i)
  BY <1>1 DEF Ordered, SoonInOrder
<1> QED
  BY <1>3, <1>4, <1>5, <1>6

LEMMA HandleKeeps ==
  ASSUME WorkersInv, Handle
  PROVE  WorkersInv'
<1> USE DEF WorkersInv
<1>1. /\ phase = "starting" /\ phase' = "up" /\ handled' = TRUE
      /\ UNCHANGED <<bound, exits, childVars, ready, closed, restart, begun, soon, callVars, pushed, crashed>>
  BY DEF Handle, AllReady
<1>2. /\ UNCHANGED <<bound, exits, child, stdin, stdout, emits, got, made>>
      /\ UNCHANGED <<ready, closed, restart, begun, soon, calls, prmap, emit, results, answers, pushed, crashed>>
  BY <1>1 DEF childVars, callVars
<1>3. WorkersTypeOK' /\ IdsEmitted'
  <2>1. BoltTypeOK'
    BY <1>2 DEF WorkersTypeOK, BoltTypeOK
  <2> QED
    BY <1>1, <1>2, <2>1 DEF WorkersTypeOK, IdsEmitted
<1>4. Known' /\ Quiet'
  BY <1>1, <1>2 DEF Known, Quiet
<1>5. \A v \in Workers : Written(v)'
  BY <1>2, WrittenFewer
<1>6. Ordered'
  BY <1>2, OrderedFewer DEF Fewer
<1>7. AnswersLast'
  BY <1>2 DEF AnswersLast, Got
<1>8. HaveEntry'
  BY <1>1, <1>2, NoneYet DEF HaveEntry, TupleIn, TupleSoon
<1>9. EmitsCounted'
  <2>1. \A v \in Workers : \A e : ~InHand(v, e)' /\ (Got(v, e)' <=> Got(v, e)) /\ Coming(v, e)' = Coming(v, e)
    BY <1>1, <1>2, NoneYet DEF InHand, Got, Coming
  <2>2. \A e \in Entries : calls[e].worker \in Workers
    BY DEF WorkersTypeOK, Call
  <2>3. ASSUME NEW e \in Entries, NEW v \in Workers, v = calls[e].worker
        PROVE  EmitsOf(v, e)' /\ ResultOf(v, e)'
    BY <1>2, <2>1, <2>3 DEF EmitsCounted, EmitsOf, ResultOf
  <2>4. ASSUME NEW e \in Entries
        PROVE  EmitsOf(calls[e].worker, e)' /\ ResultOf(calls[e].worker, e)'
    <3>1. PICK v \in Workers : v = calls[e].worker
      BY <2>2
    <3> QED
      BY <1>2, <2>3, <3>1
  <2> QED
    BY <1>2, <2>1, <2>4 DEF EmitsCounted
<1> QED
  BY <1>2, <1>3, <1>4, <1>5, <1>6, <1>7, <1>8, <1>9

LEMMA HandshakeOfEach ==
  ASSUME NEW ws \in SUBSET Workers
  PROVE  \E t : /\ t = SetToSeq({<<w, Message("handshake", 0)>> : w \in ws})
                /\ t \in Seq(Workers \X Messages)
                /\ \A i \in 1..Len(t) : t[i][1] \in ws /\ t[i][2] = Message("handshake", 0)
                /\ \A i, j \in 1..Len(t) : t[i][1] = t[j][1] => i = j
<1> DEFINE S == {<<w, Message("handshake", 0)>> : w \in ws}
           t == SetToSeq(S)
<1>1. IsFiniteSet(ws)
  BY EntriesTypes, FS_Subset
<1>2. IsFiniteSet(S)
  <2> DEFINE f == [w \in ws |-> <<w, Message("handshake", 0)>>]
  <2>1. f \in Surjection(ws, S)
    BY DEF Surjection
  <2> HIDE DEF f, S
  <2> QED
    BY <1>1, <2>1, FS_Surjection
<1>3. \A x \in S : x[1] \in ws /\ x[2] = Message("handshake", 0) /\ x \in Workers \X Messages /\ x = <<x[1], x[2]>>
  BY MessageTypes, EntriesTypes
<1> HIDE DEF S
<1>4. t \in Seq(S) /\ \A i, j \in 1..Len(t) : t[i] = t[j] => i = j
  BY <1>2, SequenceOfSet
<1> HIDE DEF t
<1>5. \A i \in 1..Len(t) : t[i] \in S
  BY <1>4
<1>6. t \in Seq(Workers \X Messages)
  <2> DEFINE P == Workers \X Messages
  <2>1. \A i \in 1..Len(t) : t[i] \in P
    BY <1>3, <1>5
  <2> HIDE DEF P
  <2>2. t \in Seq(P)
    BY <1>4, <2>1
  <2> QED
    BY <2>2 DEF P
<1>7. \A i, j \in 1..Len(t) : t[i][1] = t[j][1] => i = j
  BY <1>3, <1>4, <1>5, SMTT(30)
<1>8. /\ t = SetToSeq({<<w, Message("handshake", 0)>> : w \in ws})
      /\ t \in Seq(Workers \X Messages)
      /\ \A i \in 1..Len(t) : t[i][1] \in ws /\ t[i][2] = Message("handshake", 0)
      /\ \A i, j \in 1..Len(t) : t[i][1] = t[j][1] => i = j
  BY <1>3, <1>5, <1>6, <1>7 DEF t, S
<1> QED
  BY <1>8

LEMMA SpawnKeeps ==
  ASSUME WorkersInv, NEW ws \in SUBSET Workers, soon = <<>>,
         Spawned(ws), Handshakes(ws), \A w \in ws : stdin[w] = <<>> /\ stdout[w] = <<>>,
         UNCHANGED <<bound, exits, emits, stdin, stdout, got, made, handled, ready,
                     callVars, pushed, crashed>>,
         restart' \subseteq restart, restart' \cap ws = {},
         \/ phase = "off" /\ phase' = "starting"
         \/ phase' = phase /\ phase \in {"starting", "up", "stopped"}
  PROVE  WorkersInv'
<1> USE DEF WorkersInv
<1>1. UNCHANGED <<calls, prmap, emit, results, answers>>
  BY DEF callVars
<1>2. /\ \A v \in Workers \ ws : child'[v] = child[v] /\ closed'[v] = closed[v] /\ begun'[v] = begun[v]
      /\ \A v \in ws : ~closed'[v] /\ ~begun'[v]
      /\ \A v \in ws : /\ child'[v].state = "up" /\ child'[v].first /\ child'[v].work = {}
                       /\ child'[v].ids = 0
      /\ child' \in [Workers -> Child] /\ closed' \in [Workers -> BOOLEAN] /\ begun' \in [Workers -> BOOLEAN]
  <2>1. child \in [Workers -> Child] /\ closed \in [Workers -> BOOLEAN] /\ begun \in [Workers -> BOOLEAN]
    BY DEF WorkersTypeOK, BoltTypeOK
  <2> DEFINE c == [NoChild EXCEPT !.state = "up"]
  <2>0. 0 \in 0..MaxEmits /\ {} \in SUBSET Entries
    BY EntriesTypes
  <2>4. /\ c.state = "up" /\ c.first /\ c.work = {} /\ c.ids = 0
    BY DEF NoChild
  <2>5. NoChild \in Child
    BY <2>0 DEF NoChild, Child
  <2>2. /\ c \in Child /\ c.state = "up" /\ c.first /\ c.work = {} /\ c.ids = 0
    BY <2>4, <2>5, ChildField
  <2>3. child' = [v \in Workers |-> IF v \in ws THEN c ELSE child[v]]
    BY DEF Spawned
  <2> HIDE DEF c
  <2> QED
    BY <2>1, <2>2, <2>3 DEF Spawned
<1>3. PICK t : /\ t = SetToSeq({<<w, Message("handshake", 0)>> : w \in ws})
               /\ t \in Seq(Workers \X Messages)
               /\ \A i \in 1..Len(t) : t[i][1] \in ws /\ t[i][2] = Message("handshake", 0)
               /\ \A i, j \in 1..Len(t) : t[i][1] = t[j][1] => i = j
  BY HandshakeOfEach
<1>4. soon' = soon \o t /\ soon' = t
  <2> DEFINE P == Workers \X Messages
  <2>1. soon' = soon \o t
    BY <1>3 DEF Handshakes
  <2>2. t \in Seq(P)
    BY <1>3
  <2> HIDE DEF P
  <2>3. <<>> \o t = t
    BY <2>2
  <2> QED
    BY <2>1, <2>3
<1>5. \A i \in 1..Len(t) : t[i][2].kind = "handshake"
  BY <1>3, MessageTypes
<1>6. WorkersTypeOK' /\ IdsEmitted'
  <2>1. BoltTypeOK'
    BY <1>2 DEF WorkersTypeOK, BoltTypeOK
  <2>2. WorkersTypeOK'
    BY <1>1, <1>2, <1>3, <1>4, <2>1 DEF WorkersTypeOK
  <2>3. IdsEmitted'
    BY <1>2, Bounds DEF IdsEmitted
  <2> QED
    BY <2>2, <2>3
<1>7. Known'
  BY <1>1 DEF Known
<1>8. Quiet'
  <2>1. SUFFICES ASSUME NEW v \in Workers
                 PROVE  /\ child'[v].state # "up" => stdin[v] = <<>> /\ child'[v].work = {}
                        /\ v \in restart' => child'[v].state = "closed"
                        /\ child'[v].state \in {"none", "closed"} => stdout[v] = <<>>
                        /\ begun'[v] => child'[v].state # "up" /\ stdout[v] = <<>>
                        /\ \A i \in 1..Len(stdout[v]) :
                             stdout[v][i] = Cut => i = Len(stdout[v]) /\ child'[v].state # "up"
    BY DEF Quiet
  <2>2. CASE v \in ws
    BY <1>2, <2>2
  <2>3. CASE v \notin ws
    BY <1>2, <2>3 DEF Quiet
  <2> QED
    BY <2>2, <2>3
<1>9. ASSUME NEW v \in Workers
      PROVE  Written(v)'
  <2>1. ASSUME NEW j \in 1..Len(soon'), soon'[j][1] = v
        PROVE  /\ soon'[j][2].kind = "handshake" /\ child'[v].first /\ stdin[v] = <<>>
               /\ \A i \in 1..(j - 1) : soon'[i][1] # v
    <3>1. v \in ws /\ soon'[j][2].kind = "handshake"
      BY <1>3, <1>4, <1>5, <2>1
    <3>2. \A i \in 1..(j - 1) : i \in 1..Len(soon') /\ i # j
      BY <1>3, <1>4
    <3>3. \A i \in 1..(j - 1) : soon'[i][1] # v
      BY <1>3, <1>4, <2>1, <3>2
    <3>4. child'[v].first /\ stdin[v] = <<>>
      BY <1>2, <3>1
    <3> QED
      BY <3>1, <3>3, <3>4
  <2>2. \A j \in 1..Len(stdin[v]) :
          /\ stdin[v][j].kind \in {"handshake", "tuple", "ids"}
          /\ stdin[v][j].kind = "handshake" => child'[v].first /\ j = 1
    BY <1>2 DEF Written
  <2> QED
    BY <2>1, <2>2 DEF Written
<1>10. Ordered'
  <2>1. \A v, d : GivenTo(v, d)' <=> GivenTo(v, d)
    BY <1>1 DEF GivenTo
  <2>2. \A v \in Workers : GotInOrder(v)' /\ InInOrder(v)' /\ SoonInOrder(v)'
    BY <1>3, <1>4, <1>5, <2>1, OrderGrows
  <2>3. WaitsInOrder'
    BY <1>1, <2>1 DEF Ordered, WaitsInOrder
  <2> QED
    BY <2>2, <2>3 DEF Ordered
<1>11. \A v \in Workers : \A e : (Got(v, e)' <=> Got(v, e)) /\ Coming(v, e)' = Coming(v, e)
  BY DEF Got, Coming
<1>12. \A v \in Workers : child'[v].work \subseteq child[v].work
  BY <1>2
<1>13. AnswersLast'
  <2>1. SUFFICES ASSUME NEW v \in Workers
                 PROVE  /\ \A e \in child'[v].work : Got(v, e)
                        /\ \A i \in 1..Len(stdout[v]) : Answer(stdout[v][i]) =>
                             /\ Got(v, stdout[v][i].entry) /\ stdout[v][i].entry \notin child'[v].work
                             /\ \A j \in 1..Len(stdout[v]) : stdout[v][j].entry = stdout[v][i].entry /\ i < j =>
                                  stdout[v][j].kind # "emit" /\ ~Answer(stdout[v][j])
    BY <1>11 DEF AnswersLast
  <2> QED
    BY <1>12 DEF AnswersLast
<1>14. HaveEntry'
  <2>1. SUFFICES ASSUME phase = "up", NEW v \in Workers
                 PROVE  /\ child'[v].work \subseteq prmap
                        /\ \A i \in 1..Len(stdin[v]) : TupleIn(v, i) => stdin[v][i].entry \in prmap
                        /\ \A i \in 1..Len(stdout[v]) : Answer(stdout[v][i]) => stdout[v][i].entry \in prmap
                        /\ \A i \in 1..Len(soon') : ~TupleSoon(v, i)'
    BY <1>1 DEF HaveEntry, TupleIn
  <2>2. \A i \in 1..Len(soon') : ~TupleSoon(v, i)'
    BY <1>4, <1>5 DEF TupleSoon
  <2> QED
    BY <1>12, <2>1, <2>2 DEF HaveEntry
<1>15. EmitsCounted'
  <2>1. ASSUME NEW e \in Entries, NEW v \in Workers, v = calls[e].worker
        PROVE  EmitsOf(v, e)' /\ ResultOf(v, e)'
    <3>1. InHand(v, e)' => InHand(v, e)
      BY <1>12 DEF InHand
    <3> QED
      BY <1>1, <1>11, <1>12, <2>1, <3>1 DEF EmitsCounted, EmitsOf, ResultOf
  <2>2. ASSUME NEW e \in Entries
        PROVE  EmitsOf(calls[e].worker, e)' /\ ResultOf(calls[e].worker, e)'
    <3>1. PICK v \in Workers : v = calls[e].worker
      BY DEF WorkersTypeOK, Call
    <3> QED
      BY <1>1, <2>1, <3>1
  <2> QED
    BY <1>11, <2>2 DEF EmitsCounted
<1> QED
  BY <1>6, <1>7, <1>8, <1>9, <1>10, <1>13, <1>14, <1>15

LEMMA StartKeeps ==
  ASSUME WorkersInv, Start
  PROVE  WorkersInv'
<1>1. soon = <<>> /\ \A w \in Workers : child[w].state = "none" /\ stdin[w] = <<>> /\ stdout[w] = <<>>
  BY DEF WorkersInv, Known, Quiet, Start
<1>2. restart' = restart /\ restart \cap Workers = {}
  BY <1>1 DEF WorkersInv, Quiet, Start
<1> QED
  BY <1>1, <1>2, SpawnKeeps DEF Start

LEMMA RestartKeeps ==
  ASSUME WorkersInv, NEW w \in Workers, Restart(w)
  PROVE  WorkersInv'
<1> USE DEF WorkersInv
<1>1. /\ soon = <<>> /\ w \in restart /\ restart' = restart \ {w} /\ phase' = phase
      /\ UNCHANGED <<bound, exits, emits, stdin, stdout, got, made, handled, ready, callVars, pushed, crashed>>
  BY DEF Restart
<1>2. /\ child[w].state = "closed" /\ stdin[w] = <<>> /\ stdout[w] = <<>>
      /\ phase \in {"starting", "up", "stopped"}
  BY <1>1 DEF Quiet, Known, WorkersTypeOK
<1>3. CASE phase # "stopped"
  <2>1. Spawned({w}) /\ Handshakes({w})
    BY <1>3 DEF Restart
  <2> QED
    BY <1>1, <1>2, <2>1, SpawnKeeps
<1>4. CASE phase = "stopped"
  <2>1. /\ UNCHANGED <<child, closed, begun, soon, calls, prmap, emit, results, answers>>
    BY <1>1, <1>4 DEF Restart, callVars
  <2>2. WorkersTypeOK' /\ IdsEmitted'
    BY <1>1, <2>1 DEF WorkersTypeOK, BoltTypeOK, IdsEmitted
  <2>3. Known' /\ Quiet'
    BY <1>1, <2>1 DEF Known, Quiet
  <2>4. \A v \in Workers : Written(v)'
    BY <1>1, <2>1 DEF Written
  <2>5. Ordered'
    BY <1>1, <2>1, OrderedFewer DEF Fewer
  <2>6. AnswersLast' /\ HaveEntry'
    BY <1>1, <1>4, <2>1 DEF AnswersLast, HaveEntry, Got
  <2>7. EmitsCounted'
    <3>1. \A v \in Workers : Shorter(stdout[v], stdout[v])
      BY ShorterSame DEF WorkersTypeOK, BoltTypeOK
    <3> QED
      BY <1>1, <2>1, <2>2, <3>1, EmitsFewer
  <2> QED
    BY <1>1, <2>2, <2>3, <2>4, <2>5, <2>6, <2>7
<1> QED
  BY <1>3, <1>4

(* A message is written to its worker, or to nobody.                       *)
LEMMA SendKeeps ==
  ASSUME WorkersInv, Send
  PROVE  WorkersInv'
<1> USE DEF WorkersInv
<1>1. /\ UNCHANGED <<bound, exits, emits, child, stdout, got, made, phase, handled, ready,
                     closed, restart, begun, pushed, crashed>>
      /\ UNCHANGED <<calls, prmap, emit, results, answers>>
      /\ soon # <<>> /\ soon' = Tail(soon)
  BY DEF Send, callVars
<1>2. /\ soon \in Seq(Workers \X Messages) /\ stdin \in [Workers -> Seq(Messages)]
  BY DEF WorkersTypeOK, BoltTypeOK
<1>3. /\ soon' \in Seq(Workers \X Messages) /\ 1 \in 1..Len(soon)
      /\ soon[1] \in Workers \X Messages
      /\ \A i \in 1..Len(soon') : i + 1 \in 1..Len(soon) /\ soon'[i] = soon[i + 1]
  <2> DEFINE P == Workers \X Messages
             s == soon
  <2>1. s \in Seq(P) /\ s # <<>> /\ soon' = Tail(s)
    BY <1>1, <1>2
  <2> HIDE DEF P, s
  <2>2. /\ Tail(s) \in Seq(P) /\ 1 \in 1..Len(s) /\ Head(s) = s[1] /\ Head(s) \in P
        /\ \A i \in 1..Len(Tail(s)) : i + 1 \in 1..Len(s) /\ Tail(s)[i] = s[i + 1]
    BY <2>1, TailElements
  <2> QED
    BY <2>1, <2>2 DEF P, s
<1>4. PICK w \in Workers, m \in Messages : w = soon[1][1] /\ m = soon[1][2]
  BY <1>3
<1>5. stdin' = IF closed[w] \/ child[w].state # "up" THEN stdin
               ELSE [stdin EXCEPT ![w] = Append(@, m)]
  BY <1>4 DEF Send
<1>6. /\ stdin' \in [Workers -> Seq(Messages)]
      /\ \A v \in Workers : \A i \in 1..Len(stdin'[v]) :
           \/ i \in 1..Len(stdin[v]) /\ stdin'[v][i] = stdin[v][i]
           \/ /\ v = w /\ i = Len(stdin[w]) + 1 /\ stdin'[v][i] = m
              /\ child[w].state = "up" /\ ~closed[w]
      /\ \A v \in Workers : (v = w /\ child[w].state = "up") \/ stdin'[v] = stdin[v]
      /\ \A v \in Workers : Len(stdin[v]) \in Nat
  <2>1. CASE closed[w] \/ child[w].state # "up"
    BY <1>2, <1>5, <2>1
  <2>2. CASE ~(closed[w] \/ child[w].state # "up")
    <3> DEFINE s == stdin[w]
               u == Append(s, m)
    <3>1. s \in Seq(Messages) /\ stdin' = [stdin EXCEPT ![w] = u]
      BY <1>2, <1>5, <2>2
    <3>2. /\ u \in Seq(Messages) /\ Len(s) \in Nat
          /\ \A i \in 1..Len(s) : u[i] = s[i]
          /\ u[Len(s) + 1] = m
          /\ \A i \in 1..Len(u) : i \in 1..Len(s) \/ i = Len(s) + 1
      BY <3>1, AppendElements
    <3> HIDE DEF u
    <3>3. stdin'[w] = u /\ stdin' \in [Workers -> Seq(Messages)]
          /\ \A v \in Workers : v # w => stdin'[v] = stdin[v]
      BY <1>2, <3>1, <3>2
    <3> QED
      BY <1>2, <2>2, <3>2, <3>3
  <2> QED
    BY <2>1, <2>2
<1>7. WorkersTypeOK' /\ IdsEmitted'
  <2>1. BoltTypeOK'
    BY <1>1, <1>6 DEF WorkersTypeOK, BoltTypeOK
  <2> QED
    BY <1>1, <1>3, <2>1 DEF WorkersTypeOK, IdsEmitted
<1>8. Known'
  <2>1. phase \notin {"off", "unused"}
    BY <1>1 DEF Known
  <2> QED
    BY <1>1, <2>1, KnownKept
<1>9. Quiet'
  BY <1>1, <1>6 DEF Quiet
<1>10. ASSUME NEW v \in Workers
       PROVE  Written(v)'
  <2>0. /\ \A j \in 1..Len(stdin[v]) :
             /\ stdin[v][j].kind \in {"handshake", "tuple", "ids"}
             /\ stdin[v][j].kind = "handshake" => child[v].first /\ j = 1
        /\ \A j \in 1..Len(soon) : soon[j][1] = v =>
             /\ soon[j][2].kind \in {"handshake", "tuple", "ids"}
             /\ soon[j][2].kind = "handshake" =>
                  /\ child[v].first /\ stdin[v] = <<>>
                  /\ \A i \in 1..(j - 1) : soon[i][1] # v
    BY DEF Written
  <2>1. ASSUME NEW j \in 1..Len(stdin'[v])
        PROVE  /\ stdin'[v][j].kind \in {"handshake", "tuple", "ids"}
               /\ stdin'[v][j].kind = "handshake" => child[v].first /\ j = 1
    <3>1. CASE j \in 1..Len(stdin[v]) /\ stdin'[v][j] = stdin[v][j]
      BY <2>0, <3>1
    <3>2. CASE v = w /\ j = Len(stdin[w]) + 1 /\ stdin'[v][j] = m
      <4>1. /\ m.kind \in {"handshake", "tuple", "ids"}
            /\ m.kind = "handshake" => child[v].first /\ stdin[v] = <<>>
        BY <1>3, <1>4, <2>0, <3>2
      <4>2. stdin[v] = <<>> => j = 1
        BY <3>2
      <4> QED
        BY <3>2, <4>1, <4>2
    <3> QED
      BY <1>6, <3>1, <3>2
  <2>2. ASSUME NEW j \in 1..Len(soon'), soon'[j][1] = v
        PROVE  /\ soon'[j][2].kind \in {"handshake", "tuple", "ids"}
               /\ soon'[j][2].kind = "handshake" =>
                    /\ child[v].first /\ stdin'[v] = <<>>
                    /\ \A i \in 1..(j - 1) : soon'[i][1] # v
    <3>1. j + 1 \in 1..Len(soon) /\ soon'[j] = soon[j + 1]
      BY <1>3
    <3>2. /\ soon[j + 1][2].kind \in {"handshake", "tuple", "ids"}
          /\ soon[j + 1][2].kind = "handshake" =>
               /\ child[v].first /\ stdin[v] = <<>>
               /\ \A i \in 1..((j + 1) - 1) : soon[i][1] # v
      BY <2>0, <2>2, <3>1
    <3>3. ASSUME soon'[j][2].kind = "handshake"
          PROVE  /\ child[v].first /\ stdin'[v] = <<>>
                 /\ \A i \in 1..(j - 1) : soon'[i][1] # v
      <4>1. /\ child[v].first /\ stdin[v] = <<>>
            /\ \A i \in 1..((j + 1) - 1) : soon[i][1] # v
        BY <3>1, <3>2, <3>3
      <4>2. 1 \in 1..((j + 1) - 1)
        OBVIOUS
      <4>3. v # w
        BY <1>4, <4>1, <4>2
      <4>4. \A i \in 1..(j - 1) : i + 1 \in 1..((j + 1) - 1) /\ i \in 1..Len(soon')
        BY <3>1
      <4>5. \A i \in 1..(j - 1) : soon'[i] = soon[i + 1]
        BY <1>3, <4>4
      <4>6. \A i \in 1..(j - 1) : soon'[i][1] # v
        BY <4>1, <4>4, <4>5
      <4>7. stdin'[v] = <<>>
        BY <1>6, <4>1, <4>3
      <4> QED
        BY <4>1, <4>6, <4>7
    <3> QED
      BY <3>1, <3>2, <3>3
  <2> QED
    BY <1>1, <2>1, <2>2 DEF Written
<1>11. /\ \A v, e : GivenTo(v, e)' <=> GivenTo(v, e)
       /\ \A v, e : Got(v, e)' <=> Got(v, e)
       /\ \A v, e : Coming(v, e)' = Coming(v, e) /\ (InHand(v, e)' <=> InHand(v, e))
  BY <1>1 DEF GivenTo, Got, Coming, InHand
<1>12. /\ m.kind = "tuple" => TupleSoon(w, 1)
       /\ \A v \in Workers : \A i : TupleIn(v, i)' =>
            \/ i \in 1..Len(stdin[v]) /\ TupleIn(v, i) /\ stdin'[v][i] = stdin[v][i]
            \/ /\ v = w /\ i = Len(stdin[w]) + 1 /\ stdin'[v][i] = m
               /\ m.kind = "tuple" /\ ~closed[w]
       /\ \A v \in Workers : \A i : TupleSoon(v, i)' =>
            /\ i \in 1..Len(soon') /\ i + 1 \in 1..Len(soon) /\ TupleSoon(v, i + 1)
            /\ soon'[i] = soon[i + 1] /\ 1 < i + 1
  <2>1. m.kind = "tuple" => TupleSoon(w, 1)
    BY <1>3, <1>4 DEF TupleSoon
  <2>2. ASSUME NEW v \in Workers, NEW i, TupleIn(v, i)'
        PROVE  \/ i \in 1..Len(stdin[v]) /\ TupleIn(v, i) /\ stdin'[v][i] = stdin[v][i]
               \/ /\ v = w /\ i = Len(stdin[w]) + 1 /\ stdin'[v][i] = m
                  /\ m.kind = "tuple" /\ ~closed[w]
    BY <1>6, <2>2 DEF TupleIn
  <2>3. ASSUME NEW v \in Workers, NEW i, TupleSoon(v, i)'
        PROVE  /\ i \in 1..Len(soon') /\ i + 1 \in 1..Len(soon) /\ TupleSoon(v, i + 1)
               /\ soon'[i] = soon[i + 1] /\ 1 < i + 1
    BY <1>3, <2>3 DEF TupleSoon
  <2> QED
    BY <2>1, <2>2, <2>3
<1>13. ASSUME NEW v \in Workers
       PROVE  GotInOrder(v)' /\ InInOrder(v)' /\ SoonInOrder(v)'
  <2>1. GotInOrder(v) /\ InInOrder(v) /\ SoonInOrder(v)
    BY DEF Ordered
  <2>2. v = w /\ m.kind = "tuple" =>
          /\ m.entry \in Entries /\ GivenTo(v, m.entry)
          /\ \A j \in 1..Len(soon) : 1 < j /\ TupleSoon(v, j) => m.entry < soon[j][2].entry
          /\ \A i \in 1..Len(got[v]) : got[v][i] < m.entry
          /\ \A i \in 1..Len(stdin[v]) : TupleIn(v, i) => stdin[v][i].entry < m.entry
    BY <1>3, <1>4, <1>12, <2>1 DEF GotInOrder, InInOrder, SoonInOrder
  <2>3. GotInOrder(v)'
    <3>1. SUFFICES ASSUME NEW i \in 1..Len(got[v])
                   PROVE  /\ GivenTo(v, got[v][i])
                          /\ \A j \in 1..Len(got[v]) : i < j => got[v][i] < got[v][j]
                          /\ \A j \in 1..Len(stdin'[v]) : TupleIn(v, j)' => got[v][i] < stdin'[v][j].entry
                          /\ \A j \in 1..Len(soon') : TupleSoon(v, j)' => got[v][i] < soon'[j][2].entry
      BY <1>1, <1>11 DEF GotInOrder
    <3> QED
      BY <1>12, <2>1, <2>2 DEF GotInOrder
  <2>4. InInOrder(v)'
    <3>1. SUFFICES ASSUME NEW i \in 1..Len(stdin'[v]), TupleIn(v, i)', NEW x, x = stdin'[v][i].entry
                   PROVE  /\ x \in Entries /\ GivenTo(v, x)
                          /\ \A j \in 1..Len(stdin'[v]) : i < j /\ TupleIn(v, j)' => x < stdin'[v][j].entry
                          /\ \A j \in 1..Len(soon') : TupleSoon(v, j)' => x < soon'[j][2].entry
      BY <1>11 DEF InInOrder
    <3>2. CASE i \in 1..Len(stdin[v]) /\ TupleIn(v, i) /\ stdin'[v][i] = stdin[v][i]
      <4>1. /\ x \in Entries /\ GivenTo(v, x)
            /\ \A j \in 1..Len(stdin[v]) : i < j /\ TupleIn(v, j) => x < stdin[v][j].entry
            /\ \A j \in 1..Len(soon) : TupleSoon(v, j) => x < soon[j][2].entry
            /\ v = w /\ m.kind = "tuple" => x < m.entry
        BY <2>1, <2>2, <3>1, <3>2 DEF InInOrder
      <4> QED
        BY <1>12, <4>1, SMTT(30)
    <3>3. CASE v = w /\ i = Len(stdin[w]) + 1 /\ stdin'[v][i] = m /\ m.kind = "tuple"
      <4>1. \A j \in 1..Len(stdin'[v]) : ~(i < j)
        BY <1>6, <3>3
      <4> QED
        <5>1. x = m.entry /\ x \in Entries /\ GivenTo(v, x)
          BY <2>2, <3>1, <3>3
        <5>2. ASSUME NEW j \in 1..Len(soon'), TupleSoon(v, j)'
              PROVE  x < soon'[j][2].entry
          BY <1>12, <2>2, <3>3, <5>1, <5>2
        <5> QED
          BY <4>1, <5>1, <5>2
    <3> QED
      BY <1>12, <3>1, <3>2, <3>3
  <2>5. SoonInOrder(v)'
    <3>1. SUFFICES ASSUME NEW i \in 1..Len(soon'), TupleSoon(v, i)', NEW x, x = soon'[i][2].entry
                   PROVE  /\ x \in Entries /\ GivenTo(v, x)
                          /\ \A j \in 1..Len(soon') : i < j /\ TupleSoon(v, j)' => x < soon'[j][2].entry
      BY <1>11 DEF SoonInOrder
    <3>2. i + 1 \in 1..Len(soon) /\ TupleSoon(v, i + 1) /\ soon'[i] = soon[i + 1]
      BY <1>12, <3>1
    <3>3. /\ x \in Entries /\ GivenTo(v, x)
          /\ \A j \in 1..Len(soon) : i + 1 < j /\ TupleSoon(v, j) => x < soon[j][2].entry
      BY <2>1, <3>1, <3>2 DEF SoonInOrder
    <3>4. \A j \in 1..Len(soon') : i < j => i + 1 < j + 1
      OBVIOUS
    <3> QED
      BY <1>12, <3>3, <3>4
  <2> QED
    BY <2>3, <2>4, <2>5
<1>14. Ordered'
  <2>1. WaitsInOrder'
    BY <1>1, <1>11 DEF Ordered, WaitsInOrder
  <2> QED
    BY <1>13, <2>1 DEF Ordered
<1>15. AnswersLast'
  BY <1>1, <1>11 DEF AnswersLast
<1>16. HaveEntry'
  <2>1. SUFFICES ASSUME phase = "up", NEW v \in Workers
                 PROVE  /\ child[v].work \subseteq prmap
                        /\ \A i \in 1..Len(stdin'[v]) : TupleIn(v, i)' => stdin'[v][i].entry \in prmap
                        /\ \A i \in 1..Len(stdout[v]) : Answer(stdout[v][i]) => stdout[v][i].entry \in prmap
                        /\ \A i \in 1..Len(soon') : TupleSoon(v, i)' /\ ~closed[v] => soon'[i][2].entry \in prmap
    BY <1>1 DEF HaveEntry
  <2>2. /\ child[v].work \subseteq prmap
        /\ \A i \in 1..Len(stdin[v]) : TupleIn(v, i) => stdin[v][i].entry \in prmap
        /\ \A i \in 1..Len(stdout[v]) : Answer(stdout[v][i]) => stdout[v][i].entry \in prmap
        /\ \A i \in 1..Len(soon) : TupleSoon(v, i) /\ ~closed[v] => soon[i][2].entry \in prmap
    BY <2>1 DEF HaveEntry
  <2>3. v = w /\ m.kind = "tuple" /\ ~closed[w] => m.entry \in prmap
    BY <1>3, <1>4, <1>12, <2>2
  <2> QED
    BY <1>12, <2>2, <2>3
<1>17. EmitsCounted'
  <2>1. ASSUME NEW e \in Entries, NEW v \in Workers, v = calls[e].worker
        PROVE  EmitsOf(v, e)' /\ ResultOf(v, e)'
    BY <1>1, <1>11, <2>1 DEF EmitsCounted, EmitsOf, ResultOf
  <2>2. ASSUME NEW e \in Entries
        PROVE  EmitsOf(calls[e].worker, e)' /\ ResultOf(calls[e].worker, e)'
    <3>1. PICK v \in Workers : v = calls[e].worker
      BY DEF WorkersTypeOK, Call
    <3> QED
      BY <1>1, <2>1, <3>1
  <2> QED
    BY <1>1, <1>11, <2>2 DEF EmitsCounted
<1> QED
  BY <1>1, <1>7, <1>8, <1>9, <1>10, <1>14, <1>15, <1>16, <1>17

(* process(): the entries are called in their order.                       *)
LEMMA ProcessKeeps ==
  ASSUME WorkersInv, NEW e \in Entries, Process(e)
  PROVE  WorkersInv'
<1> USE DEF WorkersInv
<1>1. /\ calls[e].state = "none" /\ phase \in {"up", "stopped"}
      /\ \A d \in 1..(e - 1) : calls[d].state # "none"
      /\ UNCHANGED <<bound, exits, childVars, phase, handled, ready, closed, restart, begun,
                     emit, results, answers, pushed, crashed>>
  BY DEF Process, NextEntry
<1>2. UNCHANGED <<child, stdin, stdout, emits, got, made>>
  BY <1>1 DEF childVars
<1>3. PICK w \in Workers, state \in {"ignored", "given", "waits"} :
        /\ bound.group => w = Group[e]
        /\ state # "ignored" => (state = "given" <=> ready[w].done)
        /\ calls' = [calls EXCEPT ![e] = [state |-> state, worker |-> w, promise |-> ready[w].made]]
        /\ IF state = "given"
           THEN prmap' = prmap \cup {e} /\ soon' = Append(soon, <<w, Message("tuple", e)>>)
           ELSE UNCHANGED <<prmap, soon>>
  <2>1. PICK w \in IF bound.group THEN {Group[e]} ELSE Workers :
          LET state == IF phase = "stopped" THEN "ignored"
                       ELSE IF ready[w].done THEN "given" ELSE "waits"
          IN /\ calls' = [calls EXCEPT ![e] = [state |-> state, worker |-> w, promise |-> ready[w].made]]
             /\ IF state = "given"
                THEN prmap' = prmap \cup {e} /\ soon' = Append(soon, <<w, Message("tuple", e)>>)
                ELSE UNCHANGED <<prmap, soon>>
    BY DEF Process
  <2>2. w \in Workers /\ (bound.group => w = Group[e])
    BY <2>1, EntriesTypes
  <2>3. PICK state : state = IF phase = "stopped" THEN "ignored"
                             ELSE IF ready[w].done THEN "given" ELSE "waits"
    OBVIOUS
  <2>4. /\ state \in {"ignored", "given", "waits"}
        /\ state # "ignored" => (state = "given" <=> ready[w].done)
    BY <2>3
  <2> QED
    BY <2>1, <2>2, <2>3, <2>4
<1>4. /\ calls \in [Entries -> Call] /\ ready \in [Workers -> [made : Nat, done : BOOLEAN]]
      /\ soon \in Seq(Workers \X Messages) /\ prmap \subseteq Entries
  BY DEF WorkersTypeOK
<1>5. /\ calls' \in [Entries -> Call]
      /\ calls'[e].state = state /\ calls'[e].worker = w /\ calls'[e].promise = ready[w].made
      /\ \A d \in Entries : d # e => calls'[d] = calls[d]
  <2> DEFINE c == [state |-> state, worker |-> w, promise |-> ready[w].made]
  <2>1. c \in Call /\ c.state = state /\ c.worker = w /\ c.promise = ready[w].made
    BY <1>4 DEF Call
  <2>2. calls' = [calls EXCEPT ![e] = c]
    BY <1>3
  <2> HIDE DEF c
  <2> QED
    BY <1>4, <2>1, <2>2
<1>6. PICK t : /\ t \in Seq(Workers \X Messages) /\ soon' = soon \o t
               /\ state # "given" => t = <<>>
               /\ \A i \in 1..Len(t) :
                    /\ i = 1 /\ Len(t) = 1 /\ state = "given"
                    /\ t[i][1] = w /\ t[i][2].kind = "tuple" /\ t[i][2].entry = e
  <2>1. PICK x \in Workers \X Messages : x = <<w, Message("tuple", e)>>
    BY MessageTypes, EntriesTypes
  <2> DEFINE P == Workers \X Messages
  <2>2. soon \in Seq(P) /\ x \in P
    BY <1>4
  <2> HIDE DEF P
  <2>3. CASE state = "given"
    <3>1. soon' = Append(soon, x)
      BY <1>3, <2>1, <2>3
    <3>2. soon' = soon \o <<x>> /\ <<x>> \in Seq(P) /\ Len(<<x>>) = 1 /\ <<x>>[1] = x
      BY <2>2, <3>1, AppendsOne
    <3>3. x[1] = w /\ x[2].kind = "tuple" /\ x[2].entry = e
      BY <2>1, MessageTypes
    <3> DEFINE u == <<x>>
    <3>4. u \in Seq(P) /\ soon' = soon \o u /\ Len(u) = 1 /\ u[1] = x
      BY <3>2
    <3> HIDE DEF u
    <3>5. \A i \in 1..Len(u) : i = 1 /\ u[i] = x
      BY <3>4
    <3> QED
      BY <2>3, <3>3, <3>4, <3>5 DEF P
  <2>4. CASE state # "given"
    <3>1. PICK u : u = <<>>
      OBVIOUS
    <3>2. soon' = soon \o u /\ u \in Seq(P) /\ \A i \in 1..Len(u) : FALSE
      BY <1>3, <2>2, <2>4, <3>1
    <3> QED
      BY <2>4, <3>1, <3>2 DEF P
  <2> QED
    BY <2>3, <2>4
<1>7. WorkersTypeOK' /\ IdsEmitted'
  <2>1. BoltTypeOK'
    BY <1>1, <1>2 DEF WorkersTypeOK, BoltTypeOK
  <2>2. soon' \in Seq(Workers \X Messages)
    BY <1>4, <1>6, ConcatElements
  <2>3. prmap' \subseteq Entries
    BY <1>3, <1>4
  <2> QED
    BY <1>1, <1>2, <1>5, <2>1, <2>2, <2>3 DEF WorkersTypeOK, IdsEmitted
<1>8. Known'
  <2>1. prmap' = {d \in Entries : calls'[d].state = "given"}
    BY <1>1, <1>3, <1>5 DEF Known
  <2>2. \A d \in Entries : answers'[d] = IF calls'[d].state = "answered" THEN 1 ELSE 0
    BY <1>1, <1>3, <1>5 DEF Known
  <2>3. ASSUME NEW a \in Entries, NEW b \in Entries, calls'[a].state = "none", a < b
        PROVE  calls'[b].state = "none"
    <3>1. a # e /\ calls[a].state = "none"
      BY <1>3, <1>5, <2>3
    <3>2. ~(a < e)
      BY <1>1, <3>1, EntriesTypes DEF Entries
    <3>3. b # e
      BY <2>3, <3>1, <3>2, EntriesTypes
    <3> QED
      BY <1>5, <2>3, <3>1, <3>3 DEF Known
  <2>4. bound.group => \A d \in Entries : calls'[d].worker = Group[d]
    BY <1>3, <1>5 DEF Known
  <2> QED
    BY <1>1, <2>1, <2>2, <2>3, <2>4 DEF Known
<1>9. Quiet'
  BY <1>1, <1>2 DEF Quiet
<1>10. \A v \in Workers : Written(v)'
  <2>1. \A i \in 1..Len(t) : t[i][2].kind \in {"tuple", "ids"}
    BY <1>6
  <2> QED
    BY <1>2, <1>6, <2>1, WrittenGrows
<1>11. /\ \A v, d : GivenTo(v, d)' <=> GivenTo(v, d) \/ (v = w /\ d = e /\ state = "given")
       /\ \A v : ~GivenTo(v, e)
       /\ \A v, d : GivenTo(v, d) => d < e
  <2>1. \A v : ~GivenTo(v, e)
    BY <1>1 DEF GivenTo
  <2>2. ASSUME NEW v, NEW d, GivenTo(v, d)
        PROVE  d < e
    <3>1. d \in Entries /\ calls[d].state # "none"
      BY <2>2 DEF GivenTo
    <3>2. ~(e < d) /\ d # e
      BY <1>1, <3>1 DEF Known
    <3> QED
      BY <3>1, <3>2, EntriesTypes
  <2>3. \A v, d : GivenTo(v, d)' <=> GivenTo(v, d) \/ (v = w /\ d = e /\ state = "given")
    BY <1>3, <1>5, <2>1 DEF GivenTo
  <2> QED
    BY <2>1, <2>2, <2>3
<1>12. Ordered'
  <2>1. \A i \in 1..Len(t) : t[i][2].kind = "tuple" =>
          /\ t[i][2].entry \in Entries /\ GivenTo(t[i][1], t[i][2].entry)'
          /\ \A d : GivenTo(t[i][1], d) => d < t[i][2].entry
          /\ \A j \in 1..Len(t) : i < j /\ t[j][2].kind = "tuple" /\ t[j][1] = t[i][1] =>
               t[i][2].entry < t[j][2].entry
    <3>1. SUFFICES ASSUME NEW i \in 1..Len(t)
                   PROVE  /\ GivenTo(w, e)' /\ \A d : GivenTo(w, d) => d < e
                          /\ \A j \in 1..Len(t) : ~(i < j)
      BY <1>6
    <3> QED
      BY <1>6, <1>11
  <2>2. \A v \in Workers : GotInOrder(v)' /\ InInOrder(v)' /\ SoonInOrder(v)'
    BY <1>2, <1>6, <1>11, <2>1, OrderGrows
  <2>3. WaitsInOrder'
    <3>1. SUFFICES ASSUME NEW d \in Entries, calls'[d].state = "waits",
                          NEW v \in Workers, v = calls'[d].worker
                   PROVE  /\ calls'[d].promise <= ready[v].made
                          /\ calls'[d].promise = ready[v].made =>
                               ~ready[v].done /\ \A f \in Entries : GivenTo(v, f)' => f < d
      BY <1>1, <1>5 DEF WaitsInOrder, Call
    <3>2. CASE d = e
      <4>1. v = w /\ state = "waits" /\ calls'[d].promise = ready[w].made
        BY <1>5, <3>1, <3>2
      <4>2. ~ready[v].done /\ \A f \in Entries : GivenTo(v, f)' => f < d
        BY <1>3, <1>11, <3>2, <4>1
      <4>3. ready[w].made \in Nat
        BY <1>4
      <4> QED
        BY <4>1, <4>2, <4>3
    <3>3. CASE d # e
      <4>1. /\ calls'[d] = calls[d] /\ calls[d].promise <= ready[v].made
            /\ calls[d].promise = ready[v].made =>
                 ~ready[v].done /\ \A f \in Entries : GivenTo(v, f) => f < d
        BY <1>5, <3>1, <3>3 DEF Ordered, WaitsInOrder
      <4>2. calls[d].promise = ready[v].made => ~(v = w /\ state = "given")
        BY <1>3, <4>1
      <4> QED
        BY <1>11, <4>1, <4>2
    <3> QED
      BY <3>2, <3>3
  <2> QED
    BY <2>2, <2>3 DEF Ordered
<1>13. \A v, d : (Got(v, d)' <=> Got(v, d)) /\ Coming(v, d)' = Coming(v, d) /\ (InHand(v, d)' <=> InHand(v, d))
  BY <1>2 DEF Got, Coming, InHand
<1>14. AnswersLast'
  BY <1>2, <1>13 DEF AnswersLast
<1>15. HaveEntry'
  <2>1. SUFFICES ASSUME phase = "up", NEW v \in Workers
                 PROVE  /\ child[v].work \subseteq prmap'
                        /\ \A i \in 1..Len(stdin[v]) : TupleIn(v, i) => stdin[v][i].entry \in prmap'
                        /\ \A i \in 1..Len(stdout[v]) : Answer(stdout[v][i]) => stdout[v][i].entry \in prmap'
                        /\ \A i \in 1..Len(soon') : TupleSoon(v, i)' /\ ~closed[v] => soon'[i][2].entry \in prmap'
    BY <1>1, <1>2 DEF HaveEntry, TupleIn
  <2>2. /\ child[v].work \subseteq prmap
        /\ \A i \in 1..Len(stdin[v]) : TupleIn(v, i) => stdin[v][i].entry \in prmap
        /\ \A i \in 1..Len(stdout[v]) : Answer(stdout[v][i]) => stdout[v][i].entry \in prmap
        /\ \A i \in 1..Len(soon) : TupleSoon(v, i) /\ ~closed[v] => soon[i][2].entry \in prmap
    BY <2>1 DEF HaveEntry
  <2>3. prmap \subseteq prmap' /\ (state = "given" => e \in prmap')
    BY <1>3
  <2>4. ASSUME NEW i \in 1..Len(soon'), TupleSoon(v, i)', ~closed[v]
        PROVE  soon'[i][2].entry \in prmap'
    <3> DEFINE P == Workers \X Messages
               s == soon
               u == soon'
    <3>1. s \in Seq(P) /\ t \in Seq(P) /\ u = s \o t /\ i \in 1..Len(u)
      BY <1>4, <1>6
    <3> HIDE DEF P, s, u
    <3>2. \/ i \in 1..Len(s) /\ u[i] = s[i]
          \/ \E k \in 1..Len(t) : u[i] = t[k]
      BY <3>1, GrownElement
    <3>3. CASE i \in 1..Len(s) /\ u[i] = s[i]
      BY <2>2, <2>3, <2>4, <3>3 DEF TupleSoon, s, u
    <3>4. CASE \E k \in 1..Len(t) : u[i] = t[k]
      BY <1>6, <2>3, <3>4 DEF u
    <3> QED
      BY <3>2, <3>3, <3>4
  <2> QED
    BY <2>2, <2>3, <2>4
<1>16. EmitsCounted'
  <2>1. ASSUME NEW d \in Entries, NEW v \in Workers, v = calls[d].worker, d # e
        PROVE  EmitsOf(v, d)' /\ ResultOf(v, d)'
    BY <1>1, <1>2, <1>13, <2>1 DEF EmitsCounted, EmitsOf, ResultOf
  <2>2. EmitsOf(w, e)' /\ ResultOf(w, e)'
    <3>1. PICK v \in Workers : v = calls[e].worker
      BY <1>4 DEF Call
    <3>2. \A x \in Workers : ~Got(x, e)
      BY <1>11 DEF Got, Ordered, GotInOrder
    <3>3. /\ made[e] = 0 /\ emit[e] + Coming(v, e) <= 0 /\ results[e] = 0
          /\ emit[e] \in Nat /\ Coming(v, e) \in Nat
      BY <3>1, <3>2, OccursType DEF EmitsCounted, EmitsOf, ResultOf, Coming, WorkersTypeOK, BoltTypeOK
    <3>4. Coming(w, e) = 0
      <4>1. SUFFICES ASSUME NEW i \in 1..Len(stdout[w]), stdout[w][i] = Message("emit", e)
                     PROVE  FALSE
        BY OccursNone DEF Coming
      <4>2. stdout[w][i].kind = "emit" /\ stdout[w][i].entry = e /\ e # 0
        BY <4>1, MessageTypes, EntriesTypes
      <4> QED
        BY <3>2, <4>2 DEF EmitsCounted
    <3>5. ~InHand(w, e)
      BY <3>2 DEF InHand, AnswersLast
    <3> QED
      BY <1>1, <1>2, <1>13, <3>2, <3>3, <3>4, <3>5 DEF EmitsOf, ResultOf
  <2>3. ASSUME NEW d \in Entries
        PROVE  EmitsOf(calls[d].worker, d)' /\ ResultOf(calls[d].worker, d)'
    <3>1. CASE d = e
      BY <1>5, <2>2, <3>1
    <3>2. CASE d # e
      <4>1. PICK v \in Workers : v = calls[d].worker
        BY <1>4 DEF Call
      <4> QED
        BY <1>5, <2>1, <3>2, <4>1
    <3> QED
      BY <3>1, <3>2
  <2> QED
    BY <1>2, <1>13, <2>3 DEF EmitsCounted
<1> QED
  BY <1>1, <1>7, <1>8, <1>9, <1>10, <1>12, <1>14, <1>15, <1>16

(* Entries that are called back without a result.                          *)
LEMMA CallBackEffect ==
  ASSUME WorkersInv, NEW es \in SUBSET prmap,
         \/ CallBack(es, FALSE)
         \/ es = {} /\ UNCHANGED <<calls, prmap, results, answers>>
  PROVE  /\ calls' \in [Entries -> Call] /\ answers' \in [Entries -> Nat] /\ results' = results
         /\ prmap' = prmap \ es /\ prmap' \subseteq Entries
         /\ \A e \in Entries :
              /\ calls'[e].worker = calls[e].worker /\ calls'[e].promise = calls[e].promise
              /\ calls'[e].state = IF e \in es THEN "answered" ELSE calls[e].state
              /\ calls'[e].state = "none" <=> calls[e].state = "none"
              /\ calls'[e].state = "waits" <=> calls[e].state = "waits"
              /\ answers'[e] = IF calls'[e].state = "answered" THEN 1 ELSE 0
         /\ prmap' = {e \in Entries : calls'[e].state = "given"}
         /\ \A v, d : GivenTo(v, d)' <=> GivenTo(v, d)
<1> USE DEF WorkersInv
<1>1. /\ calls \in [Entries -> Call] /\ answers \in [Entries -> Nat] /\ results \in [Entries -> Nat]
      /\ prmap = {e \in Entries : calls[e].state = "given"} /\ es \subseteq prmap
      /\ \A e \in Entries : answers[e] = IF calls[e].state = "answered" THEN 1 ELSE 0
  BY DEF WorkersTypeOK, Known
<1>2. /\ calls' = [e \in Entries |-> IF e \in es THEN [calls[e] EXCEPT !.state = "answered"] ELSE calls[e]]
      /\ prmap' = prmap \ es
      /\ answers' = [e \in Entries |-> IF e \in es THEN answers[e] + 1 ELSE answers[e]]
      /\ results' = results
  <2>1. CASE CallBack(es, FALSE)
    BY <1>1, <2>1 DEF CallBack, Deleted
  <2>2. CASE es = {} /\ UNCHANGED <<calls, prmap, results, answers>>
    BY <1>1, <2>2
  <2> QED
    BY <2>1, <2>2
<1>3. /\ calls' \in [Entries -> Call]
      /\ \A e \in Entries :
           /\ calls'[e].worker = calls[e].worker /\ calls'[e].promise = calls[e].promise
           /\ calls'[e].state = IF e \in es THEN "answered" ELSE calls[e].state
  BY <1>1, <1>2 DEF Call
<1>4. \A e \in Entries : e \in es => calls[e].state = "given" /\ answers[e] = 0
  BY <1>1
<1>5. /\ answers' \in [Entries -> Nat]
      /\ \A e \in Entries : answers'[e] = IF calls'[e].state = "answered" THEN 1 ELSE 0
  BY <1>1, <1>2, <1>3, <1>4
<1>6. \A e \in Entries :
        /\ calls'[e].state = "none" <=> calls[e].state = "none"
        /\ calls'[e].state = "waits" <=> calls[e].state = "waits"
  BY <1>3, <1>4
<1>7. prmap' = {e \in Entries : calls'[e].state = "given"} /\ prmap' \subseteq Entries
  BY <1>1, <1>2, <1>3
<1>8. \A v, d : GivenTo(v, d)' <=> GivenTo(v, d)
  BY <1>3, <1>4 DEF GivenTo
<1> QED
  BY <1>2, <1>3, <1>5, <1>6, <1>7, <1>8

(* A promise that is made later is the last one.                           *)
LEMMA WaitsKept ==
  ASSUME WorkersInv, calls' \in [Entries -> Call],
         ready' \in [Workers -> [made : Nat, done : BOOLEAN]],
         \A e \in Entries :
           /\ calls'[e].worker = calls[e].worker /\ calls'[e].promise = calls[e].promise
           /\ calls'[e].state = "waits" <=> calls[e].state = "waits",
         \A v, d : GivenTo(v, d)' <=> GivenTo(v, d),
         \A v \in Workers : ready'[v] = ready[v] \/ ready'[v].made = ready[v].made + 1
  PROVE  WaitsInOrder'
<1> USE DEF WorkersInv
<1>1. SUFFICES ASSUME NEW d \in Entries, calls'[d].state = "waits",
                      NEW v \in Workers, v = calls'[d].worker
               PROVE  /\ calls'[d].promise <= ready'[v].made
                      /\ calls'[d].promise = ready'[v].made =>
                           ~ready'[v].done /\ \A f \in Entries : GivenTo(v, f)' => f < d
  BY DEF WaitsInOrder, Call
<1>2. /\ calls[d].promise <= ready[v].made
      /\ calls[d].promise = ready[v].made =>
           ~ready[v].done /\ \A f \in Entries : GivenTo(v, f) => f < d
  BY <1>1 DEF Ordered, WaitsInOrder
<1>3. calls[d].promise \in Nat /\ ready[v].made \in Nat
  BY DEF WorkersTypeOK, Call
<1>4. CASE ready'[v] = ready[v]
  BY <1>1, <1>2, <1>4
<1>5. CASE ready'[v].made = ready[v].made + 1
  BY <1>1, <1>2, <1>3, <1>5
<1> QED
  BY <1>4, <1>5

LEMMA CloseKeeps ==
  ASSUME WorkersInv, NEW w \in Workers, Close(w)
  PROVE  WorkersInv'
<1> USE DEF WorkersInv
<1>1. /\ child[w].state = "exited" /\ stdout[w] = <<>>
      /\ child' = [child EXCEPT ![w].state = "closed"] /\ closed' = [closed EXCEPT ![w] = TRUE]
      /\ UNCHANGED <<bound, exits, emits, stdin, stdout, got, made, phase, handled, begun, soon,
                     emit, pushed, crashed>>
  BY DEF Close
<1>2. PICK es \in SUBSET prmap :
        /\ es \subseteq HaveThem(w)
        /\ \/ CallBack(es, FALSE)
           \/ es = {} /\ UNCHANGED <<calls, prmap, results, answers>>
        /\ restart' \in {restart, restart \cup {w}}
        /\ ready' = ready \/ ready' = [ready EXCEPT ![w] = [made |-> @.made + 1, done |-> FALSE]]
  <2>1. CASE ~handled
    <3>1. UNCHANGED <<ready, restart, calls, prmap, results, answers>>
      BY <2>1 DEF Close
    <3>2. PICK es \in SUBSET prmap : es = {}
      OBVIOUS
    <3> QED
      BY <3>1, <3>2
  <2>2. CASE handled /\ child[w].code = 0
    <3>1. /\ UNCHANGED <<restart, calls, prmap, results, answers>>
          /\ ready' = [ready EXCEPT ![w] = [made |-> @.made + 1, done |-> FALSE]]
      BY <2>2 DEF Close
    <3>2. PICK es \in SUBSET prmap : es = {}
      OBVIOUS
    <3> QED
      BY <3>1, <3>2
  <2>3. CASE handled /\ child[w].code # 0
    <3>1. /\ CallBack(HaveThem(w), FALSE) /\ restart' = restart \cup {w}
          /\ ready' = [ready EXCEPT ![w] = [made |-> @.made + 1, done |-> FALSE]]
      BY <2>3 DEF Close
    <3>2. HaveThem(w) \in SUBSET prmap
      BY DEF HaveThem
    <3> QED
      BY <3>1, <3>2
  <2> QED
    BY <2>1, <2>2, <2>3
<1>3. /\ calls' \in [Entries -> Call] /\ answers' \in [Entries -> Nat] /\ results' = results
      /\ prmap' = prmap \ es /\ prmap' \subseteq Entries
      /\ \A e \in Entries :
           /\ calls'[e].worker = calls[e].worker /\ calls'[e].promise = calls[e].promise
           /\ calls'[e].state = IF e \in es THEN "answered" ELSE calls[e].state
           /\ calls'[e].state = "none" <=> calls[e].state = "none"
           /\ calls'[e].state = "waits" <=> calls[e].state = "waits"
           /\ answers'[e] = IF calls'[e].state = "answered" THEN 1 ELSE 0
      /\ prmap' = {e \in Entries : calls'[e].state = "given"}
      /\ \A v, d : GivenTo(v, d)' <=> GivenTo(v, d)
  BY <1>2, CallBackEffect
<1>4. /\ child' \in [Workers -> Child] /\ closed' \in [Workers -> BOOLEAN]
      /\ child'[w].state = "closed" /\ child'[w].work = child[w].work
      /\ child'[w].first = child[w].first /\ child'[w].ids = child[w].ids /\ closed'[w]
      /\ \A v \in Workers : v # w => child'[v] = child[v] /\ closed'[v] = closed[v]
  <2> DEFINE c == [child[w] EXCEPT !.state = "closed"]
  <2>1. child[w] \in Child /\ child \in [Workers -> Child] /\ closed \in [Workers -> BOOLEAN]
    BY DEF WorkersTypeOK, BoltTypeOK
  <2>2. c \in Child
    BY <2>1, ChildField
  <2>3. c.state = "closed" /\ c.work = child[w].work /\ c.first = child[w].first /\ c.ids = child[w].ids
    BY <2>1 DEF Child
  <2>4. child' = [child EXCEPT ![w] = c]
    BY <1>1, <2>1
  <2> HIDE DEF c
  <2> QED
    BY <1>1, <2>1, <2>2, <2>3, <2>4
<1>5. /\ ready' \in [Workers -> [made : Nat, done : BOOLEAN]] /\ restart' \subseteq Workers
      /\ \A v \in Workers : ready'[v] = ready[v] \/ ready'[v].made = ready[v].made + 1
  <2>1. ready \in [Workers -> [made : Nat, done : BOOLEAN]] /\ restart \subseteq Workers
    BY DEF WorkersTypeOK
  <2> DEFINE R == [made : Nat, done : BOOLEAN]
             r == [made |-> ready[w].made + 1, done |-> FALSE]
  <2>2. r \in R /\ r.made = ready[w].made + 1
    BY <2>1
  <2>3. ready' = ready \/ ready' = [ready EXCEPT ![w] = r]
    BY <1>2, <2>1
  <2>4. ready \in [Workers -> R]
    BY <2>1
  <2> HIDE DEF r, R
  <2>5. ready' \in [Workers -> R] /\ \A v \in Workers : ready'[v] = ready[v] \/ (ready'[v] = r /\ v = w)
    BY <2>2, <2>3, <2>4
  <2> QED
    BY <1>2, <2>1, <2>2, <2>5 DEF R
<1>6. WorkersTypeOK' /\ IdsEmitted'
  <2>1. BoltTypeOK'
    BY <1>1, <1>4 DEF WorkersTypeOK, BoltTypeOK
  <2>2. results' \in [Entries -> Nat] /\ emit' \in [Entries -> Nat]
    BY <1>1, <1>3 DEF WorkersTypeOK
  <2> QED
    BY <1>1, <1>3, <1>4, <1>5, <2>1, <2>2 DEF WorkersTypeOK, IdsEmitted
<1>7. Known'
  <2>1. phase \notin {"off", "unused"}
    BY <1>1 DEF Known
  <2> QED
    BY <1>1, <1>3, <2>1 DEF Known
<1>8. Quiet'
  BY <1>1, <1>2, <1>4 DEF Quiet
<1>9. \A v \in Workers : Written(v)'
  BY <1>1, <1>4, WrittenFewer
<1>10. Ordered'
  <2>1. \A v \in Workers : GotInOrder(v)' /\ InInOrder(v)' /\ SoonInOrder(v)'
    BY <1>1, <1>3, OrderFewer DEF Fewer
  <2>2. WaitsInOrder'
    BY <1>3, <1>5, WaitsKept
  <2> QED
    BY <2>1, <2>2 DEF Ordered
<1>11. /\ \A v, d : (Got(v, d)' <=> Got(v, d)) /\ Coming(v, d)' = Coming(v, d)
       /\ \A v \in Workers : child'[v].work = child[v].work
  BY <1>1, <1>4 DEF Got, Coming
<1>12. AnswersLast'
  BY <1>1, <1>11 DEF AnswersLast
<1>13. HaveEntry'
  <2>1. SUFFICES ASSUME phase = "up", NEW v \in Workers
                 PROVE  /\ child[v].work \subseteq prmap'
                        /\ \A i \in 1..Len(stdin[v]) : TupleIn(v, i) => stdin[v][i].entry \in prmap'
                        /\ \A i \in 1..Len(stdout[v]) : Answer(stdout[v][i]) => stdout[v][i].entry \in prmap'
                        /\ \A i \in 1..Len(soon) : TupleSoon(v, i) /\ ~closed'[v] => soon[i][2].entry \in prmap'
    BY <1>1, <1>11 DEF HaveEntry, TupleIn, TupleSoon
  <2>2. CASE v = w
    <3>1. child[w].work = {} /\ stdin[w] = <<>> /\ stdout[w] = <<>> /\ closed'[w]
      BY <1>1, <1>4 DEF Quiet
    <3> QED
      BY <2>2, <3>1
  <2>3. CASE v # w
    <3>1. /\ child[v].work \subseteq prmap
          /\ \A i \in 1..Len(stdin[v]) : TupleIn(v, i) => stdin[v][i].entry \in prmap
          /\ \A i \in 1..Len(stdout[v]) : Answer(stdout[v][i]) => stdout[v][i].entry \in prmap
          /\ \A i \in 1..Len(soon) : TupleSoon(v, i) /\ ~closed[v] => soon[i][2].entry \in prmap
      BY <2>1 DEF HaveEntry
    <3>2. \A d : GivenTo(v, d) => d \notin es
      BY <1>2, <2>3 DEF HaveThem, GivenTo
    <3>3. \A d : Got(v, d) => GivenTo(v, d)
      BY DEF Got, Ordered, GotInOrder
    <3>4. \A d \in child[v].work : d \notin es
      BY <3>2, <3>3 DEF AnswersLast
    <3>5. \A i \in 1..Len(stdin[v]) : TupleIn(v, i) => stdin[v][i].entry \notin es
      BY <3>2 DEF Ordered, InInOrder
    <3>6. \A i \in 1..Len(stdout[v]) : Answer(stdout[v][i]) => stdout[v][i].entry \notin es
      BY <3>2, <3>3 DEF AnswersLast
    <3>7. \A i \in 1..Len(soon) : TupleSoon(v, i) => soon[i][2].entry \notin es
      BY <3>2 DEF Ordered, SoonInOrder
    <3> QED
      BY <1>3, <1>4, <2>3, <3>1, <3>4, <3>5, <3>6, <3>7
  <2> QED
    BY <2>2, <2>3
<1>14. EmitsCounted'
  <2>1. ASSUME NEW d \in Entries, NEW v \in Workers, v = calls[d].worker
        PROVE  EmitsOf(v, d)' /\ ResultOf(v, d)'
    <3>1. InHand(v, d)' <=> InHand(v, d)
      BY <1>1, <1>11 DEF InHand
    <3> QED
      BY <1>1, <1>3, <1>11, <2>1, <3>1 DEF EmitsCounted, EmitsOf, ResultOf
  <2>2. ASSUME NEW d \in Entries
        PROVE  EmitsOf(calls[d].worker, d)' /\ ResultOf(calls[d].worker, d)'
    <3>1. PICK v \in Workers : v = calls[d].worker
      BY DEF WorkersTypeOK, Call
    <3> QED
      BY <1>3, <2>1, <3>1
  <2> QED
    BY <1>1, <1>11, <2>2 DEF EmitsCounted
<1> QED
  BY <1>1, <1>6, <1>7, <1>8, <1>9, <1>10, <1>12, <1>13, <1>14

LEMMA StopKeeps ==
  ASSUME WorkersInv, Stop
  PROVE  WorkersInv'
<1> USE DEF WorkersInv
<1>1. /\ phase = "up" /\ phase' = "stopped" /\ handled' = FALSE /\ CallBack(prmap, FALSE)
      /\ UNCHANGED <<bound, exits, emits, stdout, got, made, restart, begun, soon, emit, pushed, crashed>>
  BY DEF Stop
<1>2. /\ calls' \in [Entries -> Call] /\ answers' \in [Entries -> Nat] /\ results' = results
      /\ prmap' = {} /\ prmap' \subseteq Entries
      /\ \A e \in Entries :
           /\ calls'[e].worker = calls[e].worker /\ calls'[e].promise = calls[e].promise
           /\ calls'[e].state = "none" <=> calls[e].state = "none"
           /\ calls'[e].state = "waits" <=> calls[e].state = "waits"
           /\ answers'[e] = IF calls'[e].state = "answered" THEN 1 ELSE 0
      /\ prmap' = {e \in Entries : calls'[e].state = "given"}
      /\ \A v, d : GivenTo(v, d)' <=> GivenTo(v, d)
  <2>1. PICK es \in SUBSET prmap : es = prmap /\ CallBack(es, FALSE)
    BY <1>1
  <2> QED
    BY <2>1, CallBackEffect
<1>3. /\ ready' \in [Workers -> [made : Nat, done : BOOLEAN]] /\ closed' \in [Workers -> BOOLEAN]
      /\ \A v \in Workers : ready'[v] = ready[v] \/ ready'[v].made = ready[v].made + 1
  <2>1. ready \in [Workers -> [made : Nat, done : BOOLEAN]] /\ closed \in [Workers -> BOOLEAN]
    BY DEF WorkersTypeOK
  <2>2. CASE bound.module
    BY <2>1, <2>2 DEF Stop
  <2>3. CASE ~bound.module
    <3>1. /\ ready' = [w \in Workers |-> [made |-> ready[w].made + 1, done |-> FALSE]]
          /\ closed' = [w \in Workers |-> TRUE]
      BY <2>3 DEF Stop
    <3> QED
      BY <2>1, <3>1
  <2> QED
    BY <2>2, <2>3
<1>4. /\ child' \in [Workers -> Child] /\ stdin' \in [Workers -> Seq(Messages)]
      /\ \A v \in Workers : Fewer(stdin[v], stdin'[v]) /\ (stdin'[v] = stdin[v] \/ stdin'[v] = <<>>)
      /\ \A v \in Workers :
           \/ child'[v] = child[v] /\ (child[v].state # "up" \/ stdin'[v] = stdin[v])
           \/ /\ child[v].state = "up" /\ child'[v].state = "exited" /\ child'[v].work = {}
              /\ child'[v].first = child[v].first /\ child'[v].ids = child[v].ids
              /\ stdin'[v] = <<>>
  <2>1. child \in [Workers -> Child] /\ stdin \in [Workers -> Seq(Messages)]
    BY DEF WorkersTypeOK, BoltTypeOK
  <2>2. CASE bound.module
    BY <2>1, <2>2 DEF Stop, Fewer
  <2>3. CASE ~bound.module
    <3> DEFINE c(v) == [child[v] EXCEPT !.state = "exited", !.work = {}, !.code = 1]
    <3>1. /\ child' = [v \in Workers |-> IF child[v].state = "up" THEN c(v) ELSE child[v]]
          /\ stdin' = [v \in Workers |-> <<>>]
      BY <2>3 DEF Stop
    <3>2. \A v \in Workers :
            /\ c(v) \in Child /\ c(v).state = "exited" /\ c(v).work = {}
            /\ c(v).first = child[v].first /\ c(v).ids = child[v].ids
      <4>1. SUFFICES ASSUME NEW v \in Workers
                     PROVE  /\ c(v) \in Child /\ c(v).state = "exited" /\ c(v).work = {}
                            /\ c(v).first = child[v].first /\ c(v).ids = child[v].ids
        OBVIOUS
      <4>2. PICK x \in Child : x = child[v]
        BY <2>1
      <4>3. LET d == [x EXCEPT !.state = "exited", !.work = {}, !.code = 1]
            IN  /\ d \in Child /\ d.state = "exited" /\ d.work = {}
                /\ d.first = x.first /\ d.ids = x.ids
        BY DEF Child
      <4> QED
        BY <4>2, <4>3
    <3> HIDE DEF c
    <3> QED
      BY <2>1, <3>1, <3>2 DEF Fewer
  <2> QED
    BY <2>2, <2>3
<1>5. \A v \in Workers : child'[v].work \subseteq child[v].work /\ child'[v].first = child[v].first
                         /\ child'[v].ids = child[v].ids
  BY <1>4
<1>6. WorkersTypeOK' /\ IdsEmitted'
  <2>1. BoltTypeOK'
    BY <1>1, <1>4 DEF WorkersTypeOK, BoltTypeOK
  <2>2. results' \in [Entries -> Nat] /\ emit' \in [Entries -> Nat]
    BY <1>1, <1>2 DEF WorkersTypeOK
  <2> QED
    BY <1>1, <1>2, <1>3, <1>5, <2>1, <2>2 DEF WorkersTypeOK, IdsEmitted
<1>7. Known'
  BY <1>1, <1>2 DEF Known
<1>8. Quiet'
  <2>1. SUFFICES ASSUME NEW v \in Workers
                 PROVE  /\ child'[v].state # "up" => stdin'[v] = <<>> /\ child'[v].work = {}
                        /\ v \in restart => child'[v].state = "closed"
                        /\ child'[v].state \in {"none", "closed"} => stdout[v] = <<>>
                        /\ begun[v] => child'[v].state # "up" /\ stdout[v] = <<>>
                        /\ \A i \in 1..Len(stdout[v]) :
                             stdout[v][i] = Cut => i = Len(stdout[v]) /\ child'[v].state # "up"
    BY <1>1 DEF Quiet
  <2>2. stdin[v] = <<>> => stdin'[v] = <<>>
    BY <1>4
  <2>3. CASE child'[v] = child[v]
    BY <2>2, <2>3 DEF Quiet
  <2>4. CASE child'[v] # child[v]
    <3>1. /\ child[v].state = "up" /\ child'[v].state = "exited" /\ child'[v].work = {}
          /\ stdin'[v] = <<>>
      BY <1>4, <2>4
    <3> QED
      BY <3>1 DEF Quiet
  <2> QED
    BY <2>3, <2>4
<1>9. \A v \in Workers : Written(v)'
  BY <1>1, <1>4, <1>5, WrittenFewer
<1>10. Ordered'
  <2>1. \A v \in Workers : GotInOrder(v)' /\ InInOrder(v)' /\ SoonInOrder(v)'
    BY <1>1, <1>2, <1>4, OrderFewer
  <2>2. WaitsInOrder'
    BY <1>2, <1>3, WaitsKept
  <2> QED
    BY <2>1, <2>2 DEF Ordered
<1>11. \A v \in Workers : Shorter(stdout[v], stdout[v])
  BY ShorterSame DEF WorkersTypeOK, BoltTypeOK
<1>12. AnswersLast'
  BY <1>1, <1>5, <1>11, AnswersFewer
<1>13. HaveEntry'
  BY <1>1 DEF HaveEntry
<1>14. EmitsCounted'
  <2>1. ASSUME NEW d \in Entries, NEW v \in Workers, v = calls[d].worker
        PROVE  EmitsOf(v, d)' /\ ResultOf(v, d)'
    <3>1. (Got(v, d)' <=> Got(v, d)) /\ Coming(v, d)' = Coming(v, d)
      BY <1>1 DEF Got, Coming
    <3> QED
      BY <1>1, <1>2, <1>5, <2>1, <3>1 DEF EmitsCounted, EmitsOf, ResultOf
  <2>2. ASSUME NEW d \in Entries
        PROVE  EmitsOf(calls[d].worker, d)' /\ ResultOf(calls[d].worker, d)'
    <3>1. PICK v \in Workers : v = calls[d].worker
      BY DEF WorkersTypeOK, Call
    <3> QED
      BY <1>2, <2>1, <3>1
  <2> QED
    BY <1>1, <2>2 DEF EmitsCounted, Got
<1> QED
  BY <1>1, <1>6, <1>7, <1>8, <1>9, <1>10, <1>12, <1>13, <1>14

LEMMA WorkersNextKeeps == WorkersInv /\ [WorkersNext]_workersVars => WorkersInv'
<1> SUFFICES ASSUME WorkersInv, [WorkersNext]_workersVars
             PROVE  WorkersInv'
  OBVIOUS
<1>1. CASE UNCHANGED workersVars
  <2> USE <1>1 DEF workersVars, childVars, parentVars, WorkersInv
  <2>1. WorkersTypeOK' /\ IdsEmitted'
    BY DEF WorkersTypeOK, BoltTypeOK, IdsEmitted
  <2>2. Known' /\ Quiet'
    BY DEF Known, Quiet
  <2>3. \A v \in Workers : Written(v)'
    BY DEF Written
  <2>4. Ordered'
    BY OrderedFewer DEF Fewer
  <2>5. \A v \in Workers : Shorter(stdout[v], stdout[v])
    BY ShorterSame DEF WorkersTypeOK, BoltTypeOK
  <2>6. AnswersLast' /\ HaveEntry'
    BY <2>5, AnswersFewer, HaveFewer DEF Fewer
  <2>7. EmitsCounted'
    BY <2>1, <2>5, EmitsFewer
  <2> QED
    BY <2>1, <2>2, <2>3, <2>4, <2>6, <2>7
<1>2. ASSUME NEW w \in Workers, OnData(w)
      PROVE  WorkersInv'
  BY <1>2, OnDataKeeps
<1>3. ASSUME NEW w \in Workers, ChildStep(w) /\ UNCHANGED parentVars
      PROVE  WorkersInv'
  BY <1>3, ChildStepKeeps
<1>4. CASE Start
  BY <1>4, StartKeeps
<1>5. CASE ParentRuns
  BY <1>5, HandleKeeps, SendKeeps, CloseKeeps, RestartKeeps DEF ParentRuns
<1>6. CASE Stop
  BY <1>6, StopKeeps
<1>7. ASSUME NEW e \in Entries, Process(e)
      PROVE  WorkersInv'
  BY <1>7, ProcessKeeps
<1> QED
  BY <1>1, <1>2, <1>3, <1>4, <1>5, <1>6, <1>7 DEF WorkersNext

(* In every step of nsyslog and its workers the invariant holds: who has   *)
(* an entry, what is in the pipes, in which order, and what was emitted    *)
(* for it (index.js:101-240, shellbolt.js:30-130, storm.js:80-330).        *)
THEOREM WorkersInvariance == WorkersSpec => []WorkersInv
<1>1. WorkersInit("off") => WorkersInv
  BY WorkersInitInv
<1>2. WorkersInv /\ [WorkersNext]_workersVars => WorkersInv'
  BY WorkersNextKeeps
<1> QED
  BY <1>1, <1>2, PTL DEF WorkersSpec

(* The callback of an entry is called at most once, with all that was      *)
(* emitted for it or with nothing; no message of a worker is about an      *)
(* entry that nobody knows, so that no error ends nsyslog; for any number  *)
(* of workers, entries and deaths (index.js:139-201).                      *)
THEOREM AnswersCarryEmits == WorkersSpec => []AnsweredWithItsEmits
<1>1. WorkersInv => AnsweredWithItsEmits
  <2>a. SUFFICES ASSUME WorkersInv
                 PROVE  AnsweredWithItsEmits
    OBVIOUS
  <2>b. ~crashed
    BY <2>a DEF WorkersInv
  <2>1. SUFFICES ASSUME NEW e \in Entries
                 PROVE  answers[e] <= 1 /\ results[e] \in {0, made[e]} /\ emit[e] <= made[e]
    BY <2>b DEF AnsweredWithItsEmits
  <2>2. PICK v \in Workers : v = calls[e].worker
    BY <2>a, <2>1 DEF WorkersInv, WorkersTypeOK, Call
  <2>3. EmitsOf(v, e) /\ ResultOf(v, e)
    BY <2>a, <2>1, <2>2 DEF WorkersInv, EmitsCounted
  <2>4. Coming(v, e) \in Nat /\ emit[e] \in Nat /\ made[e] \in Nat
    BY <2>a, <2>1, OccursType DEF Coming, WorkersInv, WorkersTypeOK, BoltTypeOK
  <2>5. answers[e] \in {0, 1}
    BY <2>a, <2>1 DEF WorkersInv, Known
  <2> QED
    BY <2>1, <2>3, <2>4, <2>5 DEF EmitsOf, ResultOf
<1> QED
  BY <1>1, WorkersInvariance, PTL

(* A worker gets its entries in the order of the calls of process(), also  *)
(* those that waited for it to be ready, before and after it was started   *)
(* again, and those of a group get to one worker (index.js:203-240).       *)
THEOREM WorkersGetInOrder == WorkersSpec => []InOrderToWorker
<1>1. WorkersInv => InOrderToWorker
  <2>a. SUFFICES ASSUME WorkersInv, NEW w \in Workers
                 PROVE  \A i, j \in DOMAIN got[w] :
                          /\ i < j => got[w][i] < got[w][j]
                          /\ bound.group => Group[got[w][i]] = w
    BY DEF InOrderToWorker
  <2>b. got[w] \in Seq(Entries) /\ DOMAIN got[w] = 1..Len(got[w])
    BY <2>a DEF WorkersInv, WorkersTypeOK, BoltTypeOK
  <2>1. SUFFICES ASSUME NEW i \in 1..Len(got[w]), NEW j \in 1..Len(got[w])
                 PROVE  /\ i < j => got[w][i] < got[w][j]
                        /\ bound.group => Group[got[w][i]] = w
    BY <2>b
  <2>2. GotInOrder(w)
    BY <2>a DEF WorkersInv, Ordered
  <2>3. GivenTo(w, got[w][i])
    BY <2>2 DEF GotInOrder
  <2>4. bound.group => Group[got[w][i]] = w
    BY <2>a, <2>b, <2>3 DEF GivenTo, WorkersInv, Known
  <2> QED
    BY <2>1, <2>2, <2>4 DEF GotInOrder
<1> QED
  BY <1>1, WorkersInvariance, PTL

-----------------------------------------------------------------------------
(* The buffering processors.                                               *)

(***************************************************************************)
(* What was put out, and what is kept behind it.                           *)
(***************************************************************************)
Has(s, e) == \E i \in 1..Len(s) : e \in ToSet(s[i])
Ascends(s) == \A a, b \in 1..Len(s) : a < b => s[a] < s[b]
Behind(e, s) == \A d \in Given : Has(s, d) /\ KeyOf[d] = KeyOf[e] => d < e

LEMMA ToSetIs ==
  ASSUME NEW s \in Seq(Given), NEW e
  PROVE  e \in ToSet(s) <=> \E a \in 1..Len(s) : s[a] = e
BY DEF ToSet

LEMMA ToSetIn ==
  ASSUME NEW s \in Seq(Given)
  PROVE  ToSet(s) \subseteq Given
BY DEF ToSet

LEMMA ToSetEmpty == ToSet(<<>>) = {}
BY DEF ToSet

LEMMA ToSetAppend ==
  ASSUME NEW s \in Seq(Given), NEW e \in Given
  PROVE  /\ Append(s, e) \in Seq(Given)
         /\ ToSet(Append(s, e)) = ToSet(s) \cup {e}
<1> DEFINE t == Append(s, e)
<1>1. /\ t \in Seq(Given) /\ Len(t) = Len(s) + 1 /\ t[Len(s) + 1] = e
      /\ \A a \in 1..Len(s) : t[a] = s[a]
  OBVIOUS
<1>2. Len(s) \in Nat
  OBVIOUS
<1> HIDE DEF t
<1>3. \A d : (\E a \in 1..Len(t) : t[a] = d) <=> (\E a \in 1..Len(s) : s[a] = d) \/ d = e
  <2> TAKE d
  <2>1. ASSUME NEW a \in 1..Len(t), t[a] = d
        PROVE  (\E b \in 1..Len(s) : s[b] = d) \/ d = e
    <3>1. CASE a = Len(s) + 1
      BY <1>1, <2>1, <3>1
    <3>2. CASE a # Len(s) + 1
      <4>1. a \in 1..Len(s)
        BY <1>1, <1>2, <3>2
      <4> QED
        BY <1>1, <2>1, <4>1
    <3> QED
      BY <3>1, <3>2
  <2>2. ASSUME NEW a \in 1..Len(s), s[a] = d
        PROVE  \E b \in 1..Len(t) : t[b] = d
    <3>1. a \in 1..Len(t) /\ t[a] = d
      BY <1>1, <1>2, <2>2
    <3> QED
      BY <3>1
  <2>3. Len(s) + 1 \in 1..Len(t)
    BY <1>1, <1>2
  <2> QED
    BY <1>1, <2>1, <2>2, <2>3
<1>4. \A d : d \in ToSet(t) <=> d \in ToSet(s) \/ d = e
  BY <1>1, <1>3, ToSetIs
<1> QED
  BY <1>1, <1>4 DEF t

LEMMA AscendsAppend ==
  ASSUME NEW s \in Seq(Given), Ascends(s), NEW e \in Given,
         \A d \in ToSet(s) : d < e
  PROVE  Ascends(Append(s, e))
<1> DEFINE t == Append(s, e)
<1>1. /\ t \in Seq(Given) /\ Len(t) = Len(s) + 1 /\ t[Len(s) + 1] = e
      /\ \A a \in 1..Len(s) : t[a] = s[a]
  OBVIOUS
<1>2. Len(s) \in Nat
  OBVIOUS
<1> HIDE DEF t
<1>3. ASSUME NEW a \in 1..Len(t), NEW b \in 1..Len(t), a < b
      PROVE  t[a] < t[b]
  <2>1. a \in 1..Len(s) /\ t[a] = s[a]
    BY <1>1, <1>2, <1>3
  <2>2. CASE b = Len(s) + 1
    <3>1. s[a] \in ToSet(s)
      BY <2>1, ToSetIs
    <3> QED
      BY <1>1, <2>1, <2>2, <3>1
  <2>3. CASE b # Len(s) + 1
    <3>1. b \in 1..Len(s) /\ t[b] = s[b]
      BY <1>1, <1>2, <2>3
    <3> QED
      BY <1>3, <2>1, <3>1 DEF Ascends
  <2> QED
    BY <2>2, <2>3
<1> QED
  BY <1>3 DEF t, Ascends

(* What is put out at the end of what was put out.                         *)
LEMMA PutsOutAll ==
  ASSUME NEW s \in Seq(Seq(Given)), InKeyOrder(s),
         NEW r \in Seq(Seq(Given)), InKeyOrder(r),
         \A e \in Given : Has(r, e) => Behind(e, s)
  PROVE  /\ s \o r \in Seq(Seq(Given))
         /\ \A e : Has(s \o r, e) <=> Has(s, e) \/ Has(r, e)
         /\ InKeyOrder(s \o r)
<1> DEFINE t == s \o r
<1>1. /\ t \in Seq(Seq(Given)) /\ Len(t) = Len(s) + Len(r)
      /\ Len(s) \in Nat /\ Len(r) \in Nat
      /\ \A i \in 1..Len(s) : t[i] = s[i]
      /\ \A i \in 1..Len(r) : t[Len(s) + i] = r[i]
  OBVIOUS
<1> HIDE DEF t
<1>2. ASSUME NEW i \in 1..Len(t)
      PROVE  \/ i \in 1..Len(s) /\ t[i] = s[i] /\ s[i] \in Seq(Given)
             \/ /\ i - Len(s) \in 1..Len(r) /\ t[i] = r[i - Len(s)]
                /\ r[i - Len(s)] \in Seq(Given) /\ i > Len(s)
  <2>1. CASE i \in 1..Len(s)
    BY <1>1, <2>1
  <2>2. CASE i \notin 1..Len(s)
    <3>1. i - Len(s) \in 1..Len(r) /\ i > Len(s)
      BY <1>1, <2>2
    <3>2. PICK j \in 1..Len(r) : j = i - Len(s)
      BY <3>1
    <3>3. i = Len(s) + j
      BY <1>1, <3>2
    <3>4. t[i] = r[j] /\ r[j] \in Seq(Given)
      BY <1>1, <3>3
    <3> QED
      BY <3>1, <3>2, <3>4
  <2> QED
    BY <2>1, <2>2
<1>3. ASSUME NEW e
      PROVE  Has(t, e) <=> Has(s, e) \/ Has(r, e)
  <2>1. ASSUME Has(t, e)
        PROVE  Has(s, e) \/ Has(r, e)
    <3>1. PICK i \in 1..Len(t) : e \in ToSet(t[i])
      BY <2>1 DEF Has
    <3> QED
      BY <1>2, <3>1 DEF Has
  <2>2. ASSUME Has(s, e)
        PROVE  Has(t, e)
    <3>1. PICK i \in 1..Len(s) : e \in ToSet(s[i])
      BY <2>2 DEF Has
    <3>2. i \in 1..Len(t) /\ t[i] = s[i]
      BY <1>1
    <3> QED
      BY <3>1, <3>2 DEF Has
  <2>3. ASSUME Has(r, e)
        PROVE  Has(t, e)
    <3>1. PICK i \in 1..Len(r) : e \in ToSet(r[i])
      BY <2>3 DEF Has
    <3>2. Len(s) + i \in 1..Len(t) /\ t[Len(s) + i] = r[i]
      BY <1>1
    <3> QED
      BY <3>1, <3>2 DEF Has
  <2> QED
    BY <2>1, <2>2, <2>3
<1>4. ASSUME NEW i \in 1..Len(t), NEW j \in 1..Len(t),
             NEW a \in DOMAIN t[i], NEW b \in DOMAIN t[j],
             KeyOf[t[i][a]] = KeyOf[t[j][b]], i < j \/ (i = j /\ a < b)
      PROVE  t[i][a] < t[j][b]
  <2>1. CASE i \in 1..Len(s) /\ j \in 1..Len(s)
    <3>1. t[i] = s[i] /\ t[j] = s[j]
      BY <1>1, <2>1
    <3>2. i \in DOMAIN s /\ j \in DOMAIN s
      BY <2>1
    <3> QED
      BY <1>4, <3>1, <3>2 DEF InKeyOrder
  <2>2. CASE i \in 1..Len(s) /\ j \notin 1..Len(s)
    <3>1. /\ t[i] = s[i] /\ j - Len(s) \in 1..Len(r) /\ t[j] = r[j - Len(s)]
          /\ t[i] \in Seq(Given) /\ t[j] \in Seq(Given)
      BY <1>1, <1>2, <2>2
    <3>2. t[i][a] \in Given /\ t[j][b] \in Given
      <4>1. \A q \in Seq(Given) : \A x \in DOMAIN q : q[x] \in Given
        OBVIOUS
      <4>2. a \in DOMAIN t[i] /\ b \in DOMAIN t[j]
        OBVIOUS
      <4> QED
        BY ONLY <3>1, <4>1, <4>2
    <3>3. t[i][a] \in ToSet(s[i]) /\ t[j][b] \in ToSet(r[j - Len(s)])
      BY <3>1 DEF ToSet
    <3>4. Has(s, t[i][a]) /\ Has(r, t[j][b])
      BY <2>2, <3>1, <3>3 DEF Has
    <3>5. Behind(t[j][b], s)
      BY <3>2, <3>4
    <3> QED
      BY <1>4, <3>2, <3>4, <3>5 DEF Behind
  <2>3. CASE i \notin 1..Len(s)
    <3>1. /\ i - Len(s) \in 1..Len(r) /\ j - Len(s) \in 1..Len(r)
          /\ t[i] = r[i - Len(s)] /\ t[j] = r[j - Len(s)]
      <4>1. i > Len(s) /\ i - Len(s) \in 1..Len(r) /\ t[i] = r[i - Len(s)]
        BY <1>2, <2>3
      <4>2. j \notin 1..Len(s)
        BY <1>1, <1>4, <4>1
      <4> QED
        BY <1>2, <4>1, <4>2
    <3>2. i - Len(s) \in DOMAIN r /\ j - Len(s) \in DOMAIN r
      BY <3>1
    <3>3. i - Len(s) < j - Len(s) \/ (i - Len(s) = j - Len(s) /\ a < b)
      BY <1>1, <1>4
    <3> QED
      BY <1>4, <3>1, <3>2, <3>3 DEF InKeyOrder
  <2> QED
    BY <2>1, <2>2, <2>3
<1>5. DOMAIN t = 1..Len(t)
  BY <1>1
<1>6. InKeyOrder(t)
  BY <1>4, <1>5 DEF InKeyOrder
<1> QED
  BY <1>1, <1>3, <1>6 DEF t

LEMMA PutsOut ==
  ASSUME NEW s \in Seq(Seq(Given)), InKeyOrder(s), NEW u \in Seq(Given), Ascends(u),
         \A e \in ToSet(u) : Behind(e, s)
  PROVE  /\ Append(s, u) \in Seq(Seq(Given))
         /\ \A e : Has(Append(s, u), e) <=> Has(s, e) \/ e \in ToSet(u)
         /\ InKeyOrder(Append(s, u))
<1> DEFINE r == <<u>>
<1>1. /\ r \in Seq(Seq(Given)) /\ Len(r) = 1 /\ r[1] = u
      /\ s \o r = Append(s, u)
  OBVIOUS
<1> HIDE DEF r
<1>2. \A e : Has(r, e) <=> e \in ToSet(u)
  BY <1>1 DEF Has
<1>3. InKeyOrder(r)
  <2>1. ASSUME NEW i \in DOMAIN r, NEW j \in DOMAIN r,
               NEW a \in DOMAIN r[i], NEW b \in DOMAIN r[j],
               i < j \/ (i = j /\ a < b)
        PROVE  r[i][a] < r[j][b]
    <3>1. i = 1 /\ j = 1
      BY <1>1
    <3>2. a \in 1..Len(u) /\ b \in 1..Len(u) /\ a < b
      BY <1>1, <2>1, <3>1
    <3> QED
      BY <1>1, <3>1, <3>2 DEF Ascends
  <2> QED
    BY <2>1 DEF InKeyOrder
<1>4. \A e \in Given : Has(r, e) => Behind(e, s)
  BY <1>2
<1>5. s \o r \in Seq(Seq(Given)) /\ InKeyOrder(s \o r)
      /\ \A e : Has(s \o r, e) <=> Has(s, e) \/ Has(r, e)
  BY <1>1, <1>3, <1>4, PutsOutAll
<1> QED
  BY <1>1, <1>2, <1>5


(***************************************************************************)
(* joiner, throttle and array: entries are held in their order, and leave  *)
(* at the front.                                                           *)
(***************************************************************************)
HeldSound(c, s, h, d) ==
  /\ s \in Seq(Seq(Given)) /\ h \in Seq(Given) /\ d \subseteq Given
  /\ InKeyOrder(s) /\ Ascends(h)
  /\ \A e \in Given : (Has(s, e) \/ e \in ToSet(h) \/ e \in d) <=> e <= c
  /\ \A e \in ToSet(h) : e \notin d /\ \A x \in Given : Has(s, x) => x < e
  /\ \A e \in Given : Has(s, e) => e \notin d

LEMMA HeldEnters ==
  ASSUME NEW c \in Nat, c < MaxGiven, NEW s, NEW h, NEW d, HeldSound(c, s, h, d)
  PROVE  HeldSound(c + 1, s, Append(h, c + 1), d)
<1> DEFINE e == c + 1
<1>1. e \in Given /\ \A x \in Given : x <= c => x < e
  BY BuffersAssumption DEF Given
<1>2. \A x \in Given : x <= e <=> x <= c \/ x = e
  BY DEF Given
<1>3. ~(e <= c)
  OBVIOUS
<1> HIDE DEF e
<1>4. ToSet(h) \subseteq Given
  BY ToSetIn DEF HeldSound
<1>5. \A x \in ToSet(h) : x < e
  BY <1>1, <1>4 DEF HeldSound
<1>6. /\ Append(h, e) \in Seq(Given) /\ ToSet(Append(h, e)) = ToSet(h) \cup {e}
      /\ Ascends(Append(h, e))
  BY <1>1, <1>5, ToSetAppend, AscendsAppend DEF HeldSound
<1>7. \A x \in Given : Has(s, x) => x < e
  BY <1>1 DEF HeldSound
<1>8. ~Has(s, e) /\ e \notin d
  BY <1>1, <1>3 DEF HeldSound
<1>9. HeldSound(e, s, Append(h, e), d)
  BY <1>1, <1>2, <1>4, <1>6, <1>7, <1>8 DEF HeldSound
<1> QED
  BY <1>9 DEF e

(* The two parts of what is held.                                          *)
LEMMA Parts ==
  ASSUME NEW h \in Seq(Given), Ascends(h), NEW n \in 0..Len(h)
  PROVE  LET u == SubSeq(h, 1, n)
             v == SubSeq(h, n + 1, Len(h))
         IN /\ u \in Seq(Given) /\ v \in Seq(Given) /\ Ascends(u) /\ Ascends(v)
            /\ ToSet(u) \cup ToSet(v) = ToSet(h)
            /\ \A x \in ToSet(u), y \in ToSet(v) : x < y
<1> DEFINE u == SubSeq(h, 1, n)
           v == SubSeq(h, n + 1, Len(h))
<1>1. /\ u \in Seq(Given) /\ Len(u) = n /\ \A a \in 1..n : u[a] = h[a]
  OBVIOUS
<1>2. /\ v \in Seq(Given) /\ Len(v) = Len(h) - n
      /\ \A a \in 1..Len(v) : v[a] = h[n + a]
  OBVIOUS
<1>3. Len(h) \in Nat /\ n \in Nat /\ n <= Len(h)
  OBVIOUS
<1> HIDE DEF u, v
<1>4. \A a \in 1..n : a \in 1..Len(h)
  BY <1>3
<1>5. \A a \in 1..Len(v) : n + a \in 1..Len(h)
  BY <1>2, <1>3
<1>6. Ascends(u)
  BY <1>1, <1>4 DEF Ascends
<1>7. Ascends(v)
  <2>1. ASSUME NEW a \in 1..Len(v), NEW b \in 1..Len(v), a < b
        PROVE  v[a] < v[b]
    <3>1. n + a \in 1..Len(h) /\ n + b \in 1..Len(h) /\ n + a < n + b
      BY <1>3, <1>5, <2>1
    <3>2. h[n + a] < h[n + b]
      BY <3>1 DEF Ascends
    <3> QED
      BY <1>2, <3>2
  <2> QED
    BY <2>1 DEF Ascends
<1>8. ToSet(u) \cup ToSet(v) = ToSet(h)
  <2>1. ASSUME NEW x \in ToSet(h)
        PROVE  x \in ToSet(u) \/ x \in ToSet(v)
    <3>1. PICK a \in 1..Len(h) : h[a] = x
      BY <2>1, ToSetIs
    <3>2. CASE a <= n
      <4>1. a \in 1..Len(u) /\ u[a] = x
        BY <1>1, <3>1, <3>2
      <4> QED
        BY <1>1, <4>1, ToSetIs
    <3>3. CASE ~(a <= n)
      <4>1. PICK b \in 1..Len(v) : a = n + b
        <5>1. a - n \in 1..Len(v) /\ a = n + (a - n)
          BY <1>2, <1>3, <3>3
        <5> QED
          BY <5>1
      <4>2. v[b] = x
        BY <1>2, <3>1, <4>1
      <4> QED
        BY <1>2, <4>2, ToSetIs
    <3> QED
      BY <3>2, <3>3
  <2>2. ASSUME NEW x \in ToSet(u)
        PROVE  x \in ToSet(h)
    <3>1. PICK a \in 1..Len(u) : u[a] = x
      BY <1>1, <2>2, ToSetIs
    <3>2. a \in 1..Len(h) /\ h[a] = x
      BY <1>1, <1>4, <3>1
    <3> QED
      BY <3>2, ToSetIs
  <2>3. ASSUME NEW x \in ToSet(v)
        PROVE  x \in ToSet(h)
    <3>1. PICK a \in 1..Len(v) : v[a] = x
      BY <1>2, <2>3, ToSetIs
    <3>2. n + a \in 1..Len(h) /\ h[n + a] = x
      BY <1>2, <1>5, <3>1
    <3> QED
      BY <3>2, ToSetIs
  <2> QED
    BY <2>1, <2>2, <2>3
<1>9. ASSUME NEW x \in ToSet(u), NEW y \in ToSet(v)
      PROVE  x < y
  <2>1. PICK a \in 1..Len(u) : u[a] = x
    BY <1>1, <1>9, ToSetIs
  <2>2. PICK b \in 1..Len(v) : v[b] = y
    BY <1>2, <1>9, ToSetIs
  <2>3. a \in 1..Len(h) /\ n + b \in 1..Len(h) /\ a < n + b
    BY <1>1, <1>3, <1>4, <1>5
  <2>4. h[a] < h[n + b]
    BY <2>3 DEF Ascends
  <2> QED
    BY <1>1, <1>2, <2>1, <2>2, <2>4
<1>10. /\ u \in Seq(Given) /\ v \in Seq(Given) /\ Ascends(u) /\ Ascends(v)
       /\ ToSet(u) \cup ToSet(v) = ToSet(h)
       /\ \A x \in ToSet(u), y \in ToSet(v) : x < y
  BY <1>1, <1>2, <1>6, <1>7, <1>8, <1>9
<1> QED
  BY <1>10 DEF u, v

LEMMA HeldLeaves ==
  ASSUME NEW c \in Nat, NEW s, NEW h, NEW d, HeldSound(c, s, h, d), NEW n \in 0..Len(h)
  PROVE  HeldSound(c, Append(s, SubSeq(h, 1, n)), SubSeq(h, n + 1, Len(h)), d)
<1> DEFINE u == SubSeq(h, 1, n)
           v == SubSeq(h, n + 1, Len(h))
<1>1. /\ u \in Seq(Given) /\ v \in Seq(Given) /\ Ascends(u) /\ Ascends(v)
      /\ ToSet(u) \cup ToSet(v) = ToSet(h)
      /\ \A x \in ToSet(u), y \in ToSet(v) : x < y
  BY Parts DEF HeldSound
<1> HIDE DEF u, v
<1>2. ToSet(h) \subseteq Given
  BY ToSetIn DEF HeldSound
<1>3. \A e \in ToSet(u) : Behind(e, s)
  BY <1>1, <1>2 DEF HeldSound, Behind
<1>4. /\ Append(s, u) \in Seq(Seq(Given))
      /\ \A e : Has(Append(s, u), e) <=> Has(s, e) \/ e \in ToSet(u)
      /\ InKeyOrder(Append(s, u))
  BY <1>1, <1>3, PutsOut DEF HeldSound
<1> DEFINE t == Append(s, u)
<1> HIDE DEF t
<1>5. HeldSound(c, t, v, d)
  BY <1>1, <1>2, <1>4 DEF HeldSound, t
<1> QED
  BY <1>5 DEF t, u, v

LEMMA HeldForgets ==
  ASSUME NEW c \in Nat, NEW s, NEW h, NEW d, HeldSound(c, s, h, d), NEW n \in 0..Len(h)
  PROVE  LET v == SubSeq(h, n + 1, Len(h))
         IN  HeldSound(c, s, v, d \cup (ToSet(h) \ ToSet(v)))
<1> DEFINE u == SubSeq(h, 1, n)
           v == SubSeq(h, n + 1, Len(h))
<1>1. /\ v \in Seq(Given) /\ Ascends(v)
      /\ ToSet(u) \cup ToSet(v) = ToSet(h)
  BY Parts DEF HeldSound
<1> HIDE DEF u, v
<1>2. ToSet(h) \subseteq Given
  BY ToSetIn DEF HeldSound
<1>3. \A e \in ToSet(h) : ~Has(s, e)
  BY <1>2 DEF HeldSound, Given
<1>4. HeldSound(c, s, v, d \cup (ToSet(h) \ ToSet(v)))
  BY <1>1, <1>2, <1>3 DEF HeldSound
<1> QED
  BY <1>4 DEF v


FilterOff ==
  /\ step = [e \in Given |-> "none"] /\ sem = <<>> /\ evsem = <<>>
  /\ buffer = NoItem /\ store = NoItem /\ loop = "off"
HeldInv ==
  /\ FilterOff /\ HeldSound(called, outs, held, dropped)
  /\ buffering.kind = "throttle" /\ ~buffering.timed => held = <<>>

(* The part of the type that these change, beside HeldSound.               *)
HeldRest == answered \in [Given -> Nat] /\ called \in 0..MaxGiven /\ timer \in BOOLEAN

LEMMA CallsBackType ==
  ASSUME NEW es, answered \in [Given -> Nat], CallsBack(es)
  PROVE  answered' \in [Given -> Nat]
BY DEF CallsBack

LEMMA CallsType ==
  ASSUME NEW kind, Calls(kind), called \in 0..MaxGiven
  PROVE  /\ called \in Nat /\ called < MaxGiven /\ called' = called + 1
         /\ called' \in 0..MaxGiven /\ called' \in Given
BY BuffersAssumption DEF Calls, Given

LEMMA MaxOfTwo ==
  ASSUME NEW a \in Int, NEW b \in Int
  PROVE  Max({a, b}) = IF a >= b THEN a ELSE b
<1>1. PICK m \in {a, b} : m = (IF a >= b THEN a ELSE b)
  OBVIOUS
<1>2. \A y \in {a, b} : m >= y
  BY <1>1
<1>3. \A x \in {a, b} : (\A y \in {a, b} : x >= y) => x = m
  BY <1>1
<1>4. Max({a, b}) = m
  BY <1>2, <1>3 DEF Max
<1> QED
  BY <1>1, <1>4

LEMMA MinOfTwo ==
  ASSUME NEW a \in Int, NEW b \in Int
  PROVE  Min({a, b}) = IF a <= b THEN a ELSE b
<1>1. PICK m \in {a, b} : m = (IF a <= b THEN a ELSE b)
  OBVIOUS
<1>2. \A y \in {a, b} : m <= y
  BY <1>1
<1>3. \A x \in {a, b} : (\A y \in {a, b} : x <= y) => x = m
  BY <1>1
<1>4. Min({a, b}) = m
  BY <1>2, <1>3 DEF Min
<1> QED
  BY <1>1, <1>4

LEMMA AllLeaves ==
  ASSUME NEW c \in Nat, NEW s, NEW h, NEW d, HeldSound(c, s, h, d)
  PROVE  HeldSound(c, Append(s, h), <<>>, d)
<1>1. h \in Seq(Given)
  BY DEF HeldSound
<1>2. SubSeq(h, 1, Len(h)) = h /\ SubSeq(h, Len(h) + 1, Len(h)) = <<>> /\ Len(h) \in 0..Len(h)
  BY <1>1
<1> DEFINE n == Len(h)
<1>3. HeldSound(c, Append(s, SubSeq(h, 1, n)), SubSeq(h, n + 1, Len(h)), d)
  <2>1. n \in 0..Len(h)
    BY <1>2
  <2> HIDE DEF n
  <2> QED
    BY ONLY <2>1, HeldSound(c, s, h, d), c \in Nat, HeldLeaves
<1> QED
  BY <1>2, <1>3

LEMMA JoinStep ==
  ASSUME HeldInv, HeldRest, buffering \in Buffers, Join
  PROVE  HeldSound(called, outs, held, dropped)' /\ HeldRest'
<1> USE DEF Join
<1>1. /\ called \in Nat /\ called < MaxGiven /\ called' = called + 1
      /\ called' \in 0..MaxGiven /\ called' \in Given
  BY CallsType DEF HeldRest
<1>2. answered' \in [Given -> Nat]
  BY CallsBackType DEF HeldRest
<1> DEFINE c == called'
<1>3. PICK flush \in BOOLEAN : Joined(c, flush)
  OBVIOUS
<1>4. HeldSound(called, outs, held, dropped)
  BY DEF HeldInv
<1>5. HeldSound(called + 1, outs, Append(held, called + 1), dropped)
  BY <1>1, <1>4, HeldEnters
<1>6. CASE flush /\ held # <<>>
  <2>1. /\ outs' = Append(outs, held) /\ held' = <<c>> /\ timer' = timer /\ dropped' = dropped
    BY <1>3, <1>6 DEF Joined, TimerAfterFlush
  <2>2. HeldSound(called, Append(outs, held), <<>>, dropped)
    BY <1>1, <1>4, AllLeaves
  <2> DEFINE s == Append(outs, held)
             h == <<>>
  <2>3. HeldSound(called + 1, s, Append(h, called + 1), dropped)
    <3>1. HeldSound(called, s, h, dropped)
      BY <2>2
    <3> HIDE DEF s, h
    <3> QED
      BY <1>1, <3>1, HeldEnters
  <2>4. Append(h, called + 1) = <<c>>
    BY <1>1
  <2> QED
    BY <1>1, <1>2, <2>1, <2>3, <2>4 DEF HeldRest
<1>7. CASE ~(flush /\ held # <<>>)
  <2> DEFINE all == Append(held, c)
             m == Max({1, Len(all) - buffering.max + 1})
             kept == SubSeq(all, m, Len(all))
             n == m - 1
  <2>1. /\ held' = kept /\ timer' = TRUE /\ outs' = outs
        /\ dropped' = dropped \cup (ToSet(all) \ ToSet(kept))
    BY <1>3, <1>7 DEF Joined
  <2>2. HeldSound(c, outs, all, dropped)
    BY <1>1, <1>5
  <2>3. Len(all) \in Nat /\ Len(all) >= 1
    BY <1>1, <1>4 DEF HeldSound
  <2>4. buffering.max \in Nat
    BY BuffersAssumption
  <2>5. n \in 0..Len(all) /\ m = n + 1
    <3> HIDE DEF all
    <3>1. Len(all) - buffering.max + 1 \in Int
      BY <2>3, <2>4
    <3>2. m = IF 1 >= Len(all) - buffering.max + 1 THEN 1 ELSE Len(all) - buffering.max + 1
      BY <3>1, MaxOfTwo
    <3> HIDE DEF m
    <3> QED
      BY <2>3, <2>4, <3>2
  <2>6. HeldSound(c, outs, SubSeq(all, n + 1, Len(all)),
                  dropped \cup (ToSet(all) \ ToSet(SubSeq(all, n + 1, Len(all)))))
    <3> HIDE DEF n, all
    <3> QED
      BY <1>1, <2>2, <2>5, HeldForgets
  <2>7. SubSeq(all, n + 1, Len(all)) = kept
    BY <2>5
  <2>8. HeldSound(c, outs, kept, dropped \cup (ToSet(all) \ ToSet(kept)))
    <3> HIDE DEF n, all, kept
    <3> QED
      BY <2>6, <2>7
  <2> HIDE DEF all, kept
  <2> QED
    BY <1>1, <1>2, <2>1, <2>8 DEF HeldRest
<1> QED
  BY <1>6, <1>7

LEMMA ThrottleStep ==
  ASSUME HeldInv, HeldRest, buffering \in Buffers, Throttle
  PROVE  /\ HeldSound(called, outs, held, dropped)' /\ HeldRest'
         /\ ~buffering.timed => held' = held
<1> USE DEF Throttle
<1>1. /\ called \in Nat /\ called < MaxGiven /\ called' = called + 1
      /\ called' \in 0..MaxGiven /\ called' \in Given
  BY CallsType DEF HeldRest
<1>2. answered' \in [Given -> Nat]
  BY CallsBackType DEF HeldRest
<1>3. HeldSound(called, outs, held, dropped) /\ timer' = timer /\ dropped' = dropped
  BY DEF HeldInv
<1>4. HeldSound(called + 1, outs, Append(held, called + 1), dropped)
  BY <1>1, <1>3, HeldEnters
<1>5. CASE buffering.timed
  BY <1>1, <1>2, <1>3, <1>4, <1>5 DEF HeldRest
<1>6. CASE ~buffering.timed
  <2> DEFINE e == called + 1
             h == Append(held, e)
  <2>1. held = <<>> /\ held' = held /\ outs' = Append(outs, <<called'>>)
    BY <1>6 DEF HeldInv, Calls
  <2>2. h = <<e>>
    BY <1>1, <2>1
  <2>3. HeldSound(e, Append(outs, h), <<>>, dropped)
    <3>1. HeldSound(e, outs, h, dropped) /\ e \in Nat
      BY <1>1, <1>4
    <3> HIDE DEF e, h
    <3> QED
      BY <3>1, AllLeaves
  <2> QED
    BY <1>1, <1>2, <1>3, <2>1, <2>2, <2>3 DEF HeldRest
<1> QED
  BY <1>5, <1>6

LEMMA ThrottleTickStep ==
  ASSUME HeldInv, HeldRest, ThrottleTick
  PROVE  HeldSound(called, outs, held, dropped)' /\ HeldRest'
<1>1. HeldSound(called, outs, held, dropped)
  BY DEF HeldInv
<1>2. held \in Seq(Given) /\ held # <<>> /\ called \in Nat
  BY <1>1, BuffersAssumption DEF ThrottleTick, HeldSound, HeldRest
<1>3. /\ SubSeq(held, 1, 1) = <<Head(held)>> /\ SubSeq(held, 2, Len(held)) = Tail(held)
      /\ 1 \in 0..Len(held)
  <2>1. Len(held) \in Nat /\ Len(held) >= 1
    BY <1>2
  <2>2. SubSeq(held, 1, 1) = <<held[1]>> /\ Head(held) = held[1]
    <3> DEFINE u == SubSeq(held, 1, 1)
    <3>1. u \in Seq(Given) /\ Len(u) = 1 /\ u[1] = held[1] /\ held[1] \in Given
      BY <1>2, <2>1
    <3> HIDE DEF u
    <3>2. u = <<held[1]>>
      BY <3>1
    <3> QED
      BY <1>2, <3>2 DEF u
  <2>3. SubSeq(held, 2, Len(held)) = Tail(held)
    BY <1>2, TailIsSubSeq
  <2> QED
    BY <2>1, <2>2, <2>3
<1> DEFINE n == 1
<1>4. HeldSound(called, Append(outs, SubSeq(held, 1, n)), SubSeq(held, n + 1, Len(held)), dropped)
  <2>1. n \in 0..Len(held)
    BY <1>3
  <2> HIDE DEF n
  <2> QED
    BY <1>1, <1>2, <2>1, HeldLeaves
<1>5. HeldSound(called, Append(outs, <<Head(held)>>), Tail(held), dropped)
  <2>1. n + 1 = 2 /\ n = 1
    OBVIOUS
  <2> QED
    BY <1>3, <1>4, <2>1
<1>6. answered' \in [Given -> Nat]
  BY CallsBackType DEF ThrottleTick, HeldRest
<1> QED
  BY <1>5, <1>6 DEF ThrottleTick, HeldRest

LEMMA SendsArray ==
  ASSUME NEW c \in Nat, NEW all, HeldSound(c, outs, all, dropped), buffering \in Buffers,
         SendArray(all), answered \in [Given -> Nat]
  PROVE  HeldSound(c, outs', held', dropped) /\ answered' \in [Given -> Nat]
<1>1. all \in Seq(Given) /\ Len(all) \in Nat /\ buffering.max \in Nat
  BY BuffersAssumption DEF HeldSound
<1> DEFINE n == Min({buffering.max, Len(all)})
<1>2. n = IF buffering.max <= Len(all) THEN buffering.max ELSE Len(all)
  BY <1>1, MinOfTwo
<1>3. FirstOf(all) = SubSeq(all, 1, n)
  BY DEF FirstOf
<1> HIDE DEF n
<1>4. n \in 0..Len(all)
  BY <1>1, <1>2
<1>5. Rest(all) = SubSeq(all, n + 1, Len(all))
  <2>1. CASE buffering.max <= Len(all)
    BY <1>2, <2>1 DEF Rest
  <2>2. CASE ~(buffering.max <= Len(all))
    <3>1. SubSeq(all, buffering.max + 1, Len(all)) = <<>>
      BY <1>1, <2>2, SubSeqEmpty
    <3>2. SubSeq(all, n + 1, Len(all)) = <<>>
      <4>1. n + 1 > Len(all) /\ n + 1 \in Int /\ Len(all) \in Int
        BY <1>1, <1>2, <2>2
      <4> DEFINE m == n + 1
      <4>2. m > Len(all) /\ m \in Int
        BY <4>1
      <4> HIDE DEF m
      <4>3. SubSeq(all, m, Len(all)) = <<>>
        BY <4>1, <4>2, SubSeqEmpty
      <4> QED
        BY <4>3 DEF m
    <3> QED
      BY <3>1, <3>2 DEF Rest
  <2> QED
    BY <2>1, <2>2
<1>6. HeldSound(c, Append(outs, SubSeq(all, 1, n)), SubSeq(all, n + 1, Len(all)), dropped)
  BY <1>4, HeldLeaves
<1>7. answered' \in [Given -> Nat]
  BY CallsBackType DEF SendArray
<1> QED
  BY <1>3, <1>5, <1>6, <1>7 DEF SendArray

LEMMA CollectStep ==
  ASSUME HeldInv, HeldRest, buffering \in Buffers, Collect
  PROVE  HeldSound(called, outs, held, dropped)' /\ HeldRest'
<1> USE DEF Collect
<1>1. /\ called \in Nat /\ called < MaxGiven /\ called' = called + 1
      /\ called' \in 0..MaxGiven /\ called' \in Given
  BY CallsType DEF HeldRest
<1>2. HeldSound(called, outs, held, dropped) /\ timer' = timer /\ dropped' = dropped
  BY DEF HeldInv
<1>3. HeldSound(called', outs, Append(held, called'), dropped)
  BY <1>1, <1>2, HeldEnters
<1>4. CASE ~buffering.timed /\ Len(held) + 1 >= buffering.max
  <2> DEFINE all == Append(held, called')
             c == called'
  <2>1. SendArray(all)
    BY <1>4
  <2>2. HeldSound(c, outs, all, dropped) /\ c \in Nat /\ answered \in [Given -> Nat]
    BY <1>1, <1>3 DEF HeldRest
  <2> HIDE DEF all
  <2>3. HeldSound(c, outs', held', dropped) /\ answered' \in [Given -> Nat]
    <3> HIDE DEF c
    <3> QED
      BY <2>1, <2>2, SendsArray
  <2> QED
    BY <1>1, <1>2, <2>3 DEF HeldRest
<1>5. CASE ~(~buffering.timed /\ Len(held) + 1 >= buffering.max)
  <2>1. held' = Append(held, called') /\ answered' = answered /\ outs' = outs
    BY <1>5
  <2> QED
    BY <1>1, <1>2, <1>3, <2>1 DEF HeldRest
<1> QED
  BY <1>4, <1>5


LEMMA FilterOffStep ==
  ASSUME FilterOff, buffering.kind # "filter", BufferNext
  PROVE  /\ UNCHANGED filterVars
         /\ Join \/ JoinerFlushes \/ Throttle \/ ThrottleTick \/ Collect \/ ArrayTick
            \/ StopBuffer
<1> USE DEF FilterOff
<1>1. ~Filter
  BY DEF Filter, Calls
<1>2. ~LoopWorks
  BY DEF LoopWorks, LoopStarts, LoopGets, LoopRemoves, LoopPutsOut
<1>3. \A e \in Given : ~Processes(e)
  <2> TAKE e \in Given
  <2>1. ~PurgesMemory(e) /\ ~Purged(e) /\ ~UpdatesTTL(e)
    BY DEF PurgesMemory, Purged, UpdatesTTL, HasSem
  <2>2. ~GetsItem(e) /\ ~HasItem(e)
    BY DEF GetsItem, HasItem, HasEvsem
  <2> QED
    BY <2>1, <2>2 DEF Processes
<1>4. \A due : ~LoopReads(due)
  BY DEF LoopReads, HasSem
<1>5. Join \/ JoinerFlushes \/ Throttle \/ ThrottleTick \/ Collect \/ ArrayTick \/ StopBuffer
  BY <1>1, <1>2, <1>3, <1>4 DEF BufferNext
<1>6. StopBuffer => UNCHANGED filterVars
  BY DEF StopBuffer, filterVars
<1> QED
  BY <1>5, <1>6 DEF Join, JoinerFlushes, Throttle, ThrottleTick, Collect, ArrayTick

LEMMA HeldStep ==
  ASSUME BufferTypeOK, HeldInv, buffering \in Buffers, buffering.kind # "filter", BufferNext
  PROVE  BufferTypeOK' /\ HeldInv' /\ buffering' = buffering
<1>1. HeldRest
  BY DEF HeldRest, BufferTypeOK
<1>2. HeldSound(called, outs, held, dropped) /\ FilterOff
  BY DEF HeldInv
<1>3. /\ UNCHANGED filterVars
      /\ Join \/ JoinerFlushes \/ Throttle \/ ThrottleTick \/ Collect \/ ArrayTick
         \/ StopBuffer
  BY <1>2, FilterOffStep
<1>4. called \in Nat
  BY BuffersAssumption DEF BufferTypeOK
<1>5. ASSUME Join
      PROVE  /\ HeldSound(called, outs, held, dropped)' /\ HeldRest' /\ buffering' = buffering
             /\ buffering.kind = "joiner"
  BY <1>1, <1>5, JoinStep DEF Join, Calls
<1>6. ASSUME JoinerFlushes
      PROVE  /\ HeldSound(called, outs, held, dropped)' /\ HeldRest' /\ buffering' = buffering
             /\ buffering.kind = "joiner"
  <2>1. HeldSound(called, Append(outs, held), <<>>, dropped)
    BY <1>2, <1>4, AllLeaves
  <2> QED
    BY <1>1, <1>6, <2>1 DEF JoinerFlushes, HeldRest
<1>7. ASSUME Throttle
      PROVE  /\ HeldSound(called, outs, held, dropped)' /\ HeldRest' /\ buffering' = buffering
             /\ ~buffering.timed => held' = held
  BY <1>1, <1>7, ThrottleStep DEF Throttle, Calls
<1>8. ASSUME ThrottleTick
      PROVE  /\ HeldSound(called, outs, held, dropped)' /\ HeldRest' /\ buffering' = buffering
             /\ held # <<>>
  BY <1>1, <1>8, ThrottleTickStep DEF ThrottleTick
<1>9. ASSUME Collect
      PROVE  /\ HeldSound(called, outs, held, dropped)' /\ HeldRest' /\ buffering' = buffering
             /\ buffering.kind = "array"
  BY <1>1, <1>9, CollectStep DEF Collect, Calls
<1>10. ASSUME ArrayTick
       PROVE  /\ HeldSound(called, outs, held, dropped)' /\ HeldRest' /\ buffering' = buffering
              /\ buffering.kind = "array"
  <2>1. HeldSound(called, outs', held', dropped) /\ answered' \in [Given -> Nat]
    BY <1>1, <1>2, <1>4, <1>10, SendsArray DEF ArrayTick, HeldRest
  <2> QED
    BY <1>1, <1>10, <2>1 DEF ArrayTick, HeldRest
<1>11. ASSUME StopBuffer
       PROVE  /\ HeldSound(called, outs, held, dropped)' /\ HeldRest' /\ buffering' = buffering
              /\ held' = held
  <2>1. UNCHANGED <<buffering, called, answered, outs, dropped, held>> /\ timer' \in BOOLEAN
    BY <1>1, <1>11 DEF StopBuffer, commonVars, HeldRest
  <2> QED
    BY <1>1, <1>2, <2>1 DEF HeldRest
<1>12. /\ HeldSound(called, outs, held, dropped)' /\ HeldRest' /\ buffering' = buffering
       /\ buffering.kind = "throttle" /\ ~buffering.timed => held' = <<>>
  BY <1>3, <1>5, <1>6, <1>7, <1>8, <1>9, <1>10, <1>11 DEF HeldInv
<1>13. FilterOff'
  BY <1>2, <1>3 DEF FilterOff, filterVars, NoItem, Gone
<1>14. /\ outs' \in Seq(Seq(Given)) /\ dropped' \subseteq Given /\ held' \in Seq(Given)
  BY <1>12 DEF HeldSound
<1>15. BufferTypeOK'
  BY <1>3, <1>12, <1>14 DEF BufferTypeOK, HeldRest, filterVars, Item
<1> QED
  BY <1>12, <1>13, <1>15 DEF HeldInv


(***************************************************************************)
(* Those who wait for a semaphore: each once, and those of P in order.     *)
(***************************************************************************)
Lined(s, S, P) ==
  /\ s \in Seq(S)
  /\ \A i, j \in 1..Len(s) : i < j =>
       s[i] # s[j] /\ (s[i] \in P /\ s[j] \in P => s[i] < s[j])

LEMMA MembersAre ==
  ASSUME NEW S, NEW s \in Seq(S), NEW e
  PROVE  e \in ToSet(s) <=> \E a \in 1..Len(s) : s[a] = e
BY DEF ToSet

LEMMA LinedSame ==
  ASSUME NEW S, NEW P, NEW Q, NEW s, Lined(s, S, P), \A x \in ToSet(s) : x \in Q => x \in P
  PROVE  Lined(s, S, Q)
<1>1. \A i \in 1..Len(s) : s[i] \in ToSet(s)
  BY MembersAre DEF Lined
<1> QED
  BY <1>1 DEF Lined

MayFollow(x, s, P, Q) ==
  x \notin ToSet(s) /\ \A y \in ToSet(s) : y \in Q => y \in P /\ (x \in Q => y < x)
Followed(x, s, t, S, Q) ==
  /\ Lined(t, S, Q) /\ t # <<>> /\ (s # <<>> => Head(t) = Head(s))
  /\ \A y : y \in ToSet(t) <=> y \in ToSet(s) \/ y = x

LEMMA LinedAppend ==
  ASSUME NEW S, NEW P, NEW Q, NEW s, Lined(s, S, P), NEW x \in S, MayFollow(x, s, P, Q),
         NEW t, t = Append(s, x)
  PROVE  Followed(x, s, t, S, Q)
<1>1. /\ s \in Seq(S) /\ Len(s) \in Nat
      /\ t \in Seq(S) /\ Len(t) = Len(s) + 1 /\ t[Len(s) + 1] = x
      /\ \A a \in 1..Len(s) : t[a] = s[a]
  BY DEF Lined
<1>2. /\ t # <<>>
      /\ s # <<>> => Head(t) = Head(s)
  BY <1>1
<1>3. ASSUME NEW a \in 1..Len(t)
      PROVE  (a \in 1..Len(s) /\ t[a] = s[a] /\ s[a] \in ToSet(s)) \/ (a = Len(s) + 1 /\ t[a] = x)
  <2>1. CASE a = Len(s) + 1
    BY <1>1, <2>1
  <2>2. CASE a # Len(s) + 1
    <3>1. a \in 1..Len(s)
      BY <1>1, <2>2
    <3> QED
      BY <1>1, <3>1, MembersAre
  <2> QED
    BY <2>1, <2>2
<1>4. Lined(t, S, Q)
  <2>1. ASSUME NEW i \in 1..Len(t), NEW j \in 1..Len(t), i < j
        PROVE  t[i] # t[j] /\ (t[i] \in Q /\ t[j] \in Q => t[i] < t[j])
    <3>1. i \in 1..Len(s) /\ t[i] = s[i] /\ s[i] \in ToSet(s)
      BY <1>1, <1>3, <2>1
    <3>2. CASE j = Len(s) + 1 /\ t[j] = x
      BY <3>1, <3>2 DEF MayFollow
    <3>3. CASE j \in 1..Len(s) /\ t[j] = s[j] /\ s[j] \in ToSet(s)
      BY <2>1, <3>1, <3>3 DEF Lined, MayFollow
    <3> QED
      BY <1>3, <3>2, <3>3
  <2> QED
    BY <1>1, <2>1 DEF Lined
<1>5. ASSUME NEW y
      PROVE  y \in ToSet(t) <=> y \in ToSet(s) \/ y = x
  <2>1. ASSUME y \in ToSet(t)
        PROVE  y \in ToSet(s) \/ y = x
    <3>1. PICK a \in 1..Len(t) : t[a] = y
      BY <1>1, <2>1, MembersAre
    <3> QED
      BY <1>3, <3>1
  <2>2. ASSUME y \in ToSet(s)
        PROVE  y \in ToSet(t)
    <3>1. PICK a \in 1..Len(s) : s[a] = y
      BY <1>1, <2>2, MembersAre
    <3>2. a \in 1..Len(t) /\ t[a] = y
      BY <1>1, <3>1
    <3> QED
      BY <1>1, <3>2, MembersAre
  <2>3. x \in ToSet(t)
    <3>1. Len(s) + 1 \in 1..Len(t) /\ t[Len(s) + 1] = x
      BY <1>1
    <3> QED
      BY <1>1, <3>1, MembersAre
  <2> QED
    BY <2>1, <2>2, <2>3
<1> QED
  BY <1>2, <1>4, <1>5 DEF Followed

LEMMA LinedTail ==
  ASSUME NEW S, NEW P, NEW Q, NEW s, Lined(s, S, P), s # <<>>,
         \A y \in ToSet(s) : y # Head(s) /\ y \in Q => y \in P
  PROVE  /\ Lined(Tail(s), S, Q)
         /\ \A y : y \in ToSet(Tail(s)) <=> y \in ToSet(s) /\ y # Head(s)
         /\ \A y \in ToSet(s) : y # Head(s) /\ y \in P /\ Head(s) \in P => Head(s) < y
<1> DEFINE t == Tail(s)
           x == Head(s)
<1>1. /\ s \in Seq(S) /\ Len(s) \in Nat /\ Len(s) >= 1 /\ s[1] = x
      /\ t \in Seq(S) /\ Len(t) = Len(s) - 1
      /\ \A a \in 1..Len(t) : t[a] = s[a + 1]
  BY DEF Lined
<1> HIDE DEF t, x
<1>2. \A a \in 1..Len(t) : a + 1 \in 1..Len(s) /\ t[a] = s[a + 1] /\ 1 < a + 1
  BY <1>1
<1>3. ASSUME NEW b \in 1..Len(s), b # 1
      PROVE  \E a \in 1..Len(t) : b = a + 1 /\ t[a] = s[b]
  <2>1. b - 1 \in 1..Len(t) /\ b = (b - 1) + 1
    BY <1>1, <1>3
  <2> QED
    BY <1>2, <2>1
<1>4. ASSUME NEW b \in 1..Len(s), b # 1
      PROVE  /\ s[b] # x
             /\ s[b] \in P /\ x \in P => x < s[b]
  <2>1. 1 \in 1..Len(s) /\ 1 < b
    BY <1>1, <1>4
  <2> QED
    BY <1>1, <2>1 DEF Lined
<1>5. ASSUME NEW y
      PROVE  y \in ToSet(t) <=> y \in ToSet(s) /\ y # x
  <2>1. ASSUME y \in ToSet(t)
        PROVE  y \in ToSet(s) /\ y # x
    <3>1. PICK a \in 1..Len(t) : t[a] = y
      BY <1>1, <2>1, MembersAre
    <3>2. PICK b \in 1..Len(s) : b = a + 1
      BY <1>2
    <3>3. s[b] = y /\ b # 1
      BY <1>2, <3>1, <3>2
    <3> QED
      BY <1>1, <1>4, <3>3, MembersAre
  <2>2. ASSUME y \in ToSet(s), y # x
        PROVE  y \in ToSet(t)
    <3>1. PICK b \in 1..Len(s) : s[b] = y
      BY <1>1, <2>2, MembersAre
    <3>2. b # 1
      BY <1>1, <2>2, <3>1
    <3> QED
      BY <1>1, <1>3, <3>1, <3>2, MembersAre
  <2> QED
    BY <2>1, <2>2
<1>6. ASSUME NEW y \in ToSet(s), y # x, y \in P, x \in P
      PROVE  x < y
  <2>1. PICK b \in 1..Len(s) : s[b] = y
    BY <1>1, <1>6, MembersAre
  <2>2. b # 1
    BY <1>1, <1>6, <2>1
  <2> QED
    BY <1>4, <1>6, <2>1, <2>2
<1>7. Lined(t, S, P)
  <2>1. ASSUME NEW i \in 1..Len(t), NEW j \in 1..Len(t), i < j
        PROVE  t[i] # t[j] /\ (t[i] \in P /\ t[j] \in P => t[i] < t[j])
    <3>1. PICK a, b \in 1..Len(s) : a = i + 1 /\ b = j + 1
      BY <1>2
    <3>2. t[i] = s[a] /\ t[j] = s[b] /\ a < b
      BY <1>2, <2>1, <3>1
    <3> QED
      BY <3>2 DEF Lined
  <2> QED
    BY <1>1, <2>1 DEF Lined
<1>8. Lined(t, S, Q)
  <2>1. \A y \in ToSet(t) : y \in Q => y \in P
    BY <1>5 DEF x
  <2> QED
    BY <1>7, <2>1, LinedSame
<1> QED
  BY <1>5, <1>6, <1>8 DEF t, x

LEMMA HeadIsMember ==
  ASSUME NEW S, NEW s \in Seq(S), s # <<>>
  PROVE  Head(s) \in ToSet(s)
<1>1. 1 \in 1..Len(s) /\ s[1] = Head(s)
  OBVIOUS
<1> QED
  BY <1>1, MembersAre


(***************************************************************************)
(* The filter: entries pass its two semaphores in their order.             *)
(***************************************************************************)
AtPurge(e) == step[e] \in {"purge", "purging"}
AtItem(e) == step[e] \in {"every", "getting"}
AtTTL(e) == step[e] = "ttl"
Purging == {e \in Given : AtPurge(e)}
SemInv ==
  /\ Lined(sem, Given \cup {Loop}, Purging)
  /\ \A x \in ToSet(sem) : IF x = Loop THEN loop \notin {"off", "idle"} ELSE AtPurge(x) \/ AtTTL(x)
  /\ \A e \in Given : AtPurge(e) => e \in ToSet(sem)
EvsemInv ==
  /\ Lined(evsem, Given, Given)
  /\ \A e \in Given : e \in ToSet(evsem) <=> AtItem(e) \/ AtTTL(e)
Turns ==
  /\ \A e \in Given : step[e] = "getting" \/ AtTTL(e) => HasEvsem(e)
  /\ \A e \in Given : step[e] = "purging" => HasSem(e)
  /\ loop \in {"reading", "removing", "removed"} => HasSem(Loop)
InTheirOrder ==
  /\ \A e \in Given : step[e] = "none" <=> e > called
  /\ \A d, e \in Given : step[d] = "done" /\ step[e] # "done" => d < e
  /\ \A d, e \in Given : (AtItem(d) \/ AtTTL(d)) /\ AtPurge(e) => d < e
Control == SemInv /\ EvsemInv /\ Turns /\ InTheirOrder

Steps == {"none", "purge", "purging", "every", "getting", "ttl", "done"}
ControlType == called \in 0..MaxGiven /\ step \in [Given -> Steps]
Moves(e, to) == e \in Given /\ step' = [step EXCEPT ![e] = to]

LEMMA MoveIs ==
  ASSUME ControlType, NEW e, NEW to, Moves(e, to)
  PROVE  \A x \in Given : step'[x] = IF x = e THEN to ELSE step[x]
BY DEF ControlType, Moves

LEMMA GivenFacts ==
  /\ Given \subseteq Nat \ {0} /\ Loop \notin Given
  /\ \A e \in Given : e <= MaxGiven /\ 1 <= e
BY BuffersAssumption DEF Given, Loop

LEMMA SemTyped ==
  ASSUME Control
  PROVE  /\ sem \in Seq(Given \cup {Loop}) /\ evsem \in Seq(Given)
         /\ ToSet(sem) \subseteq Given \cup {Loop} /\ ToSet(evsem) \subseteq Given
<1>1. sem \in Seq(Given \cup {Loop}) /\ evsem \in Seq(Given)
  BY DEF Control, SemInv, EvsemInv, Lined
<1>2. (\A y \in ToSet(sem) : y \in Given \cup {Loop}) /\ \A y \in ToSet(evsem) : y \in Given
  BY <1>1, MembersAre
<1> QED
  BY <1>1, <1>2

(* What comes to a semaphore, or leaves it.                                *)
LEMMA SemAppend ==
  ASSUME Control, NEW x \in Given \cup {Loop}, x \notin ToSet(sem), sem' = Append(sem, x),
         \A y \in ToSet(sem) : y \in Purging' => y \in Purging /\ (x \in Purging' => y < x)
  PROVE  Followed(x, sem, sem', Given \cup {Loop}, Purging')
<1> DEFINE S == Given \cup {Loop}
           P == Purging
           Q == Purging'
           s == sem
<1>1. Lined(s, S, P) /\ x \in S /\ MayFollow(x, s, P, Q)
  BY DEF Control, SemInv, MayFollow
<1>2. sem' = Append(s, x)
  OBVIOUS
<1> HIDE DEF S, P, Q, s
<1>3. Followed(x, s, sem', S, Q)
  BY <1>1, <1>2, LinedAppend
<1> QED
  BY <1>3 DEF S, P, Q, s

LEMMA SemTail ==
  ASSUME Control, sem # <<>>, sem' = Tail(sem),
         \A y \in ToSet(sem) : y # Head(sem) /\ y \in Purging' => y \in Purging
  PROVE  /\ Lined(sem', Given \cup {Loop}, Purging')
         /\ \A y : y \in ToSet(sem') <=> y \in ToSet(sem) /\ y # Head(sem)
         /\ \A y \in ToSet(sem) :
              y # Head(sem) /\ y \in Purging /\ Head(sem) \in Purging => Head(sem) < y
<1> DEFINE S == Given \cup {Loop}
           P == Purging
           Q == Purging'
           s == sem
<1>1. Lined(s, S, P) /\ s # <<>> /\ \A y \in ToSet(s) : y # Head(s) /\ y \in Q => y \in P
  BY DEF Control, SemInv
<1> HIDE DEF S, P, Q, s
<1>2. /\ Lined(Tail(s), S, Q)
      /\ \A y : y \in ToSet(Tail(s)) <=> y \in ToSet(s) /\ y # Head(s)
      /\ \A y \in ToSet(s) : y # Head(s) /\ y \in P /\ Head(s) \in P => Head(s) < y
  BY <1>1, LinedTail
<1> QED
  BY <1>2 DEF S, P, Q, s

LEMMA EvsemAppend ==
  ASSUME Control, NEW x \in Given, x \notin ToSet(evsem), evsem' = Append(evsem, x),
         \A y \in ToSet(evsem) : y < x
  PROVE  Followed(x, evsem, evsem', Given, Given)
<1> DEFINE S == Given
           P == Given
           Q == Given
           s == evsem
<1>1. Lined(s, S, P) /\ x \in S /\ MayFollow(x, s, P, Q)
  BY DEF Control, EvsemInv, MayFollow
<1>2. evsem' = Append(s, x)
  OBVIOUS
<1> HIDE DEF S, P, Q, s
<1>3. Followed(x, s, evsem', S, Q)
  BY <1>1, <1>2, LinedAppend
<1> QED
  BY <1>3 DEF S, P, Q, s

LEMMA EvsemTail ==
  ASSUME Control, evsem # <<>>, evsem' = Tail(evsem)
  PROVE  /\ Lined(evsem', Given, Given)
         /\ \A y : y \in ToSet(evsem') <=> y \in ToSet(evsem) /\ y # Head(evsem)
         /\ \A y \in ToSet(evsem) : y # Head(evsem) => Head(evsem) < y
<1> DEFINE S == Given
           s == evsem
<1>1. Lined(s, S, S) /\ s # <<>> /\ \A y \in ToSet(s) : y # Head(s) /\ y \in S => y \in S
  BY DEF Control, EvsemInv
<1>2. Head(s) \in S /\ \A y \in ToSet(s) : y \in S
  BY <1>1, MembersAre, SemTyped DEF Lined
<1> HIDE DEF S, s
<1>3. /\ Lined(Tail(s), S, S)
      /\ \A y : y \in ToSet(Tail(s)) <=> y \in ToSet(s) /\ y # Head(s)
      /\ \A y \in ToSet(s) : y # Head(s) /\ y \in S /\ Head(s) \in S => Head(s) < y
  BY <1>1, LinedTail
<1> QED
  BY <1>2, <1>3 DEF S, s

(* An entry comes to the last place of the first semaphore.                *)
LEMMA EntersFirst ==
  ASSUME Control, ControlType, called' = called + 1, called' \in Given,
         Moves(called', "purge"), sem' = Append(sem, called'), evsem' = evsem, loop' = loop
  PROVE  Control'
<1> DEFINE e == called'
<1>1. /\ \A x \in Given : step'[x] = IF x = e THEN "purge" ELSE step[x]
      /\ step[e] = "none" /\ e = called + 1 /\ called \in Nat
  BY MoveIs, BuffersAssumption DEF Control, InTheirOrder, ControlType
<1>2. \A x \in Given : step[x] # "none" => x < e
  BY <1>1 DEF Control, InTheirOrder, Given
<1>3. e \in Given /\ e # Loop
  BY GivenFacts
<1> HIDE DEF e
<1>4. e \notin ToSet(sem)
  BY <1>1, <1>3 DEF Control, SemInv, AtPurge, AtTTL
<1>5. \A y \in ToSet(sem) : y \in Purging' => y \in Purging /\ y < e
  BY <1>1, <1>2, <1>3, <1>4 DEF Purging, AtPurge
<1>6. /\ Lined(sem', Given \cup {Loop}, Purging')
      /\ \A y : y \in ToSet(sem') <=> y \in ToSet(sem) \/ y = e
      /\ sem' # <<>>
      /\ sem # <<>> => Head(sem') = Head(sem)
  BY <1>3, <1>4, <1>5, SemAppend DEF e, Followed
<1>7. SemInv'
  <2>1. \A x \in ToSet(sem) : x = Loop \/ (x \in Given /\ x # e)
    BY <1>4, SemTyped
  <2>2. \A x \in ToSet(sem') :
          IF x = Loop THEN loop' \notin {"off", "idle"} ELSE AtPurge(x)' \/ AtTTL(x)'
    BY <1>1, <1>3, <1>6, <2>1 DEF Control, SemInv, AtPurge, AtTTL
  <2>3. \A x \in Given : AtPurge(x)' => x \in ToSet(sem')
    BY <1>1, <1>3, <1>6 DEF Control, SemInv, AtPurge
  <2> QED
    BY <1>6, <2>2, <2>3 DEF SemInv
<1>8. EvsemInv'
  BY <1>1, <1>3 DEF Control, EvsemInv, AtItem, AtTTL
<1>9. Turns'
  BY <1>1, <1>3, <1>6 DEF Control, Turns, HasSem, HasEvsem, AtTTL
<1>10. InTheirOrder'
  <2>1. \A x \in Given : step'[x] = "none" <=> x > e
    BY <1>1, <1>2, <1>3 DEF Control, InTheirOrder, Given
  <2>2. \A d, x \in Given : step'[d] = "done" /\ step'[x] # "done" => d < x
    BY <1>1, <1>2, <1>3 DEF Control, InTheirOrder
  <2>3. \A d, x \in Given : (AtItem(d)' \/ AtTTL(d)') /\ AtPurge(x)' => d < x
    BY <1>1, <1>2, <1>3 DEF Control, InTheirOrder, AtItem, AtTTL, AtPurge
  <2> QED
    BY <2>1, <2>2, <2>3 DEF InTheirOrder, e
<1> QED
  BY <1>7, <1>8, <1>9, <1>10 DEF Control


(* It has the first semaphore, and purges; or it comes to the second.      *)
LEMMA StartsPurge ==
  ASSUME Control, ControlType, NEW e, Moves(e, "purging"), step[e] = "purge", HasSem(e),
         called' = called, sem' = sem, evsem' = evsem, loop' = loop
  PROVE  Control'
<1>1. e \in Given /\ \A x \in Given : step'[x] = IF x = e THEN "purging" ELSE step[x]
  BY MoveIs DEF Moves
<1>2. Purging' = Purging
  BY <1>1 DEF Purging, AtPurge
<1>3. \A x \in ToSet(sem) : x = Loop \/ x \in Given
  BY SemTyped
<1>4. SemInv'
  BY <1>1, <1>2, <1>3 DEF Control, SemInv, AtPurge, AtTTL
<1>5. EvsemInv'
  BY <1>1 DEF Control, EvsemInv, AtItem, AtTTL
<1>6. Turns'
  BY <1>1 DEF Control, Turns, HasSem, HasEvsem, AtTTL
<1>7. InTheirOrder'
  BY <1>1 DEF Control, InTheirOrder, AtItem, AtTTL, AtPurge
<1> QED
  BY <1>4, <1>5, <1>6, <1>7 DEF Control

LEMMA EntersSecond ==
  ASSUME Control, ControlType, NEW e, Moves(e, "every"), AtPurge(e), HasSem(e),
         called' = called, sem' = Tail(sem), evsem' = Append(evsem, e), loop' = loop
  PROVE  Control'
<1>1. e \in Given /\ \A x \in Given : step'[x] = IF x = e THEN "every" ELSE step[x]
  <2>1. e \in Given
    BY DEF Moves
  <2>2. \A x \in Given : step'[x] = IF x = e THEN "every" ELSE step[x]
    BY ONLY ControlType, Moves(e, "every"), MoveIs
  <2> QED
    BY ONLY <2>1, <2>2
<1>2. sem # <<>> /\ Head(sem) = e /\ e # Loop
  BY <1>1, GivenFacts DEF HasSem
<1>3. \A y \in ToSet(sem) : y # Head(sem) /\ y \in Purging' => y \in Purging
  BY <1>1, <1>2 DEF Purging, AtPurge
<1>4. /\ Lined(sem', Given \cup {Loop}, Purging')
      /\ \A y : y \in ToSet(sem') <=> y \in ToSet(sem) /\ y # e
      /\ \A y \in ToSet(sem) : y # e /\ y \in Purging /\ e \in Purging => e < y
  BY <1>2, <1>3, SemTail
<1>5. e \notin ToSet(evsem) /\ \A y \in ToSet(evsem) : y \in Given /\ y < e
  <2>1. e \notin ToSet(evsem)
    BY <1>1 DEF Control, EvsemInv, AtPurge, AtItem, AtTTL
  <2>2. \A y \in ToSet(evsem) : y \in Given
    BY SemTyped
  <2>3. \A y \in ToSet(evsem) : y < e
    BY <1>1, <2>2 DEF Control, EvsemInv, InTheirOrder
  <2> QED
    BY <2>1, <2>2, <2>3
<1>6. /\ Lined(evsem', Given, Given)
      /\ \A y : y \in ToSet(evsem') <=> y \in ToSet(evsem) \/ y = e
      /\ evsem' # <<>>
      /\ evsem # <<>> => Head(evsem') = Head(evsem)
  BY <1>1, <1>5, EvsemAppend DEF Followed
<1>7. \A x \in ToSet(sem) : x = Loop \/ x \in Given
  BY SemTyped
<1>8. SemInv'
  BY <1>1, <1>4, <1>7 DEF Control, SemInv, AtPurge, AtTTL
<1>9. EvsemInv'
  BY <1>1, <1>6 DEF Control, EvsemInv, AtItem, AtTTL, AtPurge
<1>10. Turns'
  <2>1. \A x \in Given : step'[x] = "getting" \/ AtTTL(x)' => HasEvsem(x)'
    BY <1>1, <1>6 DEF Control, Turns, HasEvsem, AtTTL
  <2>2. \A x \in Given : step'[x] # "purging"
    BY <1>1, <1>2 DEF Control, Turns, HasSem
  <2>3. loop' \notin {"reading", "removing", "removed"}
    BY <1>2 DEF Control, Turns, HasSem
  <2> QED
    BY <2>1, <2>2, <2>3 DEF Turns
<1>11. \A x \in Given : AtPurge(x) /\ x # e => e < x
  BY <1>1, <1>4 DEF Control, SemInv, Purging
<1>12. InTheirOrder'
  <2>1. \A x \in Given : step'[x] = "none" <=> x > called
    BY <1>1 DEF Control, InTheirOrder, AtPurge
  <2>2. \A d, x \in Given : step'[d] = "done" /\ step'[x] # "done" => d < x
    BY <1>1 DEF Control, InTheirOrder, AtPurge
  <2>3. \A d, x \in Given : (AtItem(d)' \/ AtTTL(d)') /\ AtPurge(x)' => d < x
    BY <1>1, <1>11 DEF Control, InTheirOrder, AtItem, AtTTL, AtPurge
  <2> QED
    BY <2>1, <2>2, <2>3 DEF InTheirOrder
<1> QED
  BY <1>8, <1>9, <1>10, <1>12 DEF Control

LEMMA StartsGetting ==
  ASSUME Control, ControlType, NEW e, Moves(e, "getting"), step[e] = "every", HasEvsem(e),
         called' = called, sem' = sem, evsem' = evsem, loop' = loop
  PROVE  Control'
<1>1. e \in Given /\ \A x \in Given : step'[x] = IF x = e THEN "getting" ELSE step[x]
  BY MoveIs DEF Moves
<1>2. Purging' = Purging
  BY <1>1 DEF Purging, AtPurge
<1>3. \A x \in ToSet(sem) : x = Loop \/ x \in Given
  BY SemTyped
<1>4. SemInv'
  BY <1>1, <1>2, <1>3 DEF Control, SemInv, AtPurge, AtTTL
<1>5. EvsemInv'
  BY <1>1 DEF Control, EvsemInv, AtItem, AtTTL
<1>6. Turns'
  BY <1>1 DEF Control, Turns, HasSem, HasEvsem, AtTTL
<1>7. InTheirOrder'
  BY <1>1 DEF Control, InTheirOrder, AtItem, AtTTL, AtPurge
<1> QED
  BY <1>4, <1>5, <1>6, <1>7 DEF Control

(* The first of the second semaphore is the first that is not counted.     *)
LEMMA FirstNotCounted ==
  ASSUME Control, ControlType, NEW e \in Given, AtItem(e), HasEvsem(e)
  PROVE  /\ \A x \in Given : step[x] \notin {"done", "ttl"} /\ x # e => e < x
         /\ \A x \in Given : step[x] # "done" /\ x # e => e < x
         /\ \A x \in Given : ~AtTTL(x) /\ (step[x] = "getting" => x = e)
         /\ \A x \in Given : step[x] \in {"done", "ttl"} => x < e
<1>1. evsem # <<>> /\ Head(evsem) = e
  BY DEF HasEvsem
<1>2. \A x \in Given : step[x] = "getting" \/ AtTTL(x) => x = e
  BY <1>1 DEF Control, Turns, HasEvsem
<1>3. \A x \in Given : ~AtTTL(x)
  BY <1>2 DEF AtItem, AtTTL
<1>4. \A y \in ToSet(evsem) : y # e => e < y
  <2> DEFINE S == Given
             s == evsem
  <2>1. /\ Lined(s, S, S) /\ s # <<>>
        /\ \A y \in ToSet(s) : y # Head(s) /\ y \in S => y \in S
    BY <1>1 DEF Control, EvsemInv
  <2>2. \A y \in ToSet(s) : y \in S
    BY SemTyped
  <2> HIDE DEF S, s
  <2>3. \A y \in ToSet(s) : y # Head(s) /\ y \in S /\ Head(s) \in S => Head(s) < y
    BY <2>1, LinedTail
  <2> QED
    BY <1>1, <2>2, <2>3 DEF S, s
<1>5. \A x \in Given : AtItem(x) /\ x # e => e < x
  BY <1>4 DEF Control, EvsemInv
<1>6. \A x \in Given : AtPurge(x) => e < x
  BY DEF Control, InTheirOrder
<1>7. \A x \in Given : step[x] = "none" => e < x
  BY GivenFacts, BuffersAssumption DEF Control, InTheirOrder, ControlType, AtItem
<1>8. \A x \in Given : step[x] \in Steps
  BY DEF ControlType
<1>9. \A x \in Given : step[x] # "done" /\ x # e => e < x
  BY <1>3, <1>5, <1>6, <1>7, <1>8 DEF Steps, AtItem, AtPurge, AtTTL
<1>10. \A x \in Given : step[x] = "done" => x < e
  BY DEF Control, InTheirOrder, AtItem
<1> QED
  BY <1>2, <1>3, <1>9, <1>10 DEF AtTTL


(* It is counted, and waits with the second semaphore for the first; or it *)
(* is done.                                                                *)
LEMMA EntersTTL ==
  ASSUME Control, ControlType, NEW e, Moves(e, "ttl"), AtItem(e), HasEvsem(e),
         called' = called, sem' = Append(sem, e), evsem' = evsem, loop' = loop
  PROVE  Control'
<1>1. e \in Given
  BY DEF Moves
<1>2. \A x \in Given : step'[x] = IF x = e THEN "ttl" ELSE step[x]
  BY ONLY ControlType, Moves(e, "ttl"), MoveIs
<1>3. /\ \A x \in Given : step[x] # "done" /\ x # e => e < x
      /\ \A x \in Given : ~AtTTL(x) /\ (step[x] = "getting" => x = e)
  BY <1>1, FirstNotCounted
<1>4. e \notin ToSet(sem) /\ e # Loop
  BY <1>1, GivenFacts DEF Control, SemInv, AtPurge, AtItem, AtTTL
<1>5. Purging' = Purging /\ e \notin Purging
  BY <1>1, <1>2 DEF Purging, AtPurge, AtItem
<1>6. /\ Lined(sem', Given \cup {Loop}, Purging')
      /\ \A y : y \in ToSet(sem') <=> y \in ToSet(sem) \/ y = e
      /\ sem' # <<>>
      /\ sem # <<>> => Head(sem') = Head(sem)
  BY <1>1, <1>4, <1>5, SemAppend DEF Followed
<1>7. \A x \in ToSet(sem) : x = Loop \/ x \in Given
  BY SemTyped
<1>8. SemInv'
  <2>1. \A x \in ToSet(sem') :
          IF x = Loop THEN loop' \notin {"off", "idle"} ELSE AtPurge(x)' \/ AtTTL(x)'
    BY <1>1, <1>2, <1>4, <1>6, <1>7 DEF Control, SemInv, AtPurge, AtTTL
  <2>2. \A x \in Given : AtPurge(x)' => x \in ToSet(sem')
    BY <1>1, <1>2, <1>6 DEF Control, SemInv, AtPurge
  <2> QED
    BY <1>6, <2>1, <2>2 DEF SemInv
<1>9. EvsemInv'
  BY <1>1, <1>2 DEF Control, EvsemInv, AtItem, AtTTL
<1>10. Turns'
  BY <1>1, <1>2, <1>6 DEF Control, Turns, HasSem, HasEvsem, AtTTL
<1>11. InTheirOrder'
  <2>1. \A x \in Given : step'[x] = "none" <=> x > called
    BY <1>1, <1>2 DEF Control, InTheirOrder, AtItem
  <2>2. \A d, x \in Given : step'[d] = "done" /\ step'[x] # "done" => d < x
    BY <1>1, <1>2 DEF Control, InTheirOrder, AtItem
  <2>3. \A d, x \in Given : (AtItem(d)' \/ AtTTL(d)') /\ AtPurge(x)' => d < x
    BY <1>1, <1>2 DEF Control, InTheirOrder, AtItem, AtTTL, AtPurge
  <2> QED
    BY <2>1, <2>2, <2>3 DEF InTheirOrder
<1> QED
  BY <1>8, <1>9, <1>10, <1>11 DEF Control

LEMMA IsDone ==
  ASSUME Control, ControlType, NEW e, Moves(e, "done"), AtItem(e), HasEvsem(e),
         called' = called, sem' = sem, evsem' = Tail(evsem), loop' = loop
  PROVE  Control'
<1>1. e \in Given
  BY DEF Moves
<1>2. \A x \in Given : step'[x] = IF x = e THEN "done" ELSE step[x]
  BY ONLY ControlType, Moves(e, "done"), MoveIs
<1>3. /\ \A x \in Given : step[x] # "done" /\ x # e => e < x
      /\ \A x \in Given : ~AtTTL(x) /\ (step[x] = "getting" => x = e)
  BY <1>1, FirstNotCounted
<1>4. evsem # <<>> /\ Head(evsem) = e
  BY DEF HasEvsem
<1>5. /\ Lined(evsem', Given, Given)
      /\ \A y : y \in ToSet(evsem') <=> y \in ToSet(evsem) /\ y # e
  BY <1>4, EvsemTail
<1>6. Purging' = Purging
  BY <1>1, <1>2 DEF Purging, AtPurge, AtItem
<1>7. \A x \in ToSet(sem) : x = Loop \/ x \in Given
  BY SemTyped
<1>8. SemInv'
  BY <1>1, <1>2, <1>6, <1>7 DEF Control, SemInv, AtPurge, AtTTL, AtItem
<1>9. EvsemInv'
  BY <1>1, <1>2, <1>5 DEF Control, EvsemInv, AtItem, AtTTL
<1>10. Turns'
  BY <1>1, <1>2, <1>3 DEF Control, Turns, HasSem, AtTTL
<1>11. InTheirOrder'
  <2>1. \A x \in Given : step'[x] = "none" <=> x > called
    BY <1>1, <1>2 DEF Control, InTheirOrder, AtItem
  <2>2. \A d, x \in Given : step'[d] = "done" /\ step'[x] # "done" => d < x
    BY <1>1, <1>2, <1>3 DEF Control, InTheirOrder
  <2>3. \A d, x \in Given : (AtItem(d)' \/ AtTTL(d)') /\ AtPurge(x)' => d < x
    BY <1>1, <1>2 DEF Control, InTheirOrder, AtItem, AtTTL, AtPurge
  <2> QED
    BY <2>1, <2>2, <2>3 DEF InTheirOrder
<1> QED
  BY <1>8, <1>9, <1>10, <1>11 DEF Control

LEMMA LeavesBoth ==
  ASSUME Control, ControlType, NEW e, Moves(e, "done"), AtTTL(e), HasSem(e),
         called' = called, sem' = Tail(sem), evsem' = Tail(evsem), loop' = loop
  PROVE  Control'
<1>1. e \in Given
  BY DEF Moves
<1>2. \A x \in Given : step'[x] = IF x = e THEN "done" ELSE step[x]
  BY ONLY ControlType, Moves(e, "done"), MoveIs
<1>3. evsem # <<>> /\ Head(evsem) = e
  BY <1>1 DEF Control, Turns, HasEvsem
<1>4. sem # <<>> /\ Head(sem) = e /\ e # Loop
  BY <1>1, GivenFacts DEF HasSem
<1>5. /\ Lined(evsem', Given, Given)
      /\ \A y : y \in ToSet(evsem') <=> y \in ToSet(evsem) /\ y # e
      /\ \A y \in ToSet(evsem) : y # e => e < y
  BY <1>3, EvsemTail
<1>6. Purging' = Purging
  BY <1>1, <1>2 DEF Purging, AtPurge, AtTTL
<1>7. /\ Lined(sem', Given \cup {Loop}, Purging')
      /\ \A y : y \in ToSet(sem') <=> y \in ToSet(sem) /\ y # e
  BY <1>4, <1>6, SemTail
<1>8. \A x \in ToSet(sem) : x = Loop \/ x \in Given
  BY SemTyped
<1>9. SemInv'
  BY <1>1, <1>2, <1>4, <1>7, <1>8 DEF Control, SemInv, AtPurge, AtTTL
<1>10. EvsemInv'
  BY <1>1, <1>2, <1>5 DEF Control, EvsemInv, AtItem, AtTTL
<1>11. Turns'
  <2>1. \A x \in Given : x # e => step[x] # "getting" /\ ~AtTTL(x)
    BY <1>3 DEF Control, Turns, HasEvsem
  <2>2. \A x \in Given : step[x] # "purging"
    BY <1>4 DEF Control, Turns, HasSem, AtTTL
  <2>3. loop \notin {"reading", "removing", "removed"}
    BY <1>4 DEF Control, Turns, HasSem
  <2> QED
    BY <1>1, <1>2, <2>1, <2>2, <2>3 DEF Turns, AtTTL
<1>12. \A x \in Given : step[x] # "done" /\ x # e => e < x
  <2>1. \A x \in Given : AtItem(x) /\ x # e => e < x
    BY <1>5 DEF Control, EvsemInv
  <2>2. \A x \in Given : AtTTL(x) => x = e
    BY <1>3 DEF Control, Turns, HasEvsem
  <2>3. \A x \in Given : AtPurge(x) => e < x
    BY <1>1 DEF Control, InTheirOrder
  <2>4. \A x \in Given : step[x] = "none" => e < x
    BY <1>1, GivenFacts, BuffersAssumption DEF Control, InTheirOrder, ControlType, AtTTL
  <2>5. \A x \in Given : step[x] \in Steps
    BY DEF ControlType
  <2> QED
    BY <2>1, <2>2, <2>3, <2>4, <2>5 DEF Steps, AtItem, AtPurge, AtTTL
<1>13. InTheirOrder'
  <2>1. \A x \in Given : step'[x] = "none" <=> x > called
    BY <1>1, <1>2 DEF Control, InTheirOrder, AtTTL
  <2>2. \A d, x \in Given : step'[d] = "done" /\ step'[x] # "done" => d < x
    BY <1>1, <1>2, <1>12 DEF Control, InTheirOrder
  <2>3. \A d, x \in Given : (AtItem(d)' \/ AtTTL(d)') /\ AtPurge(x)' => d < x
    BY <1>1, <1>2 DEF Control, InTheirOrder, AtItem, AtTTL, AtPurge
  <2> QED
    BY <2>1, <2>2, <2>3 DEF InTheirOrder
<1> QED
  BY <1>9, <1>10, <1>11, <1>13 DEF Control

(* The loop comes, works and leaves.                                       *)
LEMMA LoopEnters ==
  ASSUME Control, loop = "idle", loop' = "waits", sem' = Append(sem, Loop),
         called' = called, step' = step, evsem' = evsem
  PROVE  Control'
<1>1. Purging' = Purging /\ Loop \notin Purging
  BY GivenFacts DEF Purging, AtPurge
<1>2. Loop \notin ToSet(sem)
  BY DEF Control, SemInv
<1>3. /\ Lined(sem', Given \cup {Loop}, Purging')
      /\ \A y : y \in ToSet(sem') <=> y \in ToSet(sem) \/ y = Loop
      /\ sem' # <<>>
      /\ sem # <<>> => Head(sem') = Head(sem)
  BY <1>1, <1>2, SemAppend DEF Followed
<1>4. SemInv'
  BY <1>2, <1>3 DEF Control, SemInv, AtPurge, AtTTL
<1>5. EvsemInv'
  BY DEF Control, EvsemInv, AtItem, AtTTL
<1>6. Turns'
  BY <1>3 DEF Control, Turns, HasSem, HasEvsem, AtTTL
<1>7. InTheirOrder'
  BY DEF Control, InTheirOrder, AtItem, AtTTL, AtPurge
<1> QED
  BY <1>4, <1>5, <1>6, <1>7 DEF Control

LEMMA LoopGoesOn ==
  ASSUME Control, sem' = sem, called' = called, step' = step, evsem' = evsem,
         \/ loop \notin {"off", "idle"} /\ loop' \notin {"off", "idle"} /\ HasSem(Loop)
         \/ loop \in {"off", "idle"} /\ loop' \in {"off", "idle"}
  PROVE  Control'
<1>1. Purging' = Purging
  BY DEF Purging, AtPurge
<1>2. SemInv'
  BY <1>1 DEF Control, SemInv, AtPurge, AtTTL
<1>3. EvsemInv'
  BY DEF Control, EvsemInv, AtItem, AtTTL
<1>4. Turns'
  BY DEF Control, Turns, HasSem, HasEvsem, AtTTL
<1>5. InTheirOrder'
  BY DEF Control, InTheirOrder, AtItem, AtTTL, AtPurge
<1> QED
  BY <1>2, <1>3, <1>4, <1>5 DEF Control

LEMMA LoopLeaves ==
  ASSUME Control, HasSem(Loop), loop' = "idle", sem' = Tail(sem),
         called' = called, step' = step, evsem' = evsem
  PROVE  Control'
<1>1. Purging' = Purging
  BY DEF Purging, AtPurge
<1>2. sem # <<>> /\ Head(sem) = Loop
  BY DEF HasSem
<1>3. /\ Lined(sem', Given \cup {Loop}, Purging')
      /\ \A y : y \in ToSet(sem') <=> y \in ToSet(sem) /\ y # Loop
  BY <1>1, <1>2, SemTail
<1>4. SemInv'
  BY <1>3, GivenFacts DEF Control, SemInv, AtPurge, AtTTL
<1>5. EvsemInv'
  BY DEF Control, EvsemInv, AtItem, AtTTL
<1>6. Turns'
  BY <1>2, GivenFacts DEF Control, Turns, HasSem, HasEvsem, AtTTL
<1>7. InTheirOrder'
  BY DEF Control, InTheirOrder, AtItem, AtTTL, AtPurge
<1> QED
  BY <1>4, <1>5, <1>6, <1>7 DEF Control


(***************************************************************************)
(* What is kept by key, behind what was put out.                           *)
(***************************************************************************)
KeptSound(s, K, C) ==
  /\ s \in Seq(Seq(Given)) /\ InKeyOrder(s)
  /\ \A k \in Keys : K[k] \in Seq(Given) /\ Ascends(K[k])
  /\ \A k \in Keys : \A e \in ToSet(K[k]) : KeyOf[e] = k /\ Behind(e, s)
  /\ \A e \in Given : (Has(s, e) \/ e \in ToSet(K[KeyOf[e]])) <=> e \in C

LEMMA KeyOfType == \A e \in Given : KeyOf[e] \in Keys
BY BuffersAssumption

LEMMA KeptSame ==
  ASSUME NEW s, NEW K, NEW C, KeptSound(s, K, C), NEW L, \A k \in Keys : L[k] = K[k],
         NEW D, \A e \in Given : e \in D <=> e \in C
  PROVE  KeptSound(s, L, D)
BY KeyOfType DEF KeptSound

LEMMA KeptCounts ==
  ASSUME NEW s, NEW K, NEW C, KeptSound(s, K, C),
         NEW e \in Given, \A d \in Given : d \in C => d < e,
         NEW L, \A k \in Keys : L[k] = IF k = KeyOf[e] THEN Append(K[k], e) ELSE K[k],
         NEW D, \A d \in Given : d \in D <=> d \in C \/ d = e
  PROVE  KeptSound(s, L, D)
<1> DEFINE k == KeyOf[e]
           new == Append(K[k], e)
<1>1. k \in Keys /\ K[k] \in Seq(Given) /\ Ascends(K[k])
  BY KeyOfType DEF KeptSound
<1>2. \A x \in ToSet(K[k]) : x \in Given /\ KeyOf[x] = k
  BY <1>1, ToSetIn DEF KeptSound
<1>3. \A x \in ToSet(K[k]) : x < e
  BY <1>2 DEF KeptSound
<1>4. new \in Seq(Given) /\ ToSet(new) = ToSet(K[k]) \cup {e} /\ Ascends(new)
  <2> DEFINE h == K[k]
  <2>1. h \in Seq(Given) /\ Ascends(h) /\ \A d \in ToSet(h) : d < e
    BY <1>1, <1>3
  <2> HIDE DEF h
  <2>2. Append(h, e) \in Seq(Given) /\ ToSet(Append(h, e)) = ToSet(h) \cup {e}
        /\ Ascends(Append(h, e))
    BY <2>1, ToSetAppend, AscendsAppend
  <2> QED
    BY <2>2 DEF h
<1>5. \A j \in Keys : L[j] = IF j = k THEN new ELSE K[j]
  OBVIOUS
<1>6. Behind(e, s)
  BY DEF KeptSound, Behind
<1> HIDE DEF new, k
<1>7. \A j \in Keys : L[j] \in Seq(Given) /\ Ascends(L[j])
  BY <1>4, <1>5 DEF KeptSound
<1>8. \A j \in Keys : \A x \in ToSet(L[j]) : KeyOf[x] = j /\ Behind(x, s)
  <2> TAKE j \in Keys
  <2>1. CASE j # k
    BY <1>5, <2>1 DEF KeptSound
  <2>2. CASE j = k
    BY <1>4, <1>5, <1>6, <2>2 DEF KeptSound, k
  <2> QED
    BY <2>1, <2>2
<1>9. \A x \in Given : (Has(s, x) \/ x \in ToSet(L[KeyOf[x]])) <=> x \in D
  <2> TAKE x \in Given
  <2>1. KeyOf[x] \in Keys
    BY KeyOfType
  <2>2. CASE KeyOf[x] # k
    <3>1. L[KeyOf[x]] = K[KeyOf[x]] /\ x # e
      BY <1>5, <2>1, <2>2 DEF k
    <3> QED
      BY <3>1 DEF KeptSound
  <2>3. CASE KeyOf[x] = k
    <3>1. ToSet(L[KeyOf[x]]) = ToSet(K[KeyOf[x]]) \cup {e}
      BY <1>4, <1>5, <2>1, <2>3
    <3> QED
      BY <3>1 DEF KeptSound
  <2> QED
    BY <2>2, <2>3
<1> QED
  BY <1>7, <1>8, <1>9 DEF KeptSound

LEMMA KeptPutsOutAll ==
  ASSUME NEW s, NEW K, NEW C, KeptSound(s, K, C),
         NEW ks \in Seq(Keys), \A i, j \in 1..Len(ks) : i # j => ks[i] # ks[j],
         NEW r, r = [i \in 1..Len(ks) |-> K[ks[i]]],
         NEW L, \A k \in Keys : L[k] = IF \E i \in 1..Len(ks) : ks[i] = k THEN <<>> ELSE K[k]
  PROVE  KeptSound(s \o r, L, C)
<1>1. Len(ks) \in Nat /\ \A i \in 1..Len(ks) : ks[i] \in Keys
  OBVIOUS
<1>2. /\ r \in Seq(Seq(Given)) /\ Len(r) = Len(ks) /\ DOMAIN r = 1..Len(ks)
      /\ \A i \in 1..Len(r) : r[i] = K[ks[i]]
  BY <1>1 DEF KeptSound
<1>3. \A i \in 1..Len(r) : \A x \in ToSet(r[i]) : x \in Given /\ KeyOf[x] = ks[i] /\ Behind(x, s)
  BY <1>1, <1>2, ToSetIn DEF KeptSound
<1>4. InKeyOrder(r)
  <2>1. ASSUME NEW i \in DOMAIN r, NEW j \in DOMAIN r,
               NEW a \in DOMAIN r[i], NEW b \in DOMAIN r[j],
               KeyOf[r[i][a]] = KeyOf[r[j][b]], i < j \/ (i = j /\ a < b)
        PROVE  r[i][a] < r[j][b]
    <3>1. i \in 1..Len(r) /\ j \in 1..Len(r) /\ r[i] \in Seq(Given) /\ r[j] \in Seq(Given)
      BY <1>2
    <3>2. r[i][a] \in ToSet(r[i]) /\ r[j][b] \in ToSet(r[j])
      BY <3>1, MembersAre DEF ToSet
    <3>3. ks[i] = ks[j]
      BY <1>3, <2>1, <3>1, <3>2
    <3>4. i = j /\ a < b
      BY <1>2, <2>1, <3>1, <3>3
    <3>5. Ascends(r[i]) /\ a \in 1..Len(r[i]) /\ b \in 1..Len(r[i])
      BY <1>1, <1>2, <3>1, <3>4 DEF KeptSound
    <3> QED
      BY <3>4, <3>5 DEF Ascends
  <2> QED
    BY ONLY <2>1 DEF InKeyOrder
<1>5. \A e \in Given : Has(r, e) => Behind(e, s)
  BY <1>3 DEF Has
<1>6. /\ s \o r \in Seq(Seq(Given)) /\ InKeyOrder(s \o r)
      /\ \A e : Has(s \o r, e) <=> Has(s, e) \/ Has(r, e)
  <2>1. s \in Seq(Seq(Given)) /\ InKeyOrder(s)
    BY DEF KeptSound
  <2> QED
    BY ONLY <1>2, <1>4, <1>5, <2>1, PutsOutAll
<1> DEFINE t == s \o r
           Put(k) == \E i \in 1..Len(ks) : ks[i] = k
<1> HIDE DEF t
<1>7. \A k \in Keys : L[k] = IF Put(k) THEN <<>> ELSE K[k]
  OBVIOUS
<1>8. \A e \in Given : Has(r, e) <=> Put(KeyOf[e]) /\ e \in ToSet(K[KeyOf[e]])
  <2> TAKE e \in Given
  <2>1. ASSUME Has(r, e)
        PROVE  Put(KeyOf[e]) /\ e \in ToSet(K[KeyOf[e]])
    <3>1. PICK i \in 1..Len(r) : e \in ToSet(r[i])
      BY <2>1 DEF Has
    <3>2. KeyOf[e] = ks[i] /\ i \in 1..Len(ks)
      BY <1>2, <1>3, <3>1
    <3> QED
      BY <1>2, <3>1, <3>2
  <2>2. ASSUME Put(KeyOf[e]), e \in ToSet(K[KeyOf[e]])
        PROVE  Has(r, e)
    <3>1. PICK i \in 1..Len(ks) : ks[i] = KeyOf[e]
      BY <2>2
    <3>2. i \in 1..Len(r) /\ e \in ToSet(r[i])
      BY <1>2, <2>2, <3>1
    <3> QED
      BY <3>2 DEF Has
  <2> QED
    BY <2>1, <2>2
<1>9. \A e \in Given : Has(t, e) <=> Has(s, e) \/ Has(r, e)
  BY <1>6 DEF t
<1> HIDE DEF Put
<1>10. \A k \in Keys : L[k] \in Seq(Given) /\ Ascends(L[k])
  <2>1. <<>> \in Seq(Given) /\ Ascends(<<>>)
    BY DEF Ascends
  <2> QED
    BY <1>7, <2>1 DEF KeptSound
<1>11. \A k \in Keys : \A x \in ToSet(L[k]) : KeyOf[x] = k /\ Behind(x, t)
  <2> TAKE k \in Keys
  <2>1. CASE Put(k)
    BY <1>7, <2>1, ToSetEmpty
  <2>2. CASE ~Put(k)
    <3>1. L[k] = K[k]
      BY <1>7, <2>2
    <3>2. ASSUME NEW x \in ToSet(L[k])
          PROVE  KeyOf[x] = k /\ Behind(x, t)
      <4>1. KeyOf[x] = k /\ Behind(x, s)
        BY <3>1 DEF KeptSound
      <4> QED
        BY <1>8, <1>9, <2>2, <4>1 DEF Behind
    <3> QED
      BY <3>2
  <2> QED
    BY <2>1, <2>2
<1>12. \A e \in Given : (Has(t, e) \/ e \in ToSet(L[KeyOf[e]])) <=> e \in C
  <2> TAKE e \in Given
  <2>1. KeyOf[e] \in Keys
    BY KeyOfType
  <2>2. CASE Put(KeyOf[e])
    BY <1>7, <1>8, <1>9, <2>1, <2>2, ToSetEmpty DEF KeptSound
  <2>3. CASE ~Put(KeyOf[e])
    BY <1>7, <1>8, <1>9, <2>1, <2>3 DEF KeptSound
  <2> QED
    BY <2>2, <2>3
<1>13. KeptSound(t, L, C)
  <2>1. t \in Seq(Seq(Given)) /\ InKeyOrder(t)
    BY <1>6 DEF t
  <2> QED
    BY <1>10, <1>11, <1>12, <2>1 DEF KeptSound
<1> QED
  BY <1>13 DEF t

LEMMA KeptPutsOut ==
  ASSUME NEW s, NEW K, NEW C, KeptSound(s, K, C), NEW k \in Keys,
         NEW L, \A j \in Keys : L[j] = IF j = k THEN <<>> ELSE K[j]
  PROVE  KeptSound(Append(s, K[k]), L, C)
<1> DEFINE ks == <<k>>
           r == [i \in 1..Len(ks) |-> K[ks[i]]]
<1>1. ks \in Seq(Keys) /\ Len(ks) = 1 /\ ks[1] = k
  OBVIOUS
<1>2. r = <<K[k]>>
  BY <1>1
<1>3. s \o r = Append(s, K[k])
  <2>1. s \in Seq(Seq(Given)) /\ K[k] \in Seq(Given)
    BY DEF KeptSound
  <2> QED
    BY <1>2, <2>1
<1> HIDE DEF ks
<1>4. \A i, j \in 1..Len(ks) : i # j => ks[i] # ks[j]
  BY <1>1
<1>5. \A j \in Keys : L[j] = IF \E i \in 1..Len(ks) : ks[i] = j THEN <<>> ELSE K[j]
  BY <1>1
<1>6. r = [i \in 1..Len(ks) |-> K[ks[i]]]
  OBVIOUS
<1> HIDE DEF r
<1>7. KeptSound(s \o r, L, C)
  BY ONLY KeptSound(s, K, C), <1>1, <1>4, <1>5, <1>6, KeptPutsOutAll
<1> QED
  BY <1>3, <1>7


HeldOff == held = <<>> /\ dropped = {}
KeptBy == [k \in Keys |-> Kept(k)]
InCount == {e \in Given : step[e] \in {"ttl", "done"}}
DataInv ==
  /\ KeptSound(outs, KeptBy, InCount)
  /\ \A k \in Keys : ~buffer[k].there => buffer[k].has = <<>>
  /\ \A k \in Keys : ~store[k].there => store[k].has = <<>>
  /\ \A e \in Given : step[e] = "getting" => ~buffer[KeyOf[e]].there

(* Without a purge, what is due is in the buffer; ...                      *)
NoPurge ==
  /\ \A e \in Given : step[e] # "purging" /\ (step[e] \notin {"ttl", "done"} => blen < e)
  /\ \A k \in Keys : store[k].has = <<>>
  /\ \A k \in ttls \cup ttlstore \cup ids : buffer[k].there /\ buffer[k].ttl
  /\ loop \in {"reading", "removing", "removed"} => live = ids
  /\ loop = "removed" => ttlstore \cap ids = {}
  /\ \A k \in Keys : buffer[k].there => buffer[k].entry # 0
  /\ \A e \in Given : AtTTL(e) =>
       object[e] = "timed" \/ (object[e] = "live" /\ buffer[KeyOf[e]].there)
(* ... with purges there is one entry at a time, and no loop.              *)
Alone ==
  /\ loop = "off"
  /\ \A e \in Given : ~AtTTL(e)
  /\ \A e \in Given : step[e] # "done" => answered[e] = 0
  /\ \A d, e \in Given : step[d] \notin {"none", "done"} /\ step[e] \notin {"none", "done"} => d = e
  /\ \A e \in Given : step[e] = "purging" => snapshot = buffer
Mode == IF buffering.limit >= MaxGiven THEN NoPurge ELSE Alone
FilterInv == HeldOff /\ Control /\ DataInv /\ Mode

FilterState ==
  /\ BufferTypeOK /\ buffering \in Buffers /\ buffering.kind = "filter" /\ ~PurgeMeetsOthers
  /\ FilterInv

LEMMA FilterFacts ==
  ASSUME FilterState
  PROVE  /\ ControlType /\ called \in Nat
         /\ buffering.pending \in Nat /\ buffering.max \in Nat /\ buffering.limit \in Nat
         /\ buffering.timed \in BOOLEAN /\ buffering.first \in BOOLEAN
         /\ ~(buffering.limit >= MaxGiven) => ~buffering.timed /\ buffering.pending <= 1
         /\ \A k \in Keys : buffer[k] \in Item /\ store[k] \in Item
<1>1. ControlType /\ called \in Nat
  BY BuffersAssumption DEF FilterState, BufferTypeOK, ControlType, Steps
<1>2. /\ buffering.pending \in Nat /\ buffering.max \in Nat /\ buffering.limit \in Nat
      /\ buffering.timed \in BOOLEAN /\ buffering.first \in BOOLEAN
  BY BuffersAssumption DEF FilterState
<1>3. ~(buffering.limit >= MaxGiven) => ~buffering.timed /\ buffering.pending <= 1
  BY <1>2, BuffersAssumption DEF FilterState, PurgeMeetsOthers
<1>4. \A k \in Keys : buffer[k] \in Item /\ store[k] \in Item
  BY DEF FilterState, BufferTypeOK
<1> QED
  BY <1>1, <1>2, <1>3, <1>4

LEMMA ItemType ==
  /\ \A item \in Item : /\ item.there \in BOOLEAN /\ item.has \in Seq(Given) /\ item.first \in BOOLEAN
                        /\ item.entry \in 0..MaxGiven /\ item.ttl \in BOOLEAN
  /\ Gone \in Item /\ NoItem \in [Keys -> Item] /\ Gone.has = <<>> /\ ~Gone.there
<1>1. 0 \in 0..MaxGiven
  BY BuffersAssumption
<1>2. Gone \in Item
  BY <1>1 DEF Item, Gone
<1>3. Gone.has = <<>> /\ ~Gone.there
  BY DEF Gone
<1> QED
  BY <1>2, <1>3 DEF Item, NoItem

(* What is kept when neither an item nor what is counted changes.          *)
LEMMA KeptStays ==
  ASSUME KeptSound(outs, KeptBy, InCount), outs' = outs,
         \A k \in Keys : Kept(k)' = Kept(k),
         \A e \in Given : step'[e] \in {"ttl", "done"} <=> step[e] \in {"ttl", "done"}
  PROVE  KeptSound(outs, KeptBy, InCount)'
<1> DEFINE s == outs
           K == KeptBy
           C == InCount
           L == KeptBy'
           D == InCount'
<1>1. KeptSound(s, K, C) /\ (\A k \in Keys : L[k] = K[k]) /\ \A e \in Given : e \in D <=> e \in C
  BY DEF KeptBy, InCount
<1> HIDE DEF s, K, C, L, D
<1>2. KeptSound(s, L, D)
  BY ONLY <1>1, KeptSame
<1> QED
  BY <1>2 DEF s, L, D

LEMMA SameItems ==
  ASSUME buffer' = buffer, store' = store
  PROVE  \A k \in Keys : Kept(k)' = Kept(k)
BY DEF Kept

(* The entry is counted, and its item puts out or waits.                   *)
LEMMA CountsKeeps ==
  ASSUME FilterState, NEW e \in Given, AtItem(e), HasEvsem(e), NEW item \in Item, item.there,
         item.has = Kept(KeyOf[e]), Counts(e, item),
         store' \in [Keys -> Item],
         \A k \in Keys : store'[k].has = store[k].has,
         \A k \in Keys : ~store'[k].there => store'[k].has = <<>>
  PROVE  /\ Control' /\ DataInv' /\ HeldOff'
         /\ buffer' \in [Keys -> Item] /\ outs' \in Seq(Seq(Given))
         /\ step' \in [Given -> Steps] /\ sem' \in Seq(Given \cup {Loop}) /\ evsem' \in Seq(Given)
         /\ answered' \in [Given -> Nat] /\ object' = [object EXCEPT ![e] = "live"]
         /\ UNCHANGED <<buffering, called, heldVars, snapshot, loopVars>>
         /\ \A k \in Keys : k # KeyOf[e] => buffer'[k] = buffer[k]
         /\ LET k == KeyOf[e]
            IN  buffer'[k].there /\ buffer'[k].ttl = item.ttl /\ buffer'[k].entry = item.entry
         /\ \A x \in Given : x # e => step'[x] = step[x] /\ answered'[x] = answered[x]
         /\ step'[e] \in {"ttl", "done"}
         /\ ~buffering.timed => step'[e] = "done"
<1> DEFINE k == KeyOf[e]
           with == [item EXCEPT !.has = Append(item.has, e)]
           puts == with.first \/ Len(with.has) >= buffering.max
           waits == ~puts /\ buffering.timed
           new == IF puts THEN PutOut(with) ELSE with
<1>1. /\ buffer' = [buffer EXCEPT ![k] = new]
      /\ outs' = IF puts THEN Append(outs, with.has) ELSE outs
      /\ step' = [step EXCEPT ![e] = IF waits THEN "ttl" ELSE "done"]
      /\ sem' = IF waits THEN Append(sem, e) ELSE sem
      /\ object' = [object EXCEPT ![e] = "live"]
      /\ IF waits THEN UNCHANGED <<evsem, answered>>
         ELSE evsem' = Tail(evsem) /\ CallsBack({e})
      /\ UNCHANGED <<buffering, called, heldVars, snapshot, loopVars>>
  BY DEF Counts
<1>2. k \in Keys /\ item.has \in Seq(Given) /\ Append(item.has, e) \in Seq(Given)
  BY KeyOfType, ItemType
<1>3. /\ with \in Item /\ with.has = Append(item.has, e) /\ with.there
      /\ with.ttl = item.ttl /\ with.entry = item.entry
  BY <1>2 DEF Item
<1>4. /\ new \in Item /\ new.there /\ new.ttl = item.ttl /\ new.entry = item.entry
      /\ new.has = IF puts THEN <<>> ELSE with.has
  <2> HIDE DEF with
  <2>1. /\ PutOut(with) \in Item /\ PutOut(with).there /\ PutOut(with).ttl = item.ttl
        /\ PutOut(with).entry = item.entry /\ PutOut(with).has = <<>>
    <3> DEFINE one == [with EXCEPT !.first = FALSE]
               two == [one EXCEPT !.has = <<>>]
    <3>1. /\ one \in Item /\ one.there /\ one.ttl = item.ttl /\ one.entry = item.entry
      BY <1>3 DEF Item
    <3>2. PutOut(with) = two
      BY DEF PutOut
    <3> HIDE DEF one
    <3>3. /\ two \in Item /\ two.there /\ two.ttl = item.ttl /\ two.entry = item.entry
          /\ two.has = <<>>
      <4>1. \A h \in Seq(Given) : LET w == [one EXCEPT !.has = h]
              IN /\ w \in Item /\ w.there /\ w.ttl = item.ttl /\ w.entry = item.entry
                 /\ w.has = h
        BY <3>1 DEF Item
      <4>2. <<>> \in Seq(Given)
        OBVIOUS
      <4> QED
        BY <4>1, <4>2
    <3> QED
      BY <3>2, <3>3
  <2> QED
    BY <1>3, <2>1
<1> HIDE DEF with, new, k, puts
<1>5. /\ buffer \in [Keys -> Item] /\ step \in [Given -> Steps] /\ answered \in [Given -> Nat]
      /\ Control /\ DataInv /\ ControlType /\ Moves(e, IF waits THEN "ttl" ELSE "done")
      /\ heldVars' = heldVars /\ loop' = loop /\ called' = called
  <2>1. ControlType /\ loop' = loop /\ called' = called
    BY <1>1, FilterFacts DEF loopVars
  <2> QED
    BY <1>1, <2>1 DEF FilterState, FilterInv, BufferTypeOK, Steps, Moves
<1>6. Control'
  <2>1. CASE waits
    <3>1. Moves(e, "ttl") /\ sem' = Append(sem, e) /\ evsem' = evsem
      BY <1>1, <1>5, <2>1
    <3> QED
      BY ONLY <1>5, <3>1, AtItem(e), HasEvsem(e), EntersTTL
  <2>2. CASE ~waits
    <3>1. Moves(e, "done") /\ sem' = sem /\ evsem' = Tail(evsem)
      BY <1>1, <1>5, <2>2
    <3> QED
      BY ONLY <1>5, <3>1, AtItem(e), HasEvsem(e), IsDone
  <2> QED
    BY <2>1, <2>2
<1>7. /\ \A j \in Keys : buffer'[j] = IF j = k THEN new ELSE buffer[j]
      /\ buffer' \in [Keys -> Item]
  BY <1>1, <1>2, <1>4, <1>5
<1>8. /\ \A x \in Given : step'[x] = IF x = e THEN (IF waits THEN "ttl" ELSE "done") ELSE step[x]
      /\ step' \in [Given -> Steps]
  BY <1>1, <1>5 DEF Steps
<1>9. \A x \in Given : x \in InCount => x < e
  BY <1>5, FirstNotCounted DEF InCount
<1>10. KeptSound(outs, KeptBy, InCount)'
  <2> DEFINE s == outs
             K == KeptBy
             C == InCount
             D == InCount'
             L == [KeptBy EXCEPT ![k] = Append(Kept(k), e)]
             M == KeptBy'
  <2>1. KeptSound(s, K, C)
    BY <1>5 DEF DataInv
  <2>2. \A j \in Keys : L[j] = IF j = k THEN Append(K[j], e) ELSE K[j]
    BY <1>2 DEF KeptBy
  <2>3. \A d \in Given : d \in D <=> d \in C \/ d = e
    BY <1>8 DEF InCount
  <2>4. \A d \in Given : d \in C => d < e
    BY <1>9
  <2>5. L[k] = with.has
    BY <1>2, <1>3 DEF KeptBy, k
  <2>6. \A j \in Keys : M[j] = IF j = k THEN (IF puts THEN <<>> ELSE L[j]) ELSE L[j]
    <3> TAKE j \in Keys
    <3>1. M[j] = Kept(j)'
      BY DEF KeptBy
    <3>2. CASE j = k
      <4>1. Kept(j)' = new.has
        BY <1>4, <1>7, <3>2 DEF Kept
      <4> HIDE DEF L
      <4> QED
        BY <1>4, <2>5, <3>1, <3>2, <4>1
    <3>3. CASE j # k
      <4>1. Kept(j)' = Kept(j)
        BY <1>7, <3>3 DEF Kept
      <4> QED
        BY <3>1, <3>3, <4>1 DEF KeptBy
    <3> QED
      BY <3>2, <3>3
  <2> HIDE DEF s, K, C, D, L, M
  <2>7. KeptSound(s, L, D)
    <3>1. \A j \in Keys : L[j] = IF j = KeyOf[e] THEN Append(K[j], e) ELSE K[j]
      BY <2>2 DEF k
    <3> QED
      BY ONLY <2>1, <3>1, <2>3, <2>4, e \in Given, KeptCounts
  <2>8. KeptSound(outs', M, D)
    <3>1. CASE puts
      <4>1. KeptSound(Append(s, L[k]), M, D)
        <5>1. \A j \in Keys : M[j] = IF j = k THEN <<>> ELSE L[j]
          BY <2>6, <3>1
        <5> QED
          BY ONLY <1>2, <2>7, <5>1, KeptPutsOut
      <4> QED
        BY <1>1, <2>5, <3>1, <4>1 DEF s
    <3>2. CASE ~puts
      <4>1. KeptSound(s, M, D)
        <5>1. (\A j \in Keys : M[j] = L[j]) /\ \A d \in Given : d \in D <=> d \in D
          BY <2>6, <3>2
        <5> QED
          BY ONLY <2>7, <5>1, KeptSame
      <4> QED
        BY <1>1, <3>2, <4>1 DEF s
    <3> QED
      BY <3>1, <3>2
  <2> QED
    BY <2>8 DEF M, D
<1>11. DataInv'
  <2>1. \A j \in Keys : ~buffer'[j].there => buffer'[j].has = <<>>
    BY <1>4, <1>5, <1>7 DEF DataInv
  <2>2. \A x \in Given : step'[x] = "getting" => ~buffer'[KeyOf[x]].there
    <3>1. \A x \in Given : step[x] = "getting" => x = e
      BY <1>5, FirstNotCounted
    <3> QED
      BY <1>8, <3>1
  <2> QED
    BY <1>10, <2>1, <2>2 DEF DataInv
<1>12. outs' \in Seq(Seq(Given)) /\ sem' \in Seq(Given \cup {Loop}) /\ evsem' \in Seq(Given)
  BY <1>6, <1>11 DEF Control, SemInv, EvsemInv, Lined, DataInv, KeptSound
<1>13. answered' \in [Given -> Nat] /\ \A x \in Given : x # e => answered'[x] = answered[x]
  <2>1. CASE waits
    BY <1>1, <1>5, <2>1
  <2>2. CASE ~waits
    BY <1>1, <1>5, <2>2 DEF CallsBack
  <2> QED
    BY <2>1, <2>2
<1>14. HeldOff'
  BY <1>5 DEF FilterState, FilterInv, HeldOff, heldVars
<1>15. k = KeyOf[e]
  BY DEF k
<1>16. /\ buffer'[k].there /\ buffer'[k].ttl = item.ttl /\ buffer'[k].entry = item.entry
       /\ \A j \in Keys : j # k => buffer'[j] = buffer[j]
  BY <1>2, <1>4, <1>7
<1>17. step'[e] \in {"ttl", "done"} /\ (~buffering.timed => step'[e] = "done")
  BY <1>8
<1> QED
  BY <1>1, <1>6, <1>7, <1>8, <1>11, <1>12, <1>13, <1>14, <1>15, <1>16, <1>17


LEMMA FilterKeeps ==
  ASSUME FilterState, Filter
  PROVE  FilterState'
<1> DEFINE e == called'
<1>1. /\ called \in Nat /\ called < MaxGiven /\ called' = called + 1
      /\ called' \in 0..MaxGiven /\ called' \in Given
  <2>1. Calls("filter") /\ called \in 0..MaxGiven
    BY DEF Filter, FilterState, BufferTypeOK
  <2> QED
    BY <2>1, CallsType
<1>2. /\ Control /\ ControlType /\ DataInv /\ HeldOff /\ Mode /\ BufferTypeOK
  BY FilterFacts DEF FilterState, FilterInv
<1>3. /\ Moves(e, "purge") /\ sem' = Append(sem, e) /\ buffering' = buffering
      /\ UNCHANGED <<answered, outs, dropped, held, timer, evsem, buffer, blen, store, snapshot,
                     ttls, ttlstore, loop, ids, live, copies, object>>
  BY <1>1 DEF Filter, Calls, Moves, heldVars, loopVars
<1>4. \A x \in Given : step'[x] = IF x = e THEN "purge" ELSE step[x]
  BY <1>2, <1>3, MoveIs
<1>5. step[e] = "none"
  BY <1>1, <1>2 DEF Control, InTheirOrder
<1>6. Control'
  BY <1>1, <1>2, <1>3, EntersFirst
<1>7. DataInv'
  <2>1. KeptSound(outs, KeptBy, InCount)'
    <3>1. \A k \in Keys : Kept(k)' = Kept(k)
      BY <1>3, SameItems
    <3>2. \A x \in Given : step'[x] \in {"ttl", "done"} <=> step[x] \in {"ttl", "done"}
      BY <1>4, <1>5
    <3> QED
      BY <1>2, <1>3, <3>1, <3>2, KeptStays DEF DataInv
  <2> QED
    BY <1>2, <1>3, <1>4, <2>1 DEF DataInv
<1>8. Mode'
  <2>1. CASE buffering.limit >= MaxGiven
    <3>1. NoPurge
      BY <1>2, <2>1 DEF Mode
    <3>2. NoPurge'
      BY <1>3, <1>4, <1>5, <3>1 DEF NoPurge, AtTTL
    <3> QED
      BY <1>3, <2>1, <3>2 DEF Mode
  <2>2. CASE ~(buffering.limit >= MaxGiven)
    <3>1. Alone /\ buffering.pending <= 1 /\ buffering.pending \in Nat
      BY <1>2, <2>2, FilterFacts DEF Mode
    <3>2. Unanswered = {}
      <4>1. IsFiniteSet(1..called)
        BY <1>1, FS_Interval
      <4>2. IsFiniteSet(Unanswered)
        BY <4>1, FS_Subset DEF Unanswered
      <4>3. Cardinality(Unanswered) < buffering.pending
        BY DEF Filter, Calls
      <4>4. Cardinality(Unanswered) \in Nat
        BY <4>2, FS_CardinalityType
      <4>5. Cardinality(Unanswered) = 0
        BY <3>1, <4>3, <4>4
      <4> QED
        BY <4>2, <4>5, FS_EmptySet
    <3>3. \A x \in Given : step[x] \in {"none", "done"}
      <4> TAKE x \in Given
      <4>1. CASE x > called
        BY <1>2, <4>1 DEF Control, InTheirOrder
      <4>2. CASE ~(x > called)
        <5>1. x \in 1..called
          BY <1>1, <4>2 DEF Given
        <5>2. answered[x] # 0
          BY <3>2, <5>1 DEF Unanswered
        <5> QED
          BY <3>1, <5>2 DEF Alone
      <4> QED
        BY <4>1, <4>2
    <3>4. Alone'
      BY <1>3, <1>4, <1>5, <3>1, <3>3 DEF Alone, AtTTL
    <3> QED
      BY <1>3, <2>2, <3>4 DEF Mode
  <2> QED
    BY <2>1, <2>2
<1>9. BufferTypeOK'
  <2>1. sem' \in Seq(Given \cup {Loop}) /\ evsem' \in Seq(Given)
    BY <1>6 DEF Control, SemInv, EvsemInv, Lined
  <2>2. step' \in [Given -> Steps]
    BY <1>2, <1>3 DEF ControlType, Moves, Steps
  <2> QED
    BY <1>1, <1>2, <1>3, <2>1, <2>2 DEF BufferTypeOK, Steps
<1> QED
  BY <1>2, <1>3, <1>6, <1>7, <1>8, <1>9 DEF FilterState, FilterInv, HeldOff, PurgeMeetsOthers

LEMMA PurgesMemoryKeeps ==
  ASSUME FilterState, NEW e \in Given, PurgesMemory(e)
  PROVE  FilterState'
<1>1. /\ Control /\ ControlType /\ DataInv /\ HeldOff /\ Mode /\ BufferTypeOK
  BY FilterFacts DEF FilterState, FilterInv
<1>2. /\ HasSem(e) /\ step[e] = "purge"
      /\ UNCHANGED <<buffering, called, answered, outs, dropped, held, timer, buffer, blen, store,
                     ttls, ttlstore, loop, ids, live, copies, object>>
  BY DEF PurgesMemory, commonVars, heldVars, loopVars
<1>3. buffering.limit \in Nat /\ blen \in Nat
  BY <1>1, FilterFacts DEF BufferTypeOK
<1>4. CASE blen > buffering.limit
  <2>1. /\ Moves(e, "purging") /\ snapshot' = buffer /\ sem' = sem /\ evsem' = evsem
    BY <1>4 DEF PurgesMemory, Moves
  <2>2. \A x \in Given : step'[x] = IF x = e THEN "purging" ELSE step[x]
    BY <1>1, <2>1, MoveIs
  <2>3. Control'
    BY <1>1, <1>2, <2>1, StartsPurge
  <2>4. DataInv'
    <3>1. KeptSound(outs, KeptBy, InCount)'
      <4>1. \A k \in Keys : Kept(k)' = Kept(k)
        BY <1>2, SameItems
      <4>2. \A x \in Given : step'[x] \in {"ttl", "done"} <=> step[x] \in {"ttl", "done"}
        BY <1>2, <2>2
      <4> QED
        BY <1>1, <1>2, <4>1, <4>2, KeptStays DEF DataInv
    <3> QED
      BY <1>1, <1>2, <2>2, <3>1 DEF DataInv
  <2>5. ~(buffering.limit >= MaxGiven)
    <3>1. ASSUME buffering.limit >= MaxGiven
          PROVE  FALSE
      <4>1. blen < e /\ e <= MaxGiven /\ e \in Nat /\ MaxGiven \in Nat
        BY <1>1, <1>2, <3>1, GivenFacts, BuffersAssumption DEF Mode, NoPurge
      <4> QED
        BY <1>3, <1>4, <3>1, <4>1
    <3> QED
      BY <3>1
  <2>6. Alone'
    <3>1. Alone
      BY <1>1, <2>5 DEF Mode
    <3> QED
      BY <1>2, <2>1, <2>2, <3>1 DEF Alone, AtTTL
  <2>7. BufferTypeOK'
    <3>1. step' \in [Given -> Steps]
      BY <1>1, <2>1 DEF ControlType, Moves, Steps
    <3> QED
      BY <1>1, <1>2, <2>1, <3>1 DEF BufferTypeOK, Steps
  <2> QED
    BY <1>1, <1>2, <2>3, <2>4, <2>5, <2>6, <2>7
       DEF FilterState, FilterInv, HeldOff, PurgeMeetsOthers, Mode
<1>5. CASE ~(blen > buffering.limit)
  <2>1. /\ Moves(e, "every") /\ snapshot' = snapshot
        /\ sem' = Tail(sem) /\ evsem' = Append(evsem, e)
    BY <1>5 DEF PurgesMemory, Moves
  <2>2. \A x \in Given : step'[x] = IF x = e THEN "every" ELSE step[x]
    BY ONLY <1>1, <2>1, MoveIs
  <2>3. AtPurge(e)
    BY <1>2 DEF AtPurge
  <2>4. Control'
    BY ONLY <1>1, <1>2, <2>1, <2>3, EntersSecond
  <2>5. DataInv'
    <3>1. KeptSound(outs, KeptBy, InCount)'
      <4>1. \A k \in Keys : Kept(k)' = Kept(k)
        BY <1>2, SameItems
      <4>2. \A x \in Given : step'[x] \in {"ttl", "done"} <=> step[x] \in {"ttl", "done"}
        BY <1>2, <2>2
      <4> QED
        BY <1>1, <1>2, <4>1, <4>2, KeptStays DEF DataInv
    <3> QED
      BY <1>1, <1>2, <2>2, <3>1 DEF DataInv
  <2>6. NoPurge => NoPurge'
    BY <1>2, <2>2 DEF NoPurge, AtTTL
  <2>7. Alone => Alone'
    BY <1>2, <2>1, <2>2 DEF Alone, AtTTL
  <2>8. BufferTypeOK'
    <3>1. sem' \in Seq(Given \cup {Loop}) /\ evsem' \in Seq(Given)
      BY <2>4 DEF Control, SemInv, EvsemInv, Lined
    <3>2. step' \in [Given -> Steps]
      BY <1>1, <2>1 DEF ControlType, Moves, Steps
    <3> QED
      BY <1>1, <1>2, <2>1, <3>1, <3>2 DEF BufferTypeOK, Steps
  <2> QED
    BY <1>1, <1>2, <2>4, <2>5, <2>6, <2>7, <2>8
       DEF FilterState, FilterInv, HeldOff, PurgeMeetsOthers, Mode
<1> QED
  BY <1>4, <1>5

LEMMA PurgedKeeps ==
  ASSUME FilterState, NEW e \in Given, Purged(e)
  PROVE  FilterState'
<1>1. /\ Control /\ ControlType /\ DataInv /\ HeldOff /\ Mode /\ BufferTypeOK
  BY FilterFacts DEF FilterState, FilterInv
<1>2. /\ HasSem(e) /\ step[e] = "purging" /\ blen' = 0
      /\ store' = SaveAll(store, snapshot) /\ Parted(Keys)
      /\ Moves(e, "every") /\ sem' = Tail(sem) /\ evsem' = Append(evsem, e)
      /\ UNCHANGED <<buffering, called, answered, outs, dropped, held, timer, snapshot,
                     ttls, ttlstore, loop, ids, live, copies>>
  BY DEF Purged, Moves, commonVars, heldVars, loopVars
<1>3. \A x \in Given : step'[x] = IF x = e THEN "every" ELSE step[x]
  BY ONLY <1>1, <1>2, MoveIs
<1>4. Control'
  <2>1. AtPurge(e)
    BY <1>2 DEF AtPurge
  <2> QED
    BY ONLY <1>1, <1>2, <2>1, EntersSecond
<1>5. Alone /\ ~(buffering.limit >= MaxGiven)
  BY <1>1, <1>2 DEF Mode, NoPurge
<1>6. snapshot = buffer
  BY <1>2, <1>5 DEF Alone
<1>7. /\ \A k \in Keys : store'[k] = IF buffer[k].there THEN buffer[k] ELSE store[k]
      /\ \A k \in Keys : buffer'[k] = Gone
      /\ store' \in [Keys -> Item] /\ buffer' \in [Keys -> Item]
  <2>1. \A k \in Keys : buffer[k] \in Item /\ store[k] \in Item
    BY FilterFacts
  <2>2. store' = [k \in Keys |-> IF buffer[k].there THEN buffer[k] ELSE store[k]]
    BY <1>2, <1>6 DEF SaveAll
  <2>3. buffer' = [k \in Keys |-> Gone]
    BY <1>2 DEF Parted, RemoveAll
  <2> QED
    BY <2>1, <2>2, <2>3, ItemType
<1>8. DataInv'
  <2>1. KeptSound(outs, KeptBy, InCount)'
    <3>1. \A k \in Keys : Kept(k)' = Kept(k)
      BY <1>7, ItemType DEF Kept
    <3>2. \A x \in Given : step'[x] \in {"ttl", "done"} <=> step[x] \in {"ttl", "done"}
      BY <1>2, <1>3
    <3> QED
      BY <1>1, <1>2, <3>1, <3>2, KeptStays DEF DataInv
  <2>2. \A k \in Keys : ~buffer'[k].there => buffer'[k].has = <<>>
    BY <1>7, ItemType
  <2>3. \A k \in Keys : ~store'[k].there => store'[k].has = <<>>
    BY <1>1, <1>7 DEF DataInv
  <2>4. \A x \in Given : step'[x] = "getting" => ~buffer'[KeyOf[x]].there
    BY <1>7, KeyOfType, ItemType
  <2> QED
    BY <2>1, <2>2, <2>3, <2>4 DEF DataInv
<1>9. Alone'
  BY <1>2, <1>3, <1>5 DEF Alone, AtTTL
<1>10. BufferTypeOK'
  <2>1. sem' \in Seq(Given \cup {Loop}) /\ evsem' \in Seq(Given)
    BY <1>4 DEF Control, SemInv, EvsemInv, Lined
  <2>2. step' \in [Given -> Steps]
    BY <1>1, <1>2 DEF ControlType, Moves, Steps
  <2>3. object' \in [Given -> {"live", "timed", "untimed"}]
    BY <1>1, <1>2 DEF Parted, BufferTypeOK
  <2> QED
    BY <1>1, <1>2, <1>7, <2>1, <2>2, <2>3 DEF BufferTypeOK, Steps
<1> QED
  BY <1>1, <1>2, <1>4, <1>5, <1>8, <1>9, <1>10
     DEF FilterState, FilterInv, HeldOff, PurgeMeetsOthers, Mode


LEMMA CountsAll ==
  ASSUME FilterState, NEW e \in Given, AtItem(e), HasEvsem(e), NEW item \in Item, item.there,
         item.has = Kept(KeyOf[e]), Counts(e, item),
         store' \in [Keys -> Item],
         \A k \in Keys : store'[k].has = store[k].has,
         \A k \in Keys : ~store'[k].there => store'[k].has = <<>>,
         blen' \in {blen, blen + 1},
         NoPurge => item.entry # 0 /\ (KeyOf[e] \in ttls \cup ttlstore \cup ids => item.ttl)
  PROVE  FilterState'
<1>1. /\ Control /\ ControlType /\ DataInv /\ HeldOff /\ Mode /\ BufferTypeOK
  BY FilterFacts DEF FilterState, FilterInv
<1>2. /\ Control' /\ DataInv' /\ HeldOff'
      /\ buffer' \in [Keys -> Item] /\ outs' \in Seq(Seq(Given))
      /\ step' \in [Given -> Steps] /\ sem' \in Seq(Given \cup {Loop}) /\ evsem' \in Seq(Given)
      /\ answered' \in [Given -> Nat] /\ object' = [object EXCEPT ![e] = "live"]
      /\ UNCHANGED <<buffering, called, heldVars, snapshot, loopVars>>
      /\ \A k \in Keys : k # KeyOf[e] => buffer'[k] = buffer[k]
      /\ LET k == KeyOf[e]
         IN  buffer'[k].there /\ buffer'[k].ttl = item.ttl /\ buffer'[k].entry = item.entry
      /\ \A x \in Given : x # e => step'[x] = step[x] /\ answered'[x] = answered[x]
      /\ step'[e] \in {"ttl", "done"}
      /\ ~buffering.timed => step'[e] = "done"
  BY CountsKeeps
<1>3. UNCHANGED <<buffering, called, dropped, held, timer, snapshot, ttls, ttlstore, loop, ids,
                  live, copies>>
  BY <1>2 DEF heldVars, loopVars
<1>4. blen \in Nat /\ blen' \in Nat
  BY <1>1 DEF BufferTypeOK
<1>5. /\ \A x \in Given : object'[x] = IF x = e THEN "live" ELSE object[x]
      /\ object' \in [Given -> {"live", "timed", "untimed"}]
  BY <1>1, <1>2 DEF BufferTypeOK
<1>6. BufferTypeOK'
  BY <1>1, <1>2, <1>3, <1>4, <1>5 DEF BufferTypeOK, Steps
<1>7. /\ \A x \in Given : step[x] \notin {"done", "ttl"} /\ x # e => e < x
      /\ \A x \in Given : ~AtTTL(x)
  BY <1>1, FirstNotCounted
<1>8. ASSUME NoPurge
      PROVE  NoPurge'
  <2>1. blen < e
    BY <1>8 DEF NoPurge, AtItem
  <2>2. \A x \in Given : step'[x] # "purging" /\ (step'[x] \notin {"ttl", "done"} => blen' < x)
    <3> TAKE x \in Given
    <3>1. CASE x = e
      BY <1>2, <3>1
    <3>2. CASE x # e
      <4>1. step'[x] = step[x] /\ x \in Nat /\ e \in Nat
        BY <1>2, <3>2, GivenFacts
      <4>2. step[x] \notin {"ttl", "done"} => e < x
        BY <1>7, <3>2
      <4> QED
        BY <1>4, <1>8, <2>1, <4>1, <4>2 DEF NoPurge
    <3> QED
      BY <3>1, <3>2
  <2>3. \A k \in Keys : store'[k].has = <<>>
    BY <1>8 DEF NoPurge
  <2>4. \A k \in ttls \cup ttlstore \cup ids : buffer'[k].there /\ buffer'[k].ttl
    <3> TAKE k \in ttls \cup ttlstore \cup ids
    <3>1. k \in Keys
      BY <1>1 DEF BufferTypeOK
    <3>2. CASE k = KeyOf[e]
      BY <1>2, <1>8, <3>2
    <3>3. CASE k # KeyOf[e]
      BY <1>2, <1>8, <3>1, <3>3 DEF NoPurge
    <3> QED
      BY <3>2, <3>3
  <2>5. \A k \in Keys : buffer'[k].there => buffer'[k].entry # 0
    <3> TAKE k \in Keys
    <3>1. CASE k = KeyOf[e]
      BY <1>2, <1>8, <3>1
    <3>2. CASE k # KeyOf[e]
      BY <1>2, <1>8, <3>2 DEF NoPurge
    <3> QED
      BY <3>1, <3>2
  <2>6. \A x \in Given : step'[x] = "ttl" =>
          object'[x] = "timed" \/ (object'[x] = "live" /\ buffer'[KeyOf[x]].there)
    <3> TAKE x \in Given
    <3>1. CASE x = e
      BY <1>2, <1>5, <3>1
    <3>2. CASE x # e
      BY <1>2, <1>7, <3>2 DEF AtTTL
    <3> QED
      BY <3>1, <3>2
  <2>7. /\ loop' \in {"reading", "removing", "removed"} => live' = ids'
        /\ loop' = "removed" => ttlstore' \cap ids' = {}
    BY <1>3, <1>8 DEF NoPurge
  <2>8. ttls' \cup ttlstore' \cup ids' = ttls \cup ttlstore \cup ids
    BY <1>3
  <2> QED
    BY <2>2, <2>3, <2>4, <2>5, <2>6, <2>7, <2>8 DEF NoPurge, AtTTL
<1>9. ASSUME Alone, ~buffering.timed
      PROVE  Alone'
  <2>1. step'[e] = "done"
    BY <1>2, <1>9
  <2>2. \A x \in Given : step[x] \notin {"none", "done"} => x = e
    BY <1>9 DEF Alone, AtItem
  <2>3. \A x \in Given : step'[x] \in {"none", "done"}
    BY <1>2, <2>1, <2>2
  <2>4. \A x \in Given : step'[x] # "done" => answered'[x] = 0
    BY <1>2, <1>9, <2>1 DEF Alone
  <2> QED
    BY <1>3, <1>9, <2>3, <2>4 DEF Alone, AtTTL
<1>10. Mode'
  BY <1>1, <1>3, <1>8, <1>9, FilterFacts DEF Mode
<1> QED
  BY <1>2, <1>3, <1>6, <1>10 DEF FilterState, FilterInv, PurgeMeetsOthers

LEMMA GetsItemKeeps ==
  ASSUME FilterState, NEW e \in Given, GetsItem(e)
  PROVE  FilterState'
<1>1. /\ Control /\ ControlType /\ DataInv /\ HeldOff /\ Mode /\ BufferTypeOK
  BY FilterFacts DEF FilterState, FilterInv
<1>2. HasEvsem(e) /\ step[e] = "every" /\ AtItem(e)
  BY DEF GetsItem, AtItem
<1>3. KeyOf[e] \in Keys /\ buffer[KeyOf[e]] \in Item
  BY KeyOfType, FilterFacts
<1>4. CASE buffer[KeyOf[e]].there
  <2> DEFINE item == buffer[KeyOf[e]]
  <2>1. Counts(e, item) /\ blen' = blen /\ store' = store
    BY <1>4 DEF GetsItem
  <2>2. item.has = Kept(KeyOf[e])
    BY <1>4 DEF Kept
  <2>3. /\ store' \in [Keys -> Item]
        /\ \A k \in Keys : store'[k].has = store[k].has
        /\ \A k \in Keys : ~store'[k].there => store'[k].has = <<>>
    BY <1>1, <2>1 DEF BufferTypeOK, DataInv
  <2>4. NoPurge => item.entry # 0 /\ (KeyOf[e] \in ttls \cup ttlstore \cup ids => item.ttl)
    BY <1>3, <1>4 DEF NoPurge
  <2>5. item \in Item /\ item.there /\ blen' \in {blen, blen + 1}
    BY <1>3, <1>4, <2>1
  <2> HIDE DEF item
  <2> QED
    BY ONLY FilterState, e \in Given, <1>2, <2>1, <2>2, <2>3, <2>4, <2>5, CountsAll
<1>5. CASE ~buffer[KeyOf[e]].there
  <2>1. /\ Moves(e, "getting") /\ sem' = sem /\ evsem' = evsem
        /\ UNCHANGED <<buffering, called, answered, outs, dropped, held, timer, buffer, blen,
                       store, snapshot, ttls, ttlstore, loop, ids, live, copies, object>>
    BY <1>5 DEF GetsItem, Moves, commonVars, heldVars, loopVars
  <2>2. \A x \in Given : step'[x] = IF x = e THEN "getting" ELSE step[x]
    BY <1>1, <2>1, MoveIs
  <2>3. Control'
    BY <1>1, <1>2, <2>1, StartsGetting
  <2>4. DataInv'
    <3>1. KeptSound(outs, KeptBy, InCount)'
      <4>1. \A k \in Keys : Kept(k)' = Kept(k)
        BY <2>1, SameItems
      <4>2. \A x \in Given : step'[x] \in {"ttl", "done"} <=> step[x] \in {"ttl", "done"}
        BY <1>2, <2>2
      <4> QED
        BY <1>1, <2>1, <4>1, <4>2, KeptStays DEF DataInv
    <3> QED
      BY <1>1, <1>5, <2>1, <2>2, <3>1 DEF DataInv
  <2>5. NoPurge => NoPurge'
    BY <1>2, <2>1, <2>2 DEF NoPurge, AtTTL
  <2>6. Alone => Alone'
    BY <1>2, <2>1, <2>2 DEF Alone, AtTTL
  <2>7. BufferTypeOK'
    <3>1. step' \in [Given -> Steps]
      BY <1>1, <2>1 DEF ControlType, Moves, Steps
    <3> QED
      BY <1>1, <2>1, <3>1 DEF BufferTypeOK, Steps
  <2> QED
    BY <1>1, <2>1, <2>3, <2>4, <2>5, <2>6, <2>7
       DEF FilterState, FilterInv, HeldOff, PurgeMeetsOthers, Mode
<1> QED
  BY <1>4, <1>5


LEMMA StoredIs ==
  ASSUME FilterState, NEW k \in Keys
  PROVE  Stored(k) \in Item /\ Stored(k).there /\ Stored(k).has = store[k].has
<1>1. store[k] \in Item /\ buffering.first \in BOOLEAN
  BY FilterFacts
<1>2. ~store[k].there => store[k].has = <<>>
  BY DEF FilterState, FilterInv, DataInv
<1>3. Created \in Item /\ Created.there /\ Created.has = <<>>
  <2> DEFINE one == [Gone EXCEPT !.there = TRUE]
             two == [one EXCEPT !.first = buffering.first]
  <2>1. one \in Item /\ one.there /\ one.has = <<>>
    <3> DEFINE g == Gone
    <3>1. g \in Item /\ g.has = <<>> /\ one = [g EXCEPT !.there = TRUE]
      BY ItemType
    <3> HIDE DEF g
    <3> QED
      BY <3>1 DEF Item
  <2>2. Created = two
    BY DEF Created
  <2> HIDE DEF one
  <2>3. two \in Item /\ two.there /\ two.has = <<>>
    BY <1>1, <2>1 DEF Item
  <2> QED
    BY <2>2, <2>3
<1> QED
  BY <1>1, <1>2, <1>3 DEF Stored

LEMMA HasItemKeeps ==
  ASSUME FilterState, NEW e \in Given, HasItem(e)
  PROVE  FilterState'
<1> DEFINE k == KeyOf[e]
           stored == Stored(k)
           item == [stored EXCEPT !.entry = IF stored.entry = 0 THEN e ELSE stored.entry]
<1>1. /\ Control /\ ControlType /\ DataInv /\ HeldOff /\ Mode /\ BufferTypeOK
  BY FilterFacts DEF FilterState, FilterInv
<1>2. HasEvsem(e) /\ AtItem(e) /\ k \in Keys
  BY <1>1, KeyOfType DEF HasItem, AtItem, Control, Turns
<1>3. stored \in Item /\ stored.there /\ stored.has = store[k].has
  BY <1>2, StoredIs
<1>4. /\ Counts(e, item) /\ blen' = blen + 1 /\ store' = [store EXCEPT ![k] = stored]
      /\ ~buffer[k].there
  BY <1>1 DEF HasItem, DataInv
<1> HIDE DEF stored, k
<1>5. e \in 0..MaxGiven /\ e # 0
  BY GivenFacts, BuffersAssumption DEF Given
<1>6. item \in Item /\ item.there /\ item.has = store[k].has /\ item.entry # 0
  <2> DEFINE n == IF stored.entry = 0 THEN e ELSE stored.entry
  <2>1. n \in 0..MaxGiven /\ n # 0
    BY <1>3, <1>5, ItemType
  <2>2. item = [stored EXCEPT !.entry = n]
    OBVIOUS
  <2> HIDE DEF n, item
  <2> QED
    BY <1>3, <2>1, <2>2 DEF Item
<1>7. item.has = Kept(KeyOf[e])
  BY <1>4, <1>6 DEF Kept, k
<1>8. /\ \A j \in Keys : store'[j] = IF j = k THEN stored ELSE store[j]
      /\ store' \in [Keys -> Item]
  BY <1>1, <1>2, <1>3, <1>4 DEF BufferTypeOK
<1>9. /\ \A j \in Keys : store'[j].has = store[j].has
      /\ \A j \in Keys : ~store'[j].there => store'[j].has = <<>>
  BY <1>1, <1>3, <1>8 DEF DataInv
<1>10. NoPurge => item.entry # 0 /\ (KeyOf[e] \in ttls \cup ttlstore \cup ids => item.ttl)
  BY <1>4, <1>6 DEF NoPurge, k
<1>11. blen' \in {blen, blen + 1}
  BY <1>4
<1> HIDE DEF item
<1> QED
  BY ONLY FilterState, e \in Given, <1>2, <1>4, <1>6, <1>7, <1>8, <1>9, <1>10, <1>11, CountsAll

LEMMA UpdatesTTLKeeps ==
  ASSUME FilterState, NEW e \in Given, UpdatesTTL(e)
  PROVE  FilterState'
<1> DEFINE k == KeyOf[e]
           old == IF object[e] = "live" THEN buffer[k].ttl ELSE object[e] = "timed"
<1>1. /\ Control /\ ControlType /\ DataInv /\ HeldOff /\ Mode /\ BufferTypeOK
  BY FilterFacts DEF FilterState, FilterInv
<1>2. /\ HasSem(e) /\ AtTTL(e) /\ Moves(e, "done")
      /\ sem' = Tail(sem) /\ evsem' = Tail(evsem) /\ CallsBack({e})
      /\ ttls' = IF old THEN ttls ELSE ttls \cup {k}
      /\ buffer' = IF object[e] = "live" THEN [buffer EXCEPT ![k].ttl = TRUE] ELSE buffer
      /\ UNCHANGED <<buffering, called, outs, dropped, held, timer, blen, store, snapshot,
                     ttlstore, loop, ids, live, copies, object>>
  BY DEF UpdatesTTL, AtTTL, Moves, heldVars
<1>3. \A x \in Given : step'[x] = IF x = e THEN "done" ELSE step[x]
  BY ONLY <1>1, <1>2, MoveIs
<1>4. Control'
  BY ONLY <1>1, <1>2, LeavesBoth
<1>5. k \in Keys /\ buffer[k] \in Item
  BY KeyOfType, FilterFacts
<1>6. NoPurge /\ buffering.limit >= MaxGiven
  BY <1>1, <1>2 DEF Mode, Alone
<1> HIDE DEF old, k
<1>7. /\ buffer' \in [Keys -> Item]
      /\ \A j \in Keys : /\ buffer'[j].there = buffer[j].there /\ buffer'[j].has = buffer[j].has
                         /\ buffer'[j].entry = buffer[j].entry
                         /\ buffer'[j].ttl = buffer[j].ttl \/ (j = k /\ buffer'[j].ttl)
      /\ object[e] = "live" => buffer'[k].ttl
  <2>1. CASE object[e] = "live"
    <3> DEFINE new == [buffer[k] EXCEPT !.ttl = TRUE]
    <3>1. buffer' = [buffer EXCEPT ![k] = new]
      BY <1>2, <2>1
    <3>2. /\ new \in Item /\ new.there = buffer[k].there /\ new.has = buffer[k].has
          /\ new.entry = buffer[k].entry /\ new.ttl
      BY <1>5 DEF Item
    <3> HIDE DEF new
    <3>3. \A j \in Keys : buffer'[j] = IF j = k THEN new ELSE buffer[j]
      BY <1>1, <1>5, <3>1 DEF BufferTypeOK
    <3>4. buffer' \in [Keys -> Item]
      BY <1>1, <1>5, <3>1, <3>2 DEF BufferTypeOK
    <3> QED
      BY <1>5, <3>2, <3>3, <3>4
  <2>2. CASE object[e] # "live"
    BY <1>1, <1>2, <2>2 DEF BufferTypeOK
  <2> QED
    BY <2>1, <2>2
<1>8. DataInv'
  <2>1. KeptSound(outs, KeptBy, InCount)'
    <3>1. \A j \in Keys : Kept(j)' = Kept(j)
      BY <1>2, <1>7 DEF Kept
    <3>2. \A x \in Given : step'[x] \in {"ttl", "done"} <=> step[x] \in {"ttl", "done"}
      BY <1>2, <1>3 DEF AtTTL
    <3> QED
      BY <1>1, <1>2, <3>1, <3>2, KeptStays DEF DataInv
  <2>2. \A x \in Given : step'[x] = "getting" => ~buffer'[KeyOf[x]].there
    BY <1>1, <1>3, <1>7, KeyOfType DEF DataInv
  <2>3. \A j \in Keys : ~buffer'[j].there => buffer'[j].has = <<>>
    BY <1>1, <1>7 DEF DataInv
  <2>4. \A j \in Keys : ~store'[j].there => store'[j].has = <<>>
    BY <1>1, <1>2 DEF DataInv
  <2> QED
    BY <2>1, <2>2, <2>3, <2>4 DEF DataInv
<1>9. NoPurge'
  <2>1. \A x \in Given : step'[x] # "purging" /\ (step'[x] \notin {"ttl", "done"} => blen' < x)
    BY <1>2, <1>3, <1>6 DEF NoPurge
  <2>2. \A j \in ttls' \cup ttlstore' \cup ids' : buffer'[j].there /\ buffer'[j].ttl
    <3>1. \A j \in ttls \cup ttlstore \cup ids : j \in Keys /\ buffer'[j].there /\ buffer'[j].ttl
      <4>1. \A j \in ttls \cup ttlstore \cup ids : j \in Keys
        BY <1>1 DEF BufferTypeOK
      <4> QED
        BY <1>6, <1>7, <4>1 DEF NoPurge
    <3>2. CASE old
      BY <1>2, <3>1, <3>2
    <3>3. CASE ~old
      <4>1. object[e] = "live" /\ buffer[k].there
        BY <1>2, <1>6, <3>3 DEF old, NoPurge, k
      <4>2. buffer'[k].there /\ buffer'[k].ttl
        BY <1>5, <1>7, <4>1
      <4> QED
        BY <1>2, <3>1, <3>3, <4>2
    <3> QED
      BY <3>2, <3>3
  <2>3. \A j \in Keys : buffer'[j].there => buffer'[j].entry # 0
    BY <1>6, <1>7 DEF NoPurge
  <2>4. \A x \in Given : step'[x] = "ttl" =>
          object'[x] = "timed" \/ (object'[x] = "live" /\ buffer'[KeyOf[x]].there)
    BY <1>2, <1>3, <1>6, <1>7, KeyOfType DEF NoPurge, AtTTL
  <2>5. /\ \A j \in Keys : store'[j].has = <<>>
        /\ loop' \in {"reading", "removing", "removed"} => live' = ids'
        /\ loop' = "removed" => ttlstore' \cap ids' = {}
    BY <1>2, <1>6 DEF NoPurge
  <2> QED
    BY <2>1, <2>2, <2>3, <2>4, <2>5 DEF NoPurge, AtTTL
<1>10. BufferTypeOK'
  <2>1. sem' \in Seq(Given \cup {Loop}) /\ evsem' \in Seq(Given)
    BY <1>4 DEF Control, SemInv, EvsemInv, Lined
  <2>2. step' \in [Given -> Steps]
    BY <1>1, <1>2 DEF ControlType, Moves, Steps
  <2>3. answered' \in [Given -> Nat]
    BY <1>1, <1>2, CallsBackType DEF BufferTypeOK
  <2>4. ttls' \subseteq Keys
    BY <1>1, <1>2, <1>5 DEF BufferTypeOK
  <2> QED
    BY <1>1, <1>2, <1>7, <2>1, <2>2, <2>3, <2>4 DEF BufferTypeOK, Steps
<1> QED
  BY <1>1, <1>2, <1>4, <1>6, <1>8, <1>9, <1>10
     DEF FilterState, FilterInv, HeldOff, PurgeMeetsOthers, Mode


(* The loop: with a purge there is none.                                   *)
LEMMA LoopRuns ==
  ASSUME FilterState, loop # "off"
  PROVE  NoPurge /\ buffering.limit >= MaxGiven
BY DEF FilterState, FilterInv, Mode, Alone

LEMMA LoopStartsKeeps ==
  ASSUME FilterState, LoopStarts
  PROVE  FilterState'
<1>1. /\ Control /\ ControlType /\ DataInv /\ HeldOff /\ Mode /\ BufferTypeOK
  BY FilterFacts DEF FilterState, FilterInv
<1>2. /\ loop = "idle" /\ loop' = "waits" /\ sem' = Append(sem, Loop)
      /\ UNCHANGED <<buffering, called, answered, outs, dropped, held, timer, step, evsem, buffer,
                     blen, store, snapshot, ttls, ttlstore, ids, live, copies, object>>
  BY DEF LoopStarts, commonVars, heldVars
<1>3. NoPurge /\ buffering.limit >= MaxGiven
  BY <1>2, LoopRuns
<1>4. Control'
  BY ONLY <1>1, <1>2, LoopEnters
<1>5. DataInv'
  <2>1. KeptSound(outs, KeptBy, InCount)'
    <3>1. \A k \in Keys : Kept(k)' = Kept(k)
      BY <1>2, SameItems
    <3> QED
      BY <1>1, <1>2, <3>1, KeptStays DEF DataInv
  <2> QED
    BY <1>1, <1>2, <2>1 DEF DataInv
<1>6. NoPurge'
  BY <1>2, <1>3 DEF NoPurge, AtTTL
<1>7. BufferTypeOK'
  <2>1. sem' \in Seq(Given \cup {Loop})
    BY <1>4 DEF Control, SemInv, Lined
  <2> QED
    BY <1>1, <1>2, <2>1 DEF BufferTypeOK
<1> QED
  BY <1>1, <1>2, <1>3, <1>4, <1>5, <1>6, <1>7
     DEF FilterState, FilterInv, HeldOff, PurgeMeetsOthers, Mode

LEMMA LoopReadsKeeps ==
  ASSUME FilterState, NEW due, LoopReads(due)
  PROVE  FilterState'
<1>1. /\ Control /\ ControlType /\ DataInv /\ HeldOff /\ Mode /\ BufferTypeOK
  BY FilterFacts DEF FilterState, FilterInv
<1>2. /\ HasSem(Loop) /\ loop = "waits" /\ loop' = "reading"
      /\ ttlstore' = ttlstore \cup ttls
      /\ due \subseteq ttlstore \cup ttls /\ ids' = due
      /\ live' = {k \in due : buffer[k].there}
      /\ UNCHANGED <<buffering, called, answered, outs, dropped, held, timer, step, sem, evsem,
                     buffer, blen, store, snapshot, ttls, copies, object>>
  BY DEF LoopReads, ReadStream, commonVars, heldVars
<1>3. NoPurge /\ buffering.limit >= MaxGiven
  BY <1>2, LoopRuns
<1>4. Control'
  <2>1. loop \notin {"off", "idle"} /\ loop' \notin {"off", "idle"} /\ HasSem(Loop)
    BY <1>2
  <2> QED
    BY ONLY <1>1, <1>2, <2>1, LoopGoesOn
<1>5. DataInv'
  <2>1. KeptSound(outs, KeptBy, InCount)'
    <3>1. \A k \in Keys : Kept(k)' = Kept(k)
      BY <1>2, SameItems
    <3> QED
      BY <1>1, <1>2, <3>1, KeptStays DEF DataInv
  <2> QED
    BY <1>1, <1>2, <2>1 DEF DataInv
<1>6. live' = ids'
  <2>1. \A k \in due : buffer[k].there
    BY <1>2, <1>3 DEF NoPurge
  <2> QED
    BY <1>2, <2>1
<1>7. NoPurge'
  <2>1. \A k \in ttls' \cup ttlstore' \cup ids' : buffer'[k].there /\ buffer'[k].ttl
    BY <1>2, <1>3 DEF NoPurge
  <2> QED
    BY <1>2, <1>3, <1>6, <2>1 DEF NoPurge, AtTTL
<1>8. BufferTypeOK'
  <2>1. ttls' \cup ttlstore' \cup ids' \cup live' \subseteq Keys
    BY <1>1, <1>2 DEF BufferTypeOK
  <2> QED
    BY <1>1, <1>2, <2>1 DEF BufferTypeOK
<1> QED
  BY <1>1, <1>2, <1>3, <1>4, <1>5, <1>7, <1>8
     DEF FilterState, FilterInv, HeldOff, PurgeMeetsOthers, Mode

LEMMA LoopGetsKeeps ==
  ASSUME FilterState, LoopGets
  PROVE  FilterState'
<1>1. /\ Control /\ ControlType /\ DataInv /\ HeldOff /\ Mode /\ BufferTypeOK
  BY FilterFacts DEF FilterState, FilterInv
<1>2. /\ loop = "reading" /\ loop' = "removing"
      /\ copies' = [k \in Keys |-> IF k \in ids \ live THEN Stored(k) ELSE Gone]
      /\ store' = [k \in Keys |-> IF k \in ids \ live THEN Stored(k) ELSE store[k]]
      /\ UNCHANGED <<buffering, called, answered, outs, dropped, held, timer, step, sem, evsem,
                     buffer, blen, snapshot, ttls, ttlstore, ids, live, object>>
  BY DEF LoopGets, commonVars, heldVars
<1>3. NoPurge /\ buffering.limit >= MaxGiven
  BY <1>2, LoopRuns
<1>4. ids \ live = {}
  BY <1>2, <1>3 DEF NoPurge
<1>5. store' = store /\ copies' \in [Keys -> Item]
  <2>1. \A k \in Keys : store'[k] = store[k]
    BY <1>2, <1>4
  <2>2. store' = store
    BY <1>1, <1>2, <2>1 DEF BufferTypeOK
  <2> QED
    BY <1>2, <1>4, <2>2, ItemType
<1>6. Control'
  <2>1. loop \notin {"off", "idle"} /\ loop' \notin {"off", "idle"} /\ HasSem(Loop)
    BY <1>1, <1>2 DEF Control, Turns
  <2> QED
    BY ONLY <1>1, <1>2, <2>1, LoopGoesOn
<1>7. DataInv'
  <2>1. KeptSound(outs, KeptBy, InCount)'
    <3>1. \A k \in Keys : Kept(k)' = Kept(k)
      BY <1>2, <1>5, SameItems
    <3> QED
      BY <1>1, <1>2, <3>1, KeptStays DEF DataInv
  <2> QED
    BY <1>1, <1>2, <1>5, <2>1 DEF DataInv
<1>8. NoPurge'
  BY <1>2, <1>3, <1>5 DEF NoPurge, AtTTL
<1>9. BufferTypeOK'
  BY <1>1, <1>2, <1>5 DEF BufferTypeOK
<1> QED
  BY <1>1, <1>2, <1>3, <1>6, <1>7, <1>8, <1>9
     DEF FilterState, FilterInv, HeldOff, PurgeMeetsOthers, Mode

LEMMA LoopRemovesKeeps ==
  ASSUME FilterState, LoopRemoves
  PROVE  FilterState'
<1>1. /\ Control /\ ControlType /\ DataInv /\ HeldOff /\ Mode /\ BufferTypeOK
  BY FilterFacts DEF FilterState, FilterInv
<1>2. /\ loop = "removing" /\ loop' = "removed"
      /\ ttlstore' = ttlstore \ ids /\ store' = RemoveAll(store, ids)
      /\ UNCHANGED <<buffering, called, answered, outs, dropped, held, timer, step, sem, evsem,
                     buffer, blen, snapshot, ttls, ids, live, copies, object>>
  BY DEF LoopRemoves, commonVars, heldVars
<1>3. NoPurge /\ buffering.limit >= MaxGiven
  BY <1>2, LoopRuns
<1>4. /\ \A k \in Keys : store'[k] = IF k \in ids THEN Gone ELSE store[k]
      /\ store' \in [Keys -> Item]
  BY <1>1, <1>2, ItemType DEF RemoveAll, BufferTypeOK
<1>5. \A k \in Keys : store'[k].has = <<>>
  BY <1>3, <1>4, ItemType DEF NoPurge
<1>6. Control'
  <2>1. loop \notin {"off", "idle"} /\ loop' \notin {"off", "idle"} /\ HasSem(Loop)
    BY <1>1, <1>2 DEF Control, Turns
  <2> QED
    BY ONLY <1>1, <1>2, <2>1, LoopGoesOn
<1>7. DataInv'
  <2>1. KeptSound(outs, KeptBy, InCount)'
    <3>1. \A k \in Keys : Kept(k)' = Kept(k)
      BY <1>2, <1>3, <1>5 DEF Kept, NoPurge
    <3> QED
      BY <1>1, <1>2, <3>1, KeptStays DEF DataInv
  <2> QED
    BY <1>1, <1>2, <1>5, <2>1 DEF DataInv
<1>8. NoPurge'
  BY <1>2, <1>3, <1>5 DEF NoPurge, AtTTL
<1>9. BufferTypeOK'
  <2>1. ttls' \cup ttlstore' \cup ids' \cup live' \subseteq Keys
    BY <1>1, <1>2 DEF BufferTypeOK
  <2> QED
    BY <1>1, <1>2, <1>4, <2>1 DEF BufferTypeOK
<1> QED
  BY <1>1, <1>2, <1>3, <1>6, <1>7, <1>8, <1>9
     DEF FilterState, FilterInv, HeldOff, PurgeMeetsOthers, Mode

LEMMA LoopStopKeeps ==
  ASSUME FilterState, StopBuffer
  PROVE  FilterState'
<1>1. /\ Control /\ ControlType /\ DataInv /\ HeldOff /\ Mode /\ BufferTypeOK
  BY FilterFacts DEF FilterState, FilterInv
<1>2. /\ loop = "idle" /\ loop' = "off"
      /\ UNCHANGED <<buffering, called, answered, outs, dropped, held, timer, step, sem, evsem,
                     buffer, blen, store, snapshot, ttls, ttlstore, ids, live, copies, object>>
  BY DEF StopBuffer, commonVars, FilterState
<1>3. Control'
  <2>1. loop \in {"off", "idle"} /\ loop' \in {"off", "idle"}
    BY <1>2
  <2> QED
    BY ONLY <1>1, <1>2, <2>1, LoopGoesOn
<1>4. DataInv'
  <2>1. KeptSound(outs, KeptBy, InCount)'
    <3>1. \A k \in Keys : Kept(k)' = Kept(k)
      BY <1>2, SameItems
    <3> QED
      BY <1>1, <1>2, <3>1, KeptStays DEF DataInv
  <2> QED
    BY <1>1, <1>2, <2>1 DEF DataInv
<1>5. NoPurge /\ buffering.limit >= MaxGiven
  BY <1>2, LoopRuns
<1>6. NoPurge'
  BY <1>2, <1>5 DEF NoPurge, AtTTL
<1>7. BufferTypeOK'
  BY <1>1, <1>2 DEF BufferTypeOK
<1> QED
  BY <1>1, <1>2, <1>3, <1>4, <1>5, <1>6, <1>7
     DEF FilterState, FilterInv, HeldOff, PurgeMeetsOthers, Mode


LEMMA LoopPutsOutKeeps ==
  ASSUME FilterState, LoopPutsOut
  PROVE  FilterState'
<1> DEFINE ks == SetToSeq(ids)
           bad == {i \in DOMAIN ks : LoopItem(ks[i]).entry = 0}
           n == IF bad = {} THEN Len(ks) ELSE Min(bad) - 1
<1>1. /\ Control /\ ControlType /\ DataInv /\ HeldOff /\ Mode /\ BufferTypeOK
  BY FilterFacts DEF FilterState, FilterInv
<1>2. /\ loop = "removed" /\ loop' = "idle"
      /\ outs' = outs \o [i \in 1..n |-> LoopItem(ks[i]).has]
      /\ Parted(ids) /\ ttls' = {} /\ sem' = Tail(sem)
      /\ ids' = {} /\ live' = {} /\ copies' = NoItem
      /\ UNCHANGED <<buffering, called, answered, dropped, held, timer, step, evsem, blen, store,
                     snapshot, ttlstore>>
  BY DEF LoopPutsOut, heldVars
<1>3. NoPurge /\ buffering.limit >= MaxGiven
  BY <1>2, LoopRuns
<1>4. /\ live = ids /\ ids \subseteq Keys /\ ttlstore \cap ids = {}
      /\ \A k \in ids : buffer[k].there /\ buffer[k].ttl /\ buffer[k].entry # 0
  BY <1>1, <1>2, <1>3 DEF NoPurge, BufferTypeOK
<1>5. /\ ks \in Seq(Keys)
      /\ \A i, j \in 1..Len(ks) : i # j => ks[i] # ks[j]
      /\ \A k : (\E i \in 1..Len(ks) : ks[i] = k) <=> k \in ids
  <2>1. IsFiniteSet(ids)
    BY <1>4, BuffersAssumption, FS_Subset
  <2>2. /\ ks \in Seq(ids)
        /\ \A i, j \in 1..Len(ks) : ks[i] = ks[j] => i = j
        /\ \A x \in ids : \E i \in 1..Len(ks) : ks[i] = x
    BY <2>1, SequenceOfSet
  <2> HIDE DEF ks
  <2>3. ks \in Seq(Keys) /\ \A i \in 1..Len(ks) : ks[i] \in ids
    BY <1>4, <2>2
  <2> QED
    BY <2>2, <2>3
<1> HIDE DEF ks
<1>6. \A i \in 1..Len(ks) : LoopItem(ks[i]) = buffer[ks[i]] /\ ks[i] \in ids
  BY <1>4, <1>5 DEF LoopItem
<1>7. n = Len(ks)
  <2>1. DOMAIN ks = 1..Len(ks)
    BY <1>5
  <2>2. bad = {}
    BY <1>4, <1>6, <2>1
  <2> QED
    BY <2>2
<1> HIDE DEF n, bad
<1>8. \A i \in 1..Len(ks) : LoopItem(ks[i]).has = KeptBy[ks[i]]
  BY <1>4, <1>6 DEF KeptBy, Kept
<1>9. /\ \A k \in Keys : buffer'[k] = IF k \in ids THEN Gone ELSE buffer[k]
      /\ buffer' \in [Keys -> Item]
  BY <1>1, <1>2, ItemType DEF Parted, RemoveAll, BufferTypeOK
<1>10. /\ \A x \in Given : object'[x] =
            IF step[x] = "ttl" /\ KeyOf[x] \in ids /\ object[x] = "live"
            THEN IF buffer[KeyOf[x]].ttl THEN "timed" ELSE "untimed" ELSE object[x]
       /\ object' \in [Given -> {"live", "timed", "untimed"}]
  BY <1>1, <1>2 DEF Parted, BufferTypeOK
<1>11. KeptSound(outs, KeptBy, InCount)'
  <2> DEFINE s == outs
             K == KeptBy
             C == InCount
             r == [i \in 1..Len(ks) |-> K[ks[i]]]
             L == KeptBy'
             D == InCount'
  <2>1. KeptSound(s, K, C)
    BY <1>1 DEF DataInv
  <2>2. r = [i \in 1..Len(ks) |-> LoopItem(ks[i]).has]
    BY <1>8
  <2>3. outs' = s \o r
    BY <1>2, <1>7, <2>2
  <2>4. \A k \in Keys : L[k] = IF \E i \in 1..Len(ks) : ks[i] = k THEN <<>> ELSE K[k]
    <3> TAKE k \in Keys
    <3>1. L[k] = Kept(k)' /\ K[k] = Kept(k)
      BY DEF KeptBy
    <3>2. Kept(k)' = IF k \in ids THEN <<>> ELSE Kept(k)
      <4>1. CASE k \in ids
        BY <1>2, <1>3, <1>9, <4>1, ItemType DEF Kept, NoPurge
      <4>2. CASE k \notin ids
        BY <1>2, <1>9, <4>2 DEF Kept
      <4> QED
        BY <4>1, <4>2
    <3> QED
      BY <1>5, <3>1, <3>2
  <2>5. \A x \in Given : x \in D <=> x \in C
    BY <1>2 DEF InCount
  <2>6. r = [i \in 1..Len(ks) |-> K[ks[i]]]
    OBVIOUS
  <2> HIDE DEF s, K, C, r, L, D
  <2>7. KeptSound(s \o r, L, C)
    BY ONLY <1>5, <2>1, <2>4, <2>6, KeptPutsOutAll, SMTT(40)
  <2>8. KeptSound(s \o r, L, D)
    <3>1. \A k \in Keys : L[k] = L[k]
      OBVIOUS
    <3> DEFINE t == s \o r
    <3>2. KeptSound(t, L, C)
      BY <2>7
    <3> HIDE DEF t
    <3>3. KeptSound(t, L, D)
      BY ONLY <2>5, <3>1, <3>2, KeptSame
    <3> QED
      BY <3>3 DEF t
  <2> QED
    BY <2>3, <2>8 DEF L, D
<1>12. DataInv'
  <2>1. \A k \in Keys : ~buffer'[k].there => buffer'[k].has = <<>>
    BY <1>1, <1>9, ItemType DEF DataInv
  <2>2. \A x \in Given : step'[x] = "getting" => ~buffer'[KeyOf[x]].there
    BY <1>1, <1>2, <1>9, KeyOfType, ItemType DEF DataInv
  <2>3. \A k \in Keys : ~store'[k].there => store'[k].has = <<>>
    BY <1>1, <1>2 DEF DataInv
  <2> QED
    BY <1>11, <2>1, <2>2, <2>3 DEF DataInv
<1>13. Control'
  <2>1. HasSem(Loop)
    BY <1>1, <1>2 DEF Control, Turns
  <2> QED
    BY ONLY <1>1, <1>2, <2>1, LoopLeaves
<1>14. NoPurge'
  <2>1. \A k \in ttls' \cup ttlstore' \cup ids' : buffer'[k].there /\ buffer'[k].ttl
    <3> TAKE k \in ttls' \cup ttlstore' \cup ids'
    <3>1. k \in ttlstore /\ k \notin ids /\ k \in Keys
      BY <1>1, <1>2, <1>4 DEF BufferTypeOK
    <3> QED
      BY <1>3, <1>9, <3>1 DEF NoPurge
  <2>2. \A k \in Keys : buffer'[k].there => buffer'[k].entry # 0
    BY <1>3, <1>9, ItemType DEF NoPurge
  <2>3. \A x \in Given : step'[x] = "ttl" =>
          object'[x] = "timed" \/ (object'[x] = "live" /\ buffer'[KeyOf[x]].there)
    <3> TAKE x \in Given
    <3>1. HAVE step'[x] = "ttl"
    <3>2. /\ step[x] = "ttl" /\ KeyOf[x] \in Keys
          /\ object[x] = "timed" \/ (object[x] = "live" /\ buffer[KeyOf[x]].there)
      BY <1>2, <1>3, <3>1, KeyOfType DEF NoPurge, AtTTL
    <3>3. CASE KeyOf[x] \in ids
      BY <1>4, <1>10, <3>2, <3>3
    <3>4. CASE KeyOf[x] \notin ids
      BY <1>9, <1>10, <3>2, <3>4
    <3> QED
      BY <3>3, <3>4
  <2>4. /\ \A x \in Given :
             step'[x] # "purging" /\ (step'[x] \notin {"ttl", "done"} => blen' < x)
        /\ \A k \in Keys : store'[k].has = <<>>
    BY <1>2, <1>3 DEF NoPurge
  <2> QED
    BY <1>2, <2>1, <2>2, <2>3, <2>4 DEF NoPurge, AtTTL
<1>15. BufferTypeOK'
  <2>1. sem' \in Seq(Given \cup {Loop})
    BY <1>13 DEF Control, SemInv, Lined
  <2>2. outs' \in Seq(Seq(Given))
    BY <1>11 DEF KeptSound
  <2>3. ttls' \cup ttlstore' \cup ids' \cup live' \subseteq Keys
    BY <1>1, <1>2 DEF BufferTypeOK
  <2>4. copies' \in [Keys -> Item]
    BY <1>2, ItemType
  <2> QED
    BY <1>1, <1>2, <1>9, <1>10, <2>1, <2>2, <2>3, <2>4 DEF BufferTypeOK
<1> QED
  BY <1>1, <1>2, <1>3, <1>12, <1>13, <1>14, <1>15
     DEF FilterState, FilterInv, HeldOff, PurgeMeetsOthers, Mode


LEMMA FilterStep ==
  ASSUME FilterState, BufferNext
  PROVE  FilterState'
<1>1. buffering.kind = "filter"
  BY DEF FilterState
<1>2. ~(Join \/ JoinerFlushes \/ Throttle \/ ThrottleTick \/ Collect \/ ArrayTick)
  BY <1>1 DEF Join, JoinerFlushes, Throttle, ThrottleTick, Collect, ArrayTick, Calls
<1>3. CASE Filter
  BY <1>3, FilterKeeps
<1>4. CASE LoopWorks
  BY <1>4, LoopStartsKeeps, LoopGetsKeeps, LoopRemovesKeeps, LoopPutsOutKeeps DEF LoopWorks
<1>5. CASE \E e \in Given : Processes(e)
  <2>1. PICK e \in Given : Processes(e)
    BY <1>5
  <2>2. CASE PurgesMemory(e)
    BY <2>2, PurgesMemoryKeeps
  <2>3. CASE Purged(e)
    BY <2>3, PurgedKeeps
  <2>4. CASE GetsItem(e)
    BY <2>4, GetsItemKeeps
  <2>5. CASE HasItem(e)
    BY <2>5, HasItemKeeps
  <2>6. CASE UpdatesTTL(e)
    BY <2>6, UpdatesTTLKeeps
  <2> QED
    BY <2>1, <2>2, <2>3, <2>4, <2>5, <2>6 DEF Processes
<1>6. CASE \E due \in SUBSET Keys : LoopReads(due)
  BY <1>6, LoopReadsKeeps
<1>7. CASE StopBuffer
  BY <1>7, LoopStopKeeps
<1> QED
  BY <1>2, <1>3, <1>4, <1>5, <1>6, <1>7 DEF BufferNext

HeldState ==
  /\ BufferTypeOK /\ buffering \in Buffers /\ buffering.kind # "filter"
  /\ HeldInv
BuffersInv ==
  \/ buffering.kind = "filter" /\ PurgeMeetsOthers
  \/ FilterState
  \/ HeldState

LEMMA BuffersStutter ==
  ASSUME BuffersInv, UNCHANGED bufferVars
  PROVE  BuffersInv'
<1>1. UNCHANGED <<buffering, called, answered, outs, dropped, held, timer, step, sem, evsem,
                  buffer, blen, store, snapshot, ttls, ttlstore, loop, ids, live, copies, object>>
  BY DEF bufferVars, commonVars, heldVars, filterVars
<1>2. PurgeMeetsOthers' = PurgeMeetsOthers
  BY <1>1 DEF PurgeMeetsOthers
<1>3. BufferTypeOK => BufferTypeOK'
  BY <1>1 DEF BufferTypeOK
<1>4. HeldInv => HeldInv'
  BY <1>1 DEF HeldInv, FilterOff
<1>5. HeldOff => HeldOff'
  BY <1>1 DEF HeldOff
<1>6. SemInv => SemInv'
  BY <1>1 DEF SemInv, AtPurge, AtTTL, Purging
<1>7. EvsemInv => EvsemInv'
  BY <1>1 DEF EvsemInv, AtItem, AtTTL
<1>8. Turns => Turns'
  BY <1>1 DEF Turns, HasSem, HasEvsem, AtTTL
<1>9. InTheirOrder => InTheirOrder'
  BY <1>1 DEF InTheirOrder, AtItem, AtTTL, AtPurge
<1>10. DataInv => DataInv'
  <2>1. \A k \in Keys : Kept(k)' = Kept(k)
    BY <1>1, SameItems
  <2> QED
    BY <1>1, <2>1, KeptStays DEF DataInv
<1>11. (NoPurge => NoPurge') /\ (Alone => Alone')
  BY <1>1 DEF NoPurge, Alone, AtTTL
<1>12. Mode => Mode'
  BY <1>1, <1>11 DEF Mode
<1> QED
  BY <1>1, <1>2, <1>3, <1>4, <1>5, <1>6, <1>7, <1>8, <1>9, <1>10, <1>12
     DEF BuffersInv, FilterState, FilterInv, Control, HeldState

LEMMA NothingHas == \A e : ~Has(<<>>, e) /\ ToSet(<<>>) = {}
BY ToSetEmpty DEF Has

LEMMA NothingSound ==
  /\ InKeyOrder(<<>>) /\ Ascends(<<>>) /\ <<>> \in Seq(Seq(Given)) /\ <<>> \in Seq(Given)
  /\ \A S, P : Lined(<<>>, S, P)
BY DEF InKeyOrder, Ascends, Lined

LEMMA BuffersStart ==
  ASSUME NEW b \in Buffers, BufferInit(b)
  PROVE  BuffersInv
<1>1. /\ buffering = b /\ called = 0 /\ answered = [e \in Given |-> 0] /\ outs = <<>>
      /\ dropped = {} /\ held = <<>> /\ timer = TimerStarts(b)
      /\ step = [e \in Given |-> "none"] /\ sem = <<>> /\ evsem = <<>>
      /\ buffer = NoItem /\ blen = 0 /\ store = NoItem /\ snapshot = NoItem
      /\ ttls = {} /\ ttlstore = {} /\ loop = LoopIdle(b)
      /\ ids = {} /\ live = {} /\ copies = NoItem
      /\ object = [e \in Given |-> "live"]
  BY DEF BufferInit, HeldInit, FilterInit
<1>2. b.timed \in BOOLEAN /\ b.limit \in Nat /\ b.pending \in Nat /\ MaxGiven \in Nat
  BY BuffersAssumption
<1>3. BufferTypeOK
  <2>1. timer \in BOOLEAN /\ loop \in {"off", "idle"}
    BY <1>1, <1>2 DEF TimerStarts, LoopIdle
  <2>2. step \in [Given -> {"none", "purge", "purging", "every", "getting", "ttl", "done"}]
    BY <1>1
  <2>3. /\ answered \in [Given -> Nat] /\ object \in [Given -> {"live", "timed", "untimed"}]
        /\ outs \in Seq(Seq(Given)) /\ held \in Seq(Given)
        /\ sem \in Seq(Given \cup {Loop}) /\ evsem \in Seq(Given)
    BY <1>1
  <2>4. {buffer, store, snapshot, copies} \subseteq [Keys -> Item]
    BY <1>1, ItemType
  <2> QED
    BY <1>1, <1>2, <2>1, <2>2, <2>3, <2>4 DEF BufferTypeOK
<1>4. CASE b.kind # "filter"
  <2>1. HeldSound(called, outs, held, dropped)
    BY <1>1, NothingHas, NothingSound DEF HeldSound, Given
  <2>2. FilterOff
    BY <1>1, <1>4 DEF FilterOff, LoopIdle
  <2> QED
    BY <1>1, <1>3, <1>4, <2>1, <2>2 DEF BuffersInv, HeldState, HeldInv
<1>5. CASE b.kind = "filter" /\ ~PurgeMeetsOthers
  <2>1. \A e \in Given : step[e] = "none"
    BY <1>1
  <2>2. SemInv /\ EvsemInv
    BY <1>1, <2>1, NothingHas, NothingSound DEF SemInv, EvsemInv, AtPurge, AtTTL, AtItem
  <2>3. Turns /\ InTheirOrder
    BY <1>1, <2>1 DEF Turns, InTheirOrder, AtPurge, AtTTL, AtItem, LoopIdle, Given
  <2>4. \A k \in Keys : buffer[k] = Gone /\ store[k] = Gone
    BY <1>1 DEF NoItem
  <2>5. DataInv
    <3>1. \A k \in Keys : KeptBy[k] = <<>>
      BY <2>4, ItemType DEF KeptBy, Kept
    <3>2. \A e \in Given : e \notin InCount
      BY <2>1 DEF InCount
    <3>3. KeptSound(outs, KeptBy, InCount)
      BY <1>1, <3>1, <3>2, NothingHas, NothingSound, KeyOfType DEF KeptSound
    <3> QED
      BY <2>1, <2>4, <3>3, ItemType DEF DataInv
  <2>6. NoPurge
    BY <1>1, <2>1, <2>4, ItemType, GivenFacts DEF NoPurge, AtTTL, LoopIdle
  <2>7. ~(buffering.limit >= MaxGiven) => Alone
    <3>1. ~(buffering.limit >= MaxGiven) => loop = "off"
      BY <1>1, <1>2, <1>5 DEF PurgeMeetsOthers, LoopIdle
    <3> QED
      BY <1>1, <2>1, <3>1 DEF Alone, AtTTL
  <2>8. Mode
    BY <2>6, <2>7 DEF Mode
  <2> QED
    BY <1>1, <1>3, <1>5, <2>2, <2>3, <2>5, <2>8
       DEF BuffersInv, FilterState, FilterInv, HeldOff, Control
<1> QED
  BY <1>1, <1>4, <1>5 DEF BuffersInv

LEMMA KeepsBuffering ==
  ASSUME BufferNext
  PROVE  buffering' = buffering
<1>1. CASE Join \/ Throttle \/ Collect \/ Filter
  BY <1>1 DEF Join, Throttle, Collect, Filter, Calls
<1>2. CASE JoinerFlushes \/ ThrottleTick \/ ArrayTick \/ StopBuffer
  BY <1>2 DEF JoinerFlushes, ThrottleTick, ArrayTick, StopBuffer, commonVars
<1>3. CASE LoopWorks
  BY <1>3 DEF LoopWorks, LoopStarts, LoopGets, LoopRemoves, LoopPutsOut, commonVars
<1>4. ASSUME NEW due \in SUBSET Keys, LoopReads(due)
      PROVE  buffering' = buffering
  BY <1>4 DEF LoopReads, commonVars
<1>5. ASSUME NEW e \in Given, Processes(e)
      PROVE  buffering' = buffering
  <2>1. CASE PurgesMemory(e) \/ Purged(e)
    BY <2>1 DEF PurgesMemory, Purged, commonVars
  <2>2. CASE GetsItem(e)
    BY <2>2 DEF GetsItem, Counts, commonVars
  <2>3. CASE HasItem(e)
    BY <2>3 DEF HasItem, Counts
  <2>4. CASE UpdatesTTL(e)
    BY <2>4 DEF UpdatesTTL, commonVars
  <2> QED
    BY <1>5, <2>1, <2>2, <2>3, <2>4 DEF Processes
<1> QED
  BY <1>1, <1>2, <1>3, <1>4, <1>5 DEF BufferNext

(* The invariant of the processors that keep entries holds in every        *)
(* reachable state: who has passed which semaphore, in which order, and    *)
(* what is held, kept by key or put out (joiner.js, throttle.js, array.js, *)
(* filter.js:102-270).                                                     *)
THEOREM BuffersInvariance == BuffersSpec => []BuffersInv
<1>1. (\E b \in Buffers : BufferInit(b)) => BuffersInv
  BY BuffersStart
<1>2. BuffersInv /\ [BufferNext]_bufferVars => BuffersInv'
  <2> SUFFICES ASSUME BuffersInv, [BufferNext]_bufferVars
               PROVE  BuffersInv'
    OBVIOUS
  <2>1. CASE UNCHANGED bufferVars
    BY <2>1, BuffersStutter
  <2>2. CASE BufferNext
    <3>1. CASE buffering.kind = "filter" /\ PurgeMeetsOthers
      <4>1. buffering' = buffering
        BY <2>2, KeepsBuffering
      <4> QED
        BY <3>1, <4>1 DEF BuffersInv, PurgeMeetsOthers
    <3>2. CASE FilterState
      BY <2>2, <3>2, FilterStep DEF BuffersInv
    <3>3. CASE HeldState
      BY <2>2, <3>3, HeldStep DEF BuffersInv, HeldState
    <3> QED
      BY <3>1, <3>2, <3>3 DEF BuffersInv
  <2> QED
    BY <2>1, <2>2
<1> QED
  BY <1>1, <1>2, PTL DEF BuffersSpec

LEMMA OutTimes ==
  ASSUME NEW s \in Seq(Seq(Given)), InKeyOrder(s), NEW e \in Given
  PROVE  Cardinality({i \in DOMAIN s : e \in ToSet(s[i])}) = IF Has(s, e) THEN 1 ELSE 0
<1> DEFINE I == {i \in DOMAIN s : e \in ToSet(s[i])}
<1>1. DOMAIN s = 1..Len(s) /\ \A i \in 1..Len(s) : s[i] \in Seq(Given)
  OBVIOUS
<1>2. CASE ~Has(s, e)
  <2>1. I = {}
    BY <1>1, <1>2 DEF Has
  <2> QED
    BY <1>2, <2>1, FS_EmptySet
<1>3. CASE Has(s, e)
  <2>1. PICK i \in 1..Len(s) : e \in ToSet(s[i])
    BY <1>3 DEF Has
  <2>2. ASSUME NEW j \in 1..Len(s), e \in ToSet(s[j])
        PROVE  j = i
    <3>1. PICK a \in 1..Len(s[i]) : s[i][a] = e
      BY <1>1, <2>1, MembersAre
    <3>2. PICK b \in 1..Len(s[j]) : s[j][b] = e
      BY <1>1, <2>2, MembersAre
    <3>3. a \in DOMAIN s[i] /\ b \in DOMAIN s[j] /\ i \in DOMAIN s /\ j \in DOMAIN s
      BY <1>1
    <3>4. ~(i < j)
      <4>1. i < j => s[i][a] < s[j][b]
        BY <3>1, <3>2, <3>3 DEF InKeyOrder
      <4> QED
        BY <3>1, <3>2, <4>1 DEF Given
    <3>5. ~(j < i)
      <4>1. j < i => s[j][b] < s[i][a]
        BY <3>1, <3>2, <3>3 DEF InKeyOrder
      <4> QED
        BY <3>1, <3>2, <4>1 DEF Given
    <3> QED
      BY <3>4, <3>5
  <2>3. I = {i}
    BY <1>1, <2>1, <2>2
  <2> QED
    BY <1>3, <2>3, FS_Singleton
<1> QED
  BY <1>2, <1>3

LEMMA KeptTimes ==
  ASSUME NEW e \in Given, \A k \in Keys : e \in ToSet(Kept(k)) => k = KeyOf[e]
  PROVE  Cardinality({k \in Keys : e \in ToSet(Kept(k))})
           = IF e \in ToSet(Kept(KeyOf[e])) THEN 1 ELSE 0
<1> DEFINE K == {k \in Keys : e \in ToSet(Kept(k))}
<1>1. KeyOf[e] \in Keys
  BY KeyOfType
<1>2. CASE e \in ToSet(Kept(KeyOf[e]))
  <2>1. K = {KeyOf[e]}
    BY <1>1, <1>2
  <2> QED
    BY <1>2, <2>1, FS_Singleton
<1>3. CASE e \notin ToSet(Kept(KeyOf[e]))
  <2>1. K = {}
    BY <1>3
  <2> QED
    BY <1>3, <2>1, FS_EmptySet
<1> QED
  BY <1>2, <1>3

(* Every entry is counted in one aggregate, array or text that is put out  *)
(* or kept, none in two, and those of one key are put out in their order,  *)
(* whatever calls and timers overlap; for any number of entries, any keys  *)
(* and any limits, but a filter whose buffer may reach its limit while     *)
(* others are in it (joiner.js:50-80, throttle.js:35-67, array.js:42-75,   *)
(* filter.js:102-270).                                                     *)
THEOREM EntriesCountedOnceInOrder == BuffersSpec => []CountedOnceInOrder
<1>1. BuffersInv => CountedOnceInOrder
  <2> SUFFICES ASSUME BuffersInv
               PROVE  CountedOnceInOrder
    OBVIOUS
  <2>1. CASE buffering.kind = "filter" /\ PurgeMeetsOthers
    BY <2>1 DEF CountedOnceInOrder
  <2>2. CASE FilterState
    <3>1. /\ KeptSound(outs, KeptBy, InCount) /\ held = <<>> /\ dropped = {}
          /\ buffering.kind = "filter" /\ \A e \in Given : step[e] = "none" <=> e > called
      BY <2>2 DEF FilterState, FilterInv, DataInv, HeldOff, Control, InTheirOrder
    <3>2. \A k \in Keys : KeptBy[k] = Kept(k)
      BY DEF KeptBy
    <3>3. ASSUME NEW e \in Given
          PROVE  Times(e) = IF Counted(e) THEN 1 ELSE 0
      <4>1. outs \in Seq(Seq(Given)) /\ InKeyOrder(outs) /\ KeyOf[e] \in Keys
        BY <3>1, KeyOfType DEF KeptSound
      <4>2. Cardinality({i \in DOMAIN outs : e \in ToSet(outs[i])}) = IF Has(outs, e) THEN 1 ELSE 0
        BY <4>1, OutTimes
      <4>3. \A k \in Keys : e \in ToSet(Kept(k)) => k = KeyOf[e]
        BY <3>1, <3>2 DEF KeptSound
      <4>4. Cardinality({k \in Keys : e \in ToSet(Kept(k))})
              = IF e \in ToSet(Kept(KeyOf[e])) THEN 1 ELSE 0
        BY <4>3, KeptTimes
      <4>5. ~(Has(outs, e) /\ e \in ToSet(Kept(KeyOf[e])))
        BY <3>1, <3>2, <4>1 DEF KeptSound, Behind, Given
      <4>6. (Has(outs, e) \/ e \in ToSet(Kept(KeyOf[e]))) <=> step[e] \in {"ttl", "done"}
        BY <3>1, <3>2, <4>1 DEF KeptSound, InCount
      <4>7. called \in Nat /\ e \in Nat
        BY <2>2, FilterFacts, GivenFacts
      <4>8. Counted(e) <=> step[e] \in {"ttl", "done"}
        BY <3>1, <4>7 DEF Counted
      <4>9. e \notin ToSet(held) \cup dropped
        BY <3>1, ToSetEmpty
      <4> QED
        BY <4>2, <4>4, <4>5, <4>6, <4>8, <4>9 DEF Times
    <3> QED
      BY <3>1, <3>3 DEF CountedOnceInOrder, KeptSound
  <2>3. CASE HeldState
    <3>1. /\ HeldSound(called, outs, held, dropped) /\ FilterOff /\ buffering.kind # "filter"
      BY <2>3 DEF HeldState, HeldInv
    <3>2. \A k \in Keys : Kept(k) = <<>>
      BY <3>1, ItemType DEF FilterOff, Kept, NoItem
    <3>3. ASSUME NEW e \in Given
          PROVE  Times(e) = IF Counted(e) THEN 1 ELSE 0
      <4>1. outs \in Seq(Seq(Given)) /\ InKeyOrder(outs) /\ KeyOf[e] \in Keys
        BY <3>1, KeyOfType DEF HeldSound
      <4>2. Cardinality({i \in DOMAIN outs : e \in ToSet(outs[i])}) = IF Has(outs, e) THEN 1 ELSE 0
        BY <4>1, OutTimes
      <4>3. \A k \in Keys : e \notin ToSet(Kept(k))
        BY <3>2, ToSetEmpty
      <4>4. Cardinality({k \in Keys : e \in ToSet(Kept(k))}) = 0
        BY <4>1, <4>3, KeptTimes
      <4>5. ~(Has(outs, e) /\ e \in ToSet(held) \cup dropped)
        BY <3>1 DEF HeldSound, Given
      <4>6. (Has(outs, e) \/ e \in ToSet(held) \cup dropped) <=> e <= called
        BY <3>1 DEF HeldSound
      <4>7. Counted(e) <=> e <= called
        BY <3>1 DEF Counted, FilterOff
      <4> QED
        BY <4>2, <4>4, <4>5, <4>6, <4>7 DEF Times
    <3> QED
      BY <3>1, <3>3 DEF CountedOnceInOrder, HeldSound
  <2> QED
    BY <2>1, <2>2, <2>3 DEF BuffersInv
<1> QED
  BY <1>1, BuffersInvariance, PTL
=============================================================================
