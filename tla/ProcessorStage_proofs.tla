------------------------ MODULE ProcessorStage_proofs ------------------------
(***************************************************************************)
(* Proofs about ProcessorStage, for any limit, any numbers of entries,     *)
(* items and retries, any finite set of pushers and any filters.           *)
(***************************************************************************)
EXTENDS ProcessorStage, Operators_proofs, TLAPS

(***************************************************************************)
(* Those who ask for slots.                                                *)
(***************************************************************************)

LEMMA StandsType ==
  ASSUME writer \in CallState, pusher \in [Pushers -> CallState]
  PROVE  /\ Stands \in [Callers -> CallState]
         /\ Stands["writer"] = writer
         /\ \A p \in Pushers : p # "writer" /\ Stands[p] = pusher[p]
<1>1. \A p \in Pushers : p # "writer"
  BY PushersAssumption
<1> QED
  BY <1>1 DEF Stands, Callers

(* The conjuncts of the invariant as a list of facts for the steps below.  *)
LEMMA Facts ==
  ASSUME IInv
  PROVE  /\ order \in Seq(Sources) /\ handled \in 0..Len(order)
         /\ state \in [Entries -> EntryState]
         /\ retry \in [Entries -> -1..RetryMax]
         /\ result \in [Sources -> Seq(Item)]
         /\ writer \in {"idle", "blocked", "granted"} /\ writer \in CallState
         /\ pusher \in [Pushers -> CallState]
         /\ mutex \in SemaphoreOf(Callers) /\ mutex.cur \in 0..MaxPending
         /\ buffer \in Seq(Seq(Item) \ {<<>>}) /\ reading \in BOOLEAN
         /\ out \in Seq(Item)
         /\ Stands \in [Callers -> CallState]
         /\ Sound(mutex, Stands, Callers, MaxPending)
         /\ StartedInOrder
         /\ \A e \in Entries : state[e] \in {"none", "calling"} => retry[e] >= 0
         /\ mutex.cur + (IF writer = "blocked" THEN 1 ELSE 0)
              = Len(order) - handled + Len(buffer) + Cardinality(Granted)
         /\ IsFiniteSet(Granted) /\ Cardinality(Granted) \in Nat
<1>1. Granted \in SUBSET Pushers
  BY DEF Granted
<1>2. IsFiniteSet(Granted) /\ Cardinality(Granted) \in Nat
  BY <1>1, FS_Subset, FS_CardinalityType, PushersAssumption
<1>3. writer \in CallState
  BY DEF IInv, TypeOK, CallState
<1>4. Stands \in [Callers -> CallState]
  BY <1>3, StandsType DEF IInv, TypeOK
<1> QED
  BY <1>2, <1>3, <1>4 DEF IInv, TypeOK, SlotsConserved, InFlight

LEMMA CallStates ==
  /\ "idle" \in CallState /\ "blocked" \in CallState
  /\ "granted" \in CallState /\ "done" \in CallState
  BY DEF CallState

(* When a pusher changes, the number of those granted a slot follows.      *)
LEMMA GrantedStep ==
  ASSUME NEW p \in Pushers, pusher \in [Pushers -> CallState],
         NEW s \in CallState, pusher' = [pusher EXCEPT ![p] = s]
  PROVE  /\ s = "granted" /\ pusher[p] # "granted" =>
              Cardinality(Granted') = Cardinality(Granted) + 1
         /\ s # "granted" /\ pusher[p] = "granted" =>
              Cardinality(Granted') = Cardinality(Granted) - 1
         /\ s # "granted" /\ pusher[p] # "granted" =>
              Cardinality(Granted') = Cardinality(Granted)
<1>1. Granted \in SUBSET Pushers /\ Granted' \in SUBSET Pushers
  BY DEF Granted
<1>2. \A c \in Pushers : c # p => (c \in Granted <=> c \in Granted')
  BY DEF Granted
<1>3. (p \in Granted <=> pusher[p] = "granted") /\ (p \in Granted' <=> s = "granted")
  BY DEF Granted
<1>4. IsFiniteSet(Pushers)
  BY PushersAssumption
<1> HIDE DEF Granted
<1>5. CASE s = "granted" /\ pusher[p] # "granted"
  <2>1. p \in Granted' /\ p \notin Granted
    BY <1>3, <1>5
  <2>2. Cardinality(Granted') = Cardinality(Granted) + 1
    BY <1>1, <1>2, <1>4, <2>1, CardinalityStep
  <2> QED
    BY <1>5, <2>2
<1>6. CASE s # "granted" /\ pusher[p] = "granted"
  <2>1. p \notin Granted' /\ p \in Granted
    BY <1>3, <1>6
  <2>2. Cardinality(Granted') = Cardinality(Granted) - 1
    BY <1>1, <1>2, <1>4, <2>1, CardinalityStep
  <2> QED
    BY <1>6, <2>2
<1>7. CASE s # "granted" /\ pusher[p] # "granted"
  <2>1. Granted' = Granted
    BY <1>1, <1>2, <1>3, <1>7
  <2> QED
    BY <1>7, <2>1
<1> QED
  BY <1>5, <1>6, <1>7

(* When the writer or a pusher changes, so does where it stands.           *)
LEMMA WriterStands ==
  ASSUME writer \in CallState, pusher \in [Pushers -> CallState],
         NEW s \in CallState, writer' = s, pusher' = pusher
  PROVE  Stands' = [Stands EXCEPT !["writer"] = s]
  BY PushersAssumption DEF Stands, Callers

LEMMA PusherStands ==
  ASSUME writer \in CallState, pusher \in [Pushers -> CallState],
         NEW p \in Pushers, NEW s \in CallState,
         pusher' = [pusher EXCEPT ![p] = s], writer' = writer
  PROVE  Stands' = [Stands EXCEPT ![p] = s]
  BY PushersAssumption DEF Stands, Callers

LEMMA WokenStand ==
  ASSUME writer \in CallState, pusher \in [Pushers -> CallState],
         NEW woken \in SUBSET Callers, WakeUp(woken)
  PROVE  Stands' = Grant(Stands, woken)
  BY PushersAssumption DEF Stands, Callers, WakeUp, Grant

(***************************************************************************)
(* The slots.                                                              *)
(***************************************************************************)

(* What a stage counts on its slots: those taken, and the write() that     *)
(* waits for one, less those of the pushes about to queue their entry.     *)
Balance ==
  mutex.cur + (IF writer = "blocked" THEN 1 ELSE 0) - Cardinality(Granted)

(* take() by one who does not wait, on the semaphore of the stage.         *)
LEMMA TakeSound ==
  ASSUME Sound(mutex, Stands, Callers, MaxPending),
         Stands \in [Callers -> CallState],
         NEW x \in Callers, Stands[x] # "blocked"
  PROVE  /\ Available(mutex) =>
              /\ Sound(Take(mutex, x), [Stands EXCEPT ![x] = "granted"],
                       Callers, MaxPending)
              /\ Take(mutex, x).cur = mutex.cur + 1
         /\ ~Available(mutex) =>
              /\ Sound(Take(mutex, x), [Stands EXCEPT ![x] = "blocked"],
                       Callers, MaxPending)
              /\ Take(mutex, x).cur = mutex.cur
<1>1. /\ MaxPending \in Nat \ {0}
      /\ "blocked" \in CallState /\ "granted" \in CallState
  BY CallStates, PendingAssumption
<1>2. mutex \in SemaphoreOf(Callers)
  BY DEF Sound
<1>3. CASE Available(mutex)
  <2>1. Sound(Take(mutex, x), [Stands EXCEPT ![x] = "granted"], Callers, MaxPending)
    BY <1>1, <1>3, SoundTake
  <2>2. Take(mutex, x).cur = mutex.cur + 1
    BY <1>2, <1>3, TakeProperties
  <2> QED
    BY <1>3, <2>1, <2>2
<1>4. CASE ~Available(mutex)
  <2>1. Sound(Take(mutex, x), [Stands EXCEPT ![x] = "blocked"], Callers, MaxPending)
    BY <1>1, <1>4, SoundTake
  <2>2. Take(mutex, x).cur = mutex.cur
    BY <1>2, <1>4, TakeProperties
  <2> QED
    BY <1>4, <2>1, <2>2
<1> QED
  BY <1>3, <1>4

(* The same as a step of the caller.                                       *)
LEMMA TakeKeeps ==
  ASSUME IInv, NEW x \in Callers, Stands[x] = "idle", mutex' = Take(mutex, x),
         Stands' = [Stands EXCEPT ![x] =
                      IF Available(mutex) THEN "granted" ELSE "blocked"]
  PROVE  /\ Sound(mutex', Stands', Callers, MaxPending)
         /\ mutex'.cur = IF Available(mutex) THEN mutex.cur + 1 ELSE mutex.cur
<1>1. /\ Sound(mutex, Stands, Callers, MaxPending)
      /\ Stands \in [Callers -> CallState]
  BY Facts
<1>2. Stands[x] # "blocked"
  OBVIOUS
<1>3. CASE Available(mutex)
  <2>1. Stands' = [Stands EXCEPT ![x] = "granted"]
    BY <1>3
  <2> QED
    BY <1>1, <1>2, <1>3, <2>1, TakeSound
<1>4. CASE ~Available(mutex)
  <2>1. Stands' = [Stands EXCEPT ![x] = "blocked"]
    BY <1>4
  <2> QED
    BY <1>1, <1>2, <1>4, <2>1, TakeSound
<1> QED
  BY <1>3, <1>4

(* leave() of a taken slot, on the semaphore of the stage.                 *)
LEMMA LeaveSound ==
  ASSUME Sound(mutex, Stands, Callers, MaxPending),
         Stands \in [Callers -> CallState],
         mutex.wait # <<>> \/ mutex.cur >= 1
  PROVE  /\ Sound(Leave(mutex), Grant(Stands, Woken(mutex)), Callers, MaxPending)
         /\ mutex.wait # <<>> =>
              /\ mutex.wait[1] \in Callers /\ Stands[mutex.wait[1]] = "blocked"
              /\ Woken(mutex) = {mutex.wait[1]} /\ Leave(mutex).cur = mutex.cur
         /\ mutex.wait = <<>> =>
              Woken(mutex) = {} /\ Leave(mutex).cur = mutex.cur - 1
<1>1. MaxPending \in Nat \ {0} /\ "blocked" \in CallState
  BY CallStates, PendingAssumption
<1>2. Sound(Leave(mutex), Grant(Stands, Woken(mutex)), Callers, MaxPending)
  BY <1>1, SoundLeave
<1>3. /\ mutex \in SemaphoreOf(Callers) /\ mutex.cap = MaxPending
      /\ mutex.cur \in 0..MaxPending /\ Queued(mutex, Stands, "blocked")
  BY DEF Sound
<1>4. HandsOver(mutex) <=> mutex.wait # <<>>
  BY <1>1, <1>3 DEF HandsOver
<1>5. CASE mutex.wait # <<>>
  <2>1. /\ mutex.wait[1] \in Callers /\ Len(mutex.wait) >= 1
        /\ Woken(mutex) = {mutex.wait[1]} /\ Leave(mutex).cur = mutex.cur
    BY <1>3, <1>4, <1>5, LeaveProperties
  <2>2. Stands[mutex.wait[1]] = "blocked"
    BY <1>3, <2>1 DEF Queued, SemaphoreOf
  <2> QED
    BY <1>2, <1>5, <2>1, <2>2
<1>6. CASE mutex.wait = <<>>
  <2>1. Woken(mutex) = {} /\ Leave(mutex).cur = mutex.cur - 1
    BY <1>3, <1>4, <1>6, LeaveProperties
  <2> QED
    BY <1>2, <1>6, <2>1
<1> QED
  BY <1>5, <1>6

(* leave() by a stage that holds an entry.                                 *)
LEMMA ReleaseKeeps ==
  ASSUME IInv, Release, InFlight >= 1
  PROVE  /\ Sound(mutex', Stands', Callers, MaxPending)
         /\ writer' \in {"idle", "blocked", "granted"}
         /\ pusher' \in [Pushers -> CallState]
         /\ Balance' = Balance - 1
<1> DEFINE y == mutex.wait[1]
<1>1. /\ mutex' = Leave(mutex) /\ WakeUp(Woken(mutex))
      /\ pusher' = Grant(pusher, Woken(mutex))
      /\ writer' = IF "writer" \in Woken(mutex) THEN "granted" ELSE writer
  BY DEF Release, WakeUp
<1>2. /\ Sound(mutex, Stands, Callers, MaxPending)
      /\ Stands \in [Callers -> CallState] /\ mutex.cur \in 0..MaxPending
      /\ writer \in {"idle", "blocked", "granted"} /\ writer \in CallState
      /\ pusher \in [Pushers -> CallState]
      /\ Cardinality(Granted) \in Nat
      /\ mutex.cur + (IF writer = "blocked" THEN 1 ELSE 0)
           = InFlight + Cardinality(Granted)
      /\ InFlight \in Int
  BY Facts DEF InFlight
<1>3. mutex.wait = <<>> => \A c \in Callers : Stands[c] # "blocked"
  BY <1>2 DEF Sound, AllQueued
<1>4. mutex.wait # <<>> \/ mutex.cur >= 1
  BY <1>2, <1>3, StandsType DEF Callers
<1>5. /\ Sound(mutex', Grant(Stands, Woken(mutex)), Callers, MaxPending)
      /\ mutex.wait # <<>> => /\ y \in Callers /\ Stands[y] = "blocked"
                              /\ Woken(mutex) = {y} /\ mutex'.cur = mutex.cur
      /\ mutex.wait = <<>> => Woken(mutex) = {} /\ mutex'.cur = mutex.cur - 1
  BY <1>1, <1>2, <1>4, LeaveSound
<1> HIDE DEF y
<1>6. CASE mutex.wait = <<>>
  <2>1. Woken(mutex) = {} /\ mutex'.cur = mutex.cur - 1
    BY <1>5, <1>6
  <2>2. Stands' = Grant(Stands, {})
    BY <1>1, <1>2, <2>1, WokenStand
  <2>3. writer' = writer /\ pusher' = pusher
    BY <1>1, <1>2, <2>1, GrantIsExcept
  <2>4. Granted' = Granted
    BY <2>3 DEF Granted
  <2>5. Balance' = Balance - 1
    BY <1>2, <2>1, <2>3, <2>4 DEF Balance
  <2> QED
    BY <1>2, <1>5, <2>1, <2>2, <2>3, <2>5
<1>7. CASE mutex.wait # <<>> /\ y = "writer"
  <2>1. Woken(mutex) = {"writer"} /\ mutex'.cur = mutex.cur /\ Stands["writer"] = "blocked"
    BY <1>5, <1>7
  <2>2. Stands' = Grant(Stands, {"writer"})
    BY <1>1, <1>2, <2>1, WokenStand DEF Callers
  <2>3. writer = "blocked" /\ writer' = "granted"
    BY <1>1, <1>2, <2>1, StandsType
  <2>4. pusher' = pusher
    BY <1>1, <1>2, <2>1, PushersAssumption DEF Grant
  <2>5. Granted' = Granted
    BY <2>4 DEF Granted
  <2>6. Balance' = Balance - 1
    BY <1>2, <2>1, <2>3, <2>5 DEF Balance
  <2> QED
    BY <1>2, <1>5, <2>1, <2>2, <2>3, <2>4, <2>6
<1>8. CASE mutex.wait # <<>> /\ y # "writer"
  <2>1. /\ Woken(mutex) = {y} /\ mutex'.cur = mutex.cur
        /\ y \in Pushers /\ Stands[y] = "blocked"
    BY <1>5, <1>8 DEF Callers
  <2>2. Stands' = Grant(Stands, {y})
    BY <1>1, <1>2, <2>1, WokenStand DEF Callers
  <2>3. writer' = writer
    BY <1>1, <1>8, <2>1
  <2>4. pusher[y] = "blocked" /\ pusher' = [pusher EXCEPT ![y] = "granted"]
    <3>1. pusher[y] = "blocked"
      BY <1>2, <2>1, StandsType
    <3>2. Grant(pusher, {y}) = [pusher EXCEPT ![y] = "granted"]
      BY <1>2, <2>1, GrantIsExcept
    <3> QED
      BY <1>1, <2>1, <3>1, <3>2
  <2>5. Cardinality(Granted') = Cardinality(Granted) + 1
    BY <1>2, <2>1, <2>4, CallStates, GrantedStep
  <2>6. Balance' = Balance - 1
    BY <1>2, <2>1, <2>3, <2>5 DEF Balance
  <2>7. pusher' \in [Pushers -> CallState]
    BY <1>2, <2>4, CallStates
  <2> QED
    BY <1>2, <1>5, <2>1, <2>2, <2>3, <2>6, <2>7
<1> QED
  BY <1>6, <1>7, <1>8

(* The conjuncts of the invariant, put together again after a step.        *)
LEMMA Whole ==
  ASSUME /\ order' \in Seq(Sources) /\ handled' \in 0..Len(order')
         /\ state' \in [Entries -> EntryState]
         /\ retry' \in [Entries -> -1..RetryMax]
         /\ result' \in [Sources -> Seq(Item)]
         /\ writer' \in {"idle", "blocked", "granted"}
         /\ pusher' \in [Pushers -> CallState]
         /\ Sound(mutex', Stands', Callers, MaxPending)
         /\ buffer' \in Seq(Seq(Item) \ {<<>>}) /\ reading' \in BOOLEAN
         /\ out' \in Seq(Item)
         /\ StartedInOrder'
         /\ \A e \in Entries : state'[e] \in {"none", "calling"} => retry'[e] >= 0
         /\ Balance' = InFlight'
  PROVE  IInv'
<1>1. /\ mutex' \in SemaphoreOf(Callers) /\ mutex'.cur \in 0..MaxPending
  BY DEF Sound
<1>2. Cardinality(Granted') \in Nat
  <2>1. Granted' \in SUBSET Pushers
    BY DEF Granted
  <2> QED
    BY <2>1, FS_Subset, FS_CardinalityType, PushersAssumption
<1>3. InFlight' \in Int
  BY DEF InFlight
<1>4. SlotsConserved'
  BY <1>1, <1>2, <1>3, PendingAssumption DEF SlotsConserved, Balance
<1> QED
  BY <1>1, <1>4 DEF IInv, TypeOK

(* And taken apart.                                                        *)
LEMMA Balanced == IInv => Balance = InFlight /\ InFlight \in Int
<1> SUFFICES ASSUME IInv PROVE Balance = InFlight /\ InFlight \in Int
  OBVIOUS
<1>1. /\ order \in Seq(Sources) /\ handled \in 0..Len(order)
      /\ mutex.cur \in Int /\ Cardinality(Granted) \in Int
      /\ buffer \in Seq(Seq(Item) \ {<<>>})
  BY Facts, PendingAssumption
<1>2. mutex.cur + (IF writer = "blocked" THEN 1 ELSE 0)
        = InFlight + Cardinality(Granted)
  BY DEF IInv, SlotsConserved
<1>3. InFlight \in Int
  BY <1>1 DEF InFlight
<1>4. CASE writer = "blocked"
  BY <1>1, <1>2, <1>3, <1>4 DEF Balance
<1>5. CASE writer # "blocked"
  BY <1>1, <1>2, <1>3, <1>5 DEF Balance
<1> QED
  BY <1>4, <1>5

(***************************************************************************)
(* Each step keeps the invariant.                                          *)
(***************************************************************************)

LEMMA InitKeeps == Init => IInv
<1> SUFFICES ASSUME Init PROVE IInv
  OBVIOUS
<1> USE PendingAssumption
<1>1. mutex = [cap |-> MaxPending, cur |-> 0, wait |-> <<>>]
  BY DEF Init, Sem
<1>2. writer = "idle" /\ pusher = [p \in Pushers |-> "idle"]
  BY DEF Init
<1>3. pusher \in [Pushers -> CallState] /\ writer \in CallState
  BY <1>2, CallStates
<1>4. \A c \in Callers : Stands[c] = "idle"
  BY <1>2, <1>3, StandsType DEF Callers
<1>5. Stands \in [Callers -> CallState]
  BY <1>3, StandsType
<1>6. Sound(mutex, Stands, Callers, MaxPending)
  <2>1. mutex \in SemaphoreOf(Callers) /\ mutex.cap = MaxPending /\ mutex.cur \in 0..MaxPending
    BY <1>1 DEF SemaphoreOf
  <2>2. mutex.wait = <<>>
    BY <1>1
  <2>3. Queued(mutex, Stands, "blocked")
    BY <2>2 DEF Queued
  <2>4. AllQueued(mutex, Stands, "blocked")
    BY <1>4, <1>5 DEF AllQueued
  <2> QED
    BY <2>1, <2>2, <2>3, <2>4 DEF Sound
<1>7. Granted = {}
  BY <1>2 DEF Granted
<1>8. order \in Seq(Sources) /\ handled \in 0..Len(order)
  BY DEF Init
<1>9. buffer \in Seq(Seq(Item) \ {<<>>}) /\ out \in Seq(Item)
  BY EmptySeq DEF Init
<1>10. reading \in BOOLEAN
  BY DEF Init
<1>11. retry \in [Entries -> -1..RetryMax] /\ \A e \in Entries : retry[e] >= 0
  <2>1. retry = [e \in Entries |-> RetryMax]
    BY DEF Init
  <2> QED
    BY <2>1, RetryAssumption
<1>12. state \in [Entries -> EntryState]
  BY DEF Init, EntryState
<1>13. result \in [Sources -> Seq(Item)]
  BY EmptySeq DEF Init
<1>14. StartedInOrder
  BY BoundsAssumption DEF Init, StartedInOrder, Entries
<1>15. SlotsConserved
  BY <1>1, <1>2, <1>7, FS_EmptySet DEF Init, SlotsConserved, InFlight
<1>16. mutex \in SemaphoreOf(Callers) /\ mutex.cur \in 0..MaxPending
  BY <1>6 DEF Sound
<1> QED
  BY <1>2, <1>3, <1>6, <1>8, <1>9, <1>10, <1>11, <1>12, <1>13, <1>14, <1>15, <1>16
     DEF IInv, TypeOK

(* What postFilter leaves of the results of a source are items.            *)
LEMMA PostFilterType ==
  ASSUME NEW s \in Sources, NEW n \in 0..MaxItems, NEW kept \in Passing(n)
  PROVE  PostFilter(s, kept) \in Seq(Item)
<1>1. PICK m \in 0..n : kept \in [1..m -> 1..n]
  <2>1. CASE ThenFilter
    BY <2>1 DEF Passing
  <2>2. CASE ~ThenFilter
    BY <2>2, BoundsAssumption DEF Passing
  <2> QED
    BY <2>1, <2>2
<1>2. Len(kept) = m /\ m \in Nat /\ n \in Nat
  BY <1>1, BoundsAssumption
<1>3. \A i \in 1..m : <<s, kept[i]>> \in Item
  BY <1>1, <1>2, BoundsAssumption DEF Item
<1> QED
  BY <1>2, <1>3 DEF PostFilter

LEMMA EntriesAreSources == Entries \subseteq Sources
  BY DEF Sources

(* ok(items) and rej(err) keep the types of what they set.                 *)
LEMMA ResolveType ==
  ASSUME IInv, NEW e \in Entries, NEW n \in 0..MaxItems, NEW kept \in Passing(n),
         Resolve(e, PostFilter(e, kept))
  PROVE  /\ state' = [state EXCEPT ![e] = "resolved"]
         /\ result' \in [Sources -> Seq(Item)]
<1>1. PostFilter(e, kept) \in Seq(Item)
  BY EntriesAreSources, PostFilterType
<1> HIDE DEF PostFilter
<1> QED
  BY <1>1, Facts, EntriesAreSources DEF Resolve

LEMMA EntryStateType ==
  ASSUME IInv, NEW e \in Entries,
         NEW s \in {"calling", "sleeping", "stuck", "resolved", "rejected"},
         state' = [state EXCEPT ![e] = s]
  PROVE  /\ state' \in [Entries -> EntryState]
         /\ \A x \in Entries : x # e => state'[x] = state[x]
         /\ state'[e] = s
  BY Facts DEF EntryState

(* A step of an entry that has been started leaves the others started.     *)
LEMMA StillInOrder ==
  ASSUME StartedInOrder, NEW e \in Entries,
         \A x \in Entries : state'[x] # "none" <=> state[x] # "none"
  PROVE  StartedInOrder'
  BY DEF StartedInOrder

(* The next entry is the first one that has not been started.              *)
LEMMA NextEntry ==
  ASSUME StartedInOrder, NEW e \in Entries,
         e = Cardinality({x \in Entries : state[x] # "none"}) + 1
  PROVE  /\ state[e] = "none"
         /\ (/\ state'[e] # "none"
             /\ \A x \in Entries : x # e => state'[x] = state[x])
              => StartedInOrder'
<1>1. PICK k \in 0..MaxEntries : \A x \in Entries : state[x] # "none" <=> x <= k
  BY DEF StartedInOrder
<1>2. {x \in Entries : state[x] # "none"} = 1..k
  BY <1>1, BoundsAssumption DEF Entries
<1>3. Cardinality(1..k) = k
  BY <1>1, FS_Interval, BoundsAssumption
<1>4. e = k + 1 /\ k + 1 \in 0..MaxEntries
  <2>1. Cardinality({x \in Entries : state[x] # "none"}) = k
    BY <1>2, <1>3
  <2> QED
    BY <2>1, BoundsAssumption DEF Entries
<1>5. state[e] = "none"
  BY <1>1, <1>4
<1>6. ASSUME state'[e] # "none", \A x \in Entries : x # e => state'[x] = state[x]
      PROVE  StartedInOrder'
  <2>1. \A x \in Entries : state'[x] # "none" <=> x <= k + 1
    BY <1>1, <1>4, <1>6, BoundsAssumption DEF Entries
  <2> QED
    BY <1>4, <2>1 DEF StartedInOrder
<1> QED
  BY <1>5, <1>6

LEMMA WriteKeeps ==
  ASSUME IInv, NEW e \in Entries, Write(e)
  PROVE  IInv'
<1>1. /\ writer = "idle" /\ order' = Append(order, e)
      /\ mutex' = Take(mutex, "writer")
      /\ writer' = IF Available(mutex) THEN "granted" ELSE "blocked"
      /\ retry' = retry
      /\ UNCHANGED <<handled, pusher, buffer, reading, out>>
  BY DEF Write, AskSlot, StartEntry
<1>2. e = Cardinality({x \in Entries : state[x] # "none"}) + 1
  BY DEF Write
<1>3. PICK matches \in BOOLEAN : StartEntry(e, matches)
  BY DEF Write
<1>4. /\ state' \in [Entries -> EntryState]
      /\ \A x \in Entries : x # e => state'[x] = state[x]
      /\ state'[e] \in {"calling", "resolved"}
      /\ result' \in [Sources -> Seq(Item)]
  <2>1. CASE Verdict(matches) = "process"
    <3>1. state' = [state EXCEPT ![e] = "calling"] /\ result' = result
      BY <1>3, <2>1 DEF StartEntry
    <3> QED
      BY <3>1, Facts, EntryStateType
  <2>2. CASE Verdict(matches) = "bypass"
    <3>1. PICK kept \in Passing(1) : Resolve(e, PostFilter(e, kept))
      BY <1>3, <2>2 DEF StartEntry
    <3>2. 1 \in 0..MaxItems
      BY BoundsAssumption
    <3>3. state' = [state EXCEPT ![e] = "resolved"]
      BY <3>1, <3>2, ResolveType
    <3>4. result' \in [Sources -> Seq(Item)]
      BY <3>1, <3>2, ResolveType
    <3> QED
      BY <3>3, <3>4, EntryStateType
  <2>3. CASE Verdict(matches) = "block"
    <3>1. Resolve(e, <<>>)
      BY <1>3, <2>3 DEF StartEntry
    <3>2. state' = [state EXCEPT ![e] = "resolved"]
      BY <3>1 DEF Resolve
    <3>3. result' \in [Sources -> Seq(Item)]
      <4>1. result' = [result EXCEPT ![e] = <<>>] /\ e \in Sources
        BY <3>1, EntriesAreSources DEF Resolve
      <4>2. <<>> \in Seq(Item)
        OBVIOUS
      <4> QED
        BY <4>1, <4>2, Facts
    <3> QED
      BY <3>2, <3>3, EntryStateType
  <2>4. Verdict(matches) \in FilterAction
    BY FilterAssumption DEF Verdict, FilterAction
  <2> QED
    BY <2>1, <2>2, <2>3, <2>4 DEF FilterAction
<1>5. state[e] = "none" /\ StartedInOrder'
  BY <1>2, <1>4, Facts, NextEntry
<1>6. \A x \in Entries : state'[x] \in {"none", "calling"} => retry'[x] >= 0
  BY <1>1, <1>4, <1>5, Facts
<1>7. order' \in Seq(Sources) /\ Len(order') = Len(order) + 1 /\ Len(order) \in Nat
  BY <1>1, Facts, EntriesAreSources
<1>8. writer' \in CallState /\ writer' \in {"idle", "blocked", "granted"}
  BY <1>1, CallStates
<1>9. Stands' = [Stands EXCEPT !["writer"] =
                   IF Available(mutex) THEN "granted" ELSE "blocked"]
  BY <1>1, <1>8, Facts, WriterStands
<1>10. /\ Sound(mutex', Stands', Callers, MaxPending)
       /\ mutex'.cur = IF Available(mutex) THEN mutex.cur + 1 ELSE mutex.cur
  <2>1. "writer" \in Callers /\ Stands["writer"] = "idle"
    BY <1>1, Facts, StandsType DEF Callers
  <2> QED
    BY <1>1, <1>9, <2>1, TakeKeeps
<1>11. Balance' = InFlight'
  <2>1. InFlight' = InFlight + 1
    BY <1>1, <1>7, Facts DEF InFlight
  <2>2. Granted' = Granted
    BY <1>1 DEF Granted
  <2>3. Balance' = Balance + 1
    <3>1. mutex.cur \in Int /\ Cardinality(Granted) \in Int
      BY Facts, PendingAssumption
    <3>2. CASE Available(mutex)
      BY <1>1, <1>10, <2>2, <3>1, <3>2 DEF Balance
    <3>3. CASE ~Available(mutex)
      BY <1>1, <1>10, <2>2, <3>1, <3>3 DEF Balance
    <3> QED
      BY <3>2, <3>3
  <2> QED
    BY <2>1, <2>3, Balanced
<1>12. /\ handled' \in 0..Len(order') /\ retry' \in [Entries -> -1..RetryMax]
       /\ pusher' \in [Pushers -> CallState]
       /\ buffer' \in Seq(Seq(Item) \ {<<>>}) /\ reading' \in BOOLEAN
       /\ out' \in Seq(Item)
  BY <1>1, <1>7, Facts
<1> QED
  BY <1>4, <1>5, <1>6, <1>7, <1>8, <1>10, <1>11, <1>12, Whole

(* A step that leaves those who ask for slots, and the slots, alone.       *)
LEMMA SameSlots ==
  ASSUME IInv, UNCHANGED <<mutex, writer, pusher>>
  PROVE  /\ Sound(mutex', Stands', Callers, MaxPending)
         /\ writer' \in {"idle", "blocked", "granted"}
         /\ pusher' \in [Pushers -> CallState]
         /\ Balance' = Balance
<1>1. Stands' = Stands /\ Granted' = Granted
  BY DEF Stands, Granted
<1>2. Balance' = Balance
  BY <1>1 DEF Balance
<1> QED
  BY <1>1, <1>2, Facts

LEMMA EndWriteKeeps ==
  ASSUME IInv, EndWrite
  PROVE  IInv'
<1>1. /\ writer = "granted" /\ writer' = "idle"
      /\ UNCHANGED <<order, handled, state, retry, result, pusher, mutex,
                     buffer, reading, out>>
  BY DEF EndWrite, work
<1>2. Stands' = [Stands EXCEPT !["writer"] = "idle"]
  BY <1>1, Facts, CallStates, WriterStands
<1>3. Sound(mutex', Stands', Callers, MaxPending)
  <2>1. "writer" \in Callers /\ Stands["writer"] # "blocked"
    BY <1>1, Facts, StandsType DEF Callers
  <2>2. Sound(mutex, [Stands EXCEPT !["writer"] = "idle"], Callers, MaxPending)
    BY <2>1, Facts, CallStates, SoundOther
  <2> QED
    BY <1>1, <1>2, <2>2
<1>4. Balance' = InFlight'
  <2>1. Granted' = Granted /\ InFlight' = InFlight
    BY <1>1 DEF Granted, InFlight
  <2>2. Balance' = Balance
    BY <1>1, <2>1 DEF Balance
  <2> QED
    BY <2>1, <2>2, Balanced
<1>5. StartedInOrder'
  BY <1>1, Facts DEF StartedInOrder
<1> QED
  BY <1>1, <1>3, <1>4, <1>5, Facts, Whole

LEMMA AnswerKeeps ==
  ASSUME IInv, NEW e \in Entries, Answer(e)
  PROVE  IInv'
<1>1. /\ state[e] = "calling"
      /\ UNCHANGED <<order, handled, writer, pusher, mutex, buffer, reading, out>>
  BY DEF Answer
<1>2. /\ state' \in [Entries -> EntryState]
      /\ \A x \in Entries : x # e => state'[x] = state[x]
      /\ state'[e] \in {"sleeping", "resolved", "rejected"}
      /\ result' \in [Sources -> Seq(Item)]
      /\ retry' \in [Entries -> -1..RetryMax]
      /\ \A x \in Entries : x # e => retry'[x] = retry[x]
  <2>1. PICK again \in BOOLEAN :
          IF Left(e, again) = 0
            THEN /\ \/ Reject(e)
                    \/ \E n \in 0..MaxItems : \E kept \in Passing(n) :
                         Resolve(e, PostFilter(e, kept))
                 /\ UNCHANGED retry
            ELSE /\ state' = [state EXCEPT ![e] = "sleeping"]
                 /\ retry' = [retry EXCEPT ![e] = Left(e, again)]
                 /\ UNCHANGED result
    BY DEF Answer
  <2>2. CASE Left(e, again) = 0 /\ Reject(e)
    <3>1. state' = [state EXCEPT ![e] = "rejected"] /\ result' = result /\ retry' = retry
      BY <2>1, <2>2 DEF Reject
    <3> QED
      BY <3>1, Facts, EntryStateType
  <2>3. CASE Left(e, again) = 0 /\ ~Reject(e)
    <3>0. PICK n \in 0..MaxItems : \E kept \in Passing(n) : Resolve(e, PostFilter(e, kept))
      BY <2>1, <2>3
    <3>1. PICK kept \in Passing(n) : Resolve(e, PostFilter(e, kept))
      BY <3>0
    <3>2. state' = [state EXCEPT ![e] = "resolved"]
      BY <3>1, ResolveType
    <3>3. result' \in [Sources -> Seq(Item)]
      BY <3>1, ResolveType
    <3>4. retry' = retry
      BY <2>1, <2>3
    <3> QED
      BY <3>2, <3>3, <3>4, Facts, EntryStateType
  <2>4. CASE Left(e, again) # 0
    <3>1. /\ state' = [state EXCEPT ![e] = "sleeping"] /\ result' = result
          /\ retry' = [retry EXCEPT ![e] = Left(e, again)]
      BY <2>1, <2>4
    <3>2. Left(e, again) = retry[e] - 1
      BY <2>4 DEF Left
    <3>3. retry[e] \in 0..RetryMax
      BY <1>1, Facts, RetryAssumption
    <3>4. Left(e, again) \in -1..RetryMax
      BY <3>2, <3>3, RetryAssumption
    <3>5. /\ retry' \in [Entries -> -1..RetryMax]
          /\ \A x \in Entries : x # e => retry'[x] = retry[x]
      BY <3>1, <3>4, Facts
    <3> QED
      BY <3>1, <3>5, Facts, EntryStateType
  <2> QED
    BY <2>2, <2>3, <2>4
<1>3. StartedInOrder'
  BY <1>1, <1>2, Facts, StillInOrder
<1>4. \A x \in Entries : state'[x] \in {"none", "calling"} => retry'[x] >= 0
  BY <1>2, Facts
<1>5. InFlight' = InFlight
  BY <1>1 DEF InFlight
<1>6. /\ order' \in Seq(Sources) /\ handled' \in 0..Len(order')
      /\ buffer' \in Seq(Seq(Item) \ {<<>>}) /\ reading' \in BOOLEAN
      /\ out' \in Seq(Item)
  BY <1>1, Facts
<1> QED
  BY <1>1, <1>2, <1>3, <1>4, <1>5, <1>6, SameSlots, Balanced, Whole

LEMMA RetryTimerKeeps ==
  ASSUME IInv, NEW e \in Entries, RetryTimer(e)
  PROVE  IInv'
<1>1. /\ state[e] = "sleeping"
      /\ state' = [state EXCEPT ![e] = IF retry[e] > 0 THEN "calling" ELSE "stuck"]
      /\ UNCHANGED <<order, handled, retry, result, writer, pusher, mutex,
                     buffer, reading, out>>
  BY DEF RetryTimer
<1>2. /\ state' \in [Entries -> EntryState]
      /\ \A x \in Entries : x # e => state'[x] = state[x]
      /\ state'[e] = IF retry[e] > 0 THEN "calling" ELSE "stuck"
  BY <1>1, EntryStateType
<1>3. StartedInOrder'
  BY <1>1, <1>2, Facts, StillInOrder
<1>4. \A x \in Entries : state'[x] \in {"none", "calling"} => retry'[x] >= 0
  BY <1>1, <1>2, Facts
<1>5. InFlight' = InFlight
  BY <1>1 DEF InFlight
<1>6. /\ order' \in Seq(Sources) /\ handled' \in 0..Len(order')
      /\ retry' \in [Entries -> -1..RetryMax] /\ result' \in [Sources -> Seq(Item)]
      /\ buffer' \in Seq(Seq(Item) \ {<<>>}) /\ reading' \in BOOLEAN
      /\ out' \in Seq(Item)
  BY <1>1, Facts
<1> QED
  BY <1>1, <1>2, <1>3, <1>4, <1>5, <1>6, SameSlots, Balanced, Whole

LEMMA CallPushKeeps ==
  ASSUME IInv, NEW p \in Pushers, CallPush(p)
  PROVE  IInv'
<1> DEFINE s == IF Available(mutex) THEN "granted" ELSE "blocked"
<1>1. /\ pusher[p] = "idle" /\ mutex' = Take(mutex, p)
      /\ pusher' = [pusher EXCEPT ![p] = s]
      /\ UNCHANGED <<order, handled, state, retry, result, writer, buffer,
                     reading, out>>
  BY DEF CallPush, work
<1>2. s \in CallState
  BY CallStates
<1>3. Stands' = [Stands EXCEPT ![p] = s]
  BY <1>1, <1>2, Facts, PusherStands
<1>4. /\ Sound(mutex', Stands', Callers, MaxPending)
      /\ mutex'.cur = IF Available(mutex) THEN mutex.cur + 1 ELSE mutex.cur
  <2>1. p \in Callers /\ Stands[p] = "idle"
    BY <1>1, Facts, StandsType DEF Callers
  <2> QED
    BY <1>1, <1>3, <2>1, TakeKeeps
<1>5. Balance' = Balance
  <2>1. mutex.cur \in Int /\ Cardinality(Granted) \in Int
    BY Facts, PendingAssumption
  <2>2. CASE Available(mutex)
    <3>1. Cardinality(Granted') = Cardinality(Granted) + 1
      BY <1>1, <1>2, <2>2, Facts, GrantedStep
    <3> QED
      BY <1>1, <1>4, <2>1, <2>2, <3>1 DEF Balance
  <2>3. CASE ~Available(mutex)
    <3>1. Cardinality(Granted') = Cardinality(Granted)
      BY <1>1, <1>2, <2>3, Facts, GrantedStep
    <3> QED
      BY <1>1, <1>4, <2>1, <2>3, <3>1 DEF Balance
  <2> QED
    BY <2>2, <2>3
<1>6. Balance' = InFlight'
  <2>1. InFlight' = InFlight
    BY <1>1 DEF InFlight
  <2> QED
    BY <1>5, <2>1, Balanced
<1>7. StartedInOrder'
  BY <1>1, Facts DEF StartedInOrder
<1>8. pusher' \in [Pushers -> CallState]
  BY <1>1, <1>2, Facts
<1> QED
  BY <1>1, <1>4, <1>6, <1>7, <1>8, Facts, Whole

LEMMA EndPushKeeps ==
  ASSUME IInv, NEW p \in Pushers, EndPush(p)
  PROVE  IInv'
<1>1. /\ pusher[p] = "granted" /\ pusher' = [pusher EXCEPT ![p] = "done"]
      /\ order' = Append(order, p)
      /\ UNCHANGED <<handled, state, retry, writer, mutex, buffer, reading, out>>
  BY DEF EndPush
<1>2. result' \in [Sources -> Seq(Item)]
  <2>1. PICK kept \in Passing(1) : result' = [result EXCEPT ![p] = PostFilter(p, kept)]
    BY DEF EndPush
  <2>2. p \in Sources /\ 1 \in 0..MaxItems
    BY BoundsAssumption DEF Sources
  <2>3. PostFilter(p, kept) \in Seq(Item)
    BY <2>2, PostFilterType
  <2> QED
    BY <2>1, <2>2, <2>3, Facts
<1>3. Stands' = [Stands EXCEPT ![p] = "done"]
  BY <1>1, Facts, CallStates, PusherStands
<1>4. Sound(mutex', Stands', Callers, MaxPending)
  <2>1. p \in Callers /\ Stands[p] # "blocked"
    BY <1>1, Facts, StandsType DEF Callers
  <2>2. Sound(mutex, [Stands EXCEPT ![p] = "done"], Callers, MaxPending)
    BY <2>1, Facts, CallStates, SoundOther
  <2> QED
    BY <1>1, <1>3, <2>2
<1>5. order' \in Seq(Sources) /\ Len(order') = Len(order) + 1 /\ Len(order) \in Nat
  BY <1>1, Facts DEF Sources
<1>6. Balance' = InFlight'
  <2>1. Cardinality(Granted') = Cardinality(Granted) - 1
    BY <1>1, Facts, CallStates, GrantedStep
  <2>2. Balance' = Balance + 1
    <3>1. mutex.cur \in Int /\ Cardinality(Granted) \in Int
      BY Facts, PendingAssumption
    <3> QED
      BY <1>1, <2>1, <3>1 DEF Balance
  <2>3. InFlight' = InFlight + 1
    BY <1>1, <1>5, Facts DEF InFlight
  <2> QED
    BY <2>2, <2>3, Balanced
<1>7. StartedInOrder'
  BY <1>1, Facts DEF StartedInOrder
<1>8. pusher' \in [Pushers -> CallState]
  BY <1>1, CallStates, Facts
<1>9. handled' \in 0..Len(order')
  BY <1>1, <1>5, Facts
<1> QED
  BY <1>1, <1>2, <1>4, <1>5, <1>6, <1>7, <1>8, <1>9, Facts, Whole

LEMMA HandleKeeps ==
  ASSUME IInv, NEW s \in Sources, Handle(s)
  PROVE  IInv'
<1>1. /\ handled < Len(order) /\ handled' = handled + 1
      /\ UNCHANGED <<order, state, retry, result, reading, out>>
  BY DEF Handle, TurnOf, work
<1>2. /\ order \in Seq(Sources) /\ Len(order) \in Nat /\ handled \in 0..Len(order)
      /\ buffer \in Seq(Seq(Item) \ {<<>>}) /\ Len(buffer) \in Nat
  BY Facts
<1>3. order' \in Seq(Sources) /\ handled' \in 0..Len(order')
  BY <1>2, <1>1
<1>4. /\ order' \in Seq(Sources) /\ handled' \in 0..Len(order')
      /\ state' \in [Entries -> EntryState]
      /\ retry' \in [Entries -> -1..RetryMax]
      /\ result' \in [Sources -> Seq(Item)]
      /\ reading' \in BOOLEAN /\ out' \in Seq(Item)
      /\ \A e \in Entries : state'[e] \in {"none", "calling"} => retry'[e] >= 0
  BY <1>1, <1>3, Facts
<1>5. StartedInOrder'
  BY <1>1, Facts DEF StartedInOrder
<1>6. CASE result[s] = <<>>
  <2>1. Release /\ buffer' = buffer
    BY <1>6 DEF Handle
  <2>2. InFlight >= 1 /\ InFlight' = InFlight - 1
    BY <1>2, <1>1, <2>1 DEF InFlight
  <2>3. /\ Sound(mutex', Stands', Callers, MaxPending)
        /\ writer' \in {"idle", "blocked", "granted"}
        /\ pusher' \in [Pushers -> CallState]
        /\ Balance' = Balance - 1
    BY <2>1, <2>2, ReleaseKeeps
  <2>4. buffer' \in Seq(Seq(Item) \ {<<>>})
    BY <2>1, Facts
  <2> QED
    BY <1>4, <1>5, <2>2, <2>3, <2>4, Balanced, Whole
<1>7. CASE result[s] # <<>>
  <2>1. buffer' = Append(buffer, result[s]) /\ UNCHANGED <<mutex, writer, pusher>>
    BY <1>7 DEF Handle
  <2>2. result[s] \in Seq(Item) \ {<<>>}
    BY <1>7, Facts
  <2>3. /\ buffer' \in Seq(Seq(Item) \ {<<>>})
        /\ Len(buffer') = Len(buffer) + 1 /\ Len(buffer) \in Nat
    BY <2>1, <2>2, Facts
  <2>4. InFlight' = InFlight
    BY <1>2, <1>1, <2>3 DEF InFlight
  <2> QED
    BY <1>4, <1>5, <2>1, <2>3, <2>4, SameSlots, Balanced, Whole
<1> QED
  BY <1>6, <1>7

LEMMA ReadKeeps ==
  ASSUME IInv, Read
  PROVE  IInv'
<1>1. /\ reading' = TRUE
      /\ UNCHANGED <<order, handled, state, retry, result, writer, pusher, mutex,
                     buffer, out>>
  BY DEF Read, work
<1>2. InFlight' = InFlight
  BY <1>1 DEF InFlight
<1>3. StartedInOrder'
  BY <1>1, Facts DEF StartedInOrder
<1>4. reading' \in BOOLEAN
  BY <1>1
<1>5. /\ order' \in Seq(Sources) /\ handled' \in 0..Len(order')
      /\ state' \in [Entries -> EntryState]
      /\ retry' \in [Entries -> -1..RetryMax]
      /\ result' \in [Sources -> Seq(Item)]
      /\ buffer' \in Seq(Seq(Item) \ {<<>>}) /\ out' \in Seq(Item)
      /\ \A e \in Entries : state'[e] \in {"none", "calling"} => retry'[e] >= 0
  BY <1>1, Facts
<1> QED
  BY <1>1, <1>2, <1>3, <1>4, <1>5, SameSlots, Balanced, Whole

LEMMA DeliverKeeps ==
  ASSUME IInv, Deliver
  PROVE  IInv'
<1>1. /\ buffer # <<>> /\ buffer' = Tail(buffer) /\ Release
      /\ out' = out \o Head(buffer) /\ reading' = FALSE
      /\ UNCHANGED <<order, handled, state, retry, result>>
  BY DEF Deliver, EmitAll, work
<1>2. /\ buffer' \in Seq(Seq(Item) \ {<<>>}) /\ Head(buffer) \in Seq(Item)
      /\ Len(buffer') = Len(buffer) - 1 /\ Len(buffer) \in Nat \ {0}
  BY <1>1, Facts, HeadTailProperties
<1>3. InFlight >= 1 /\ InFlight' = InFlight - 1
  BY <1>1, <1>2, Facts DEF InFlight
<1>4. /\ Sound(mutex', Stands', Callers, MaxPending)
      /\ writer' \in {"idle", "blocked", "granted"}
      /\ pusher' \in [Pushers -> CallState]
      /\ Balance' = Balance - 1
  BY <1>1, <1>3, ReleaseKeeps
<1>5. out' \in Seq(Item)
  BY <1>1, <1>2, Facts
<1>6. reading' \in BOOLEAN
  BY <1>1
<1>7. StartedInOrder'
  BY <1>1, Facts DEF StartedInOrder
<1>8. /\ order' \in Seq(Sources) /\ handled' \in 0..Len(order')
      /\ state' \in [Entries -> EntryState]
      /\ retry' \in [Entries -> -1..RetryMax]
      /\ result' \in [Sources -> Seq(Item)]
      /\ \A e \in Entries : state'[e] \in {"none", "calling"} => retry'[e] >= 0
  BY <1>1, Facts
<1> QED
  BY <1>2, <1>3, <1>4, <1>5, <1>6, <1>7, <1>8, Balanced, Whole

LEMMA StutterKeeps ==
  ASSUME IInv, UNCHANGED vars
  PROVE  IInv'
<1>1. UNCHANGED <<order, handled, state, retry, result, writer, pusher, mutex,
                  buffer, reading, out>>
  BY DEF vars, work
<1>2. InFlight' = InFlight
  BY <1>1 DEF InFlight
<1>3. StartedInOrder'
  BY <1>1, Facts DEF StartedInOrder
<1>4. /\ order' \in Seq(Sources) /\ handled' \in 0..Len(order')
      /\ state' \in [Entries -> EntryState]
      /\ retry' \in [Entries -> -1..RetryMax]
      /\ result' \in [Sources -> Seq(Item)]
      /\ buffer' \in Seq(Seq(Item) \ {<<>>}) /\ reading' \in BOOLEAN
      /\ out' \in Seq(Item)
      /\ \A e \in Entries : state'[e] \in {"none", "calling"} => retry'[e] >= 0
  BY <1>1, Facts
<1> QED
  BY <1>1, <1>2, <1>3, <1>4, SameSlots, Balanced, Whole

(***************************************************************************)
(* Theorems.                                                               *)
(***************************************************************************)

(* The inductive invariant holds of every behaviour of the stage           *)
(* (Factory.transform, factory.js:220-408).                                *)
THEOREM Invariance == Spec => []IInv
<1>1. Init => IInv
  BY InitKeeps
<1>2. IInv /\ [Next]_vars => IInv'
  <2> SUFFICES ASSUME IInv, [Next]_vars PROVE IInv'
    OBVIOUS
  <2>1. CASE \E e \in Entries : Write(e)
    BY <2>1, WriteKeeps
  <2>2. CASE \E e \in Entries : Answer(e)
    BY <2>2, AnswerKeeps
  <2>3. CASE \E e \in Entries : RetryTimer(e)
    BY <2>3, RetryTimerKeeps
  <2>4. CASE EndWrite
    BY <2>4, EndWriteKeeps
  <2>5. CASE \E p \in Pushers : CallPush(p)
    BY <2>5, CallPushKeeps
  <2>6. CASE \E p \in Pushers : EndPush(p)
    BY <2>6, EndPushKeeps
  <2>7. CASE \E s \in Sources : Handle(s)
    BY <2>7, HandleKeeps
  <2>8. CASE Read
    BY <2>8, ReadKeeps
  <2>9. CASE Deliver
    BY <2>9, DeliverKeeps
  <2>10. CASE UNCHANGED vars
    BY <2>10, StutterKeeps
  <2> QED
    BY <2>1, <2>2, <2>3, <2>4, <2>5, <2>6, <2>7, <2>8, <2>9, <2>10 DEF Next
<1> QED
  BY <1>1, <1>2, PTL DEF Spec

(* The type invariant, for every value of the constants.                   *)
THEOREM TypeCorrect == Spec => []TypeOK
<1>1. IInv => TypeOK
  BY DEF IInv
<1> QED
  BY <1>1, Invariance, PTL

(* No slot of the stage is leaked and none is freed twice, whichever of    *)
(* the filters, retries, pushes and reads meet (factory.js:332-392).       *)
THEOREM SlotsAreConserved == Spec => []SlotsConserved
<1>1. IInv => SlotsConserved
  BY DEF IInv
<1> QED
  BY <1>1, Invariance, PTL

(* A write() or a push waits only while as many slots as def.maxPending    *)
(* are taken, so it is never forgotten by the leave() that frees one.      *)
THEOREM NoSlotIsIdle == Spec => [](mutex.wait # <<>> => mutex.cur = MaxPending)
<1>1. IInv => (mutex.wait # <<>> => mutex.cur = MaxPending)
  BY DEF IInv, Sound
<1> QED
  BY <1>1, Invariance, PTL

(* The stage never holds more than def.maxPending entries, except for the  *)
(* one whose write() still waits: the entry is queued before its slot is   *)
(* asked for (factory.js:327-334).                                         *)
THEOREM Backpressure ==
  Spec => [](InFlight <= MaxPending + (IF writer = "blocked" THEN 1 ELSE 0))
<1>1. IInv => InFlight <= MaxPending + (IF writer = "blocked" THEN 1 ELSE 0)
  <2> SUFFICES ASSUME IInv
               PROVE  InFlight <= MaxPending + (IF writer = "blocked" THEN 1 ELSE 0)
    OBVIOUS
  <2>1. mutex.cur \in 0..MaxPending /\ Cardinality(Granted) \in Nat
    BY Facts
  <2>2. Balance = InFlight /\ InFlight \in Int
    BY Balanced
  <2>3. CASE writer = "blocked"
    BY <2>1, <2>2, <2>3, PendingAssumption DEF Balance
  <2>4. CASE writer # "blocked"
    BY <2>1, <2>2, <2>4, PendingAssumption DEF Balance
  <2> QED
    BY <2>3, <2>4
<1> QED
  BY <1>1, Invariance, PTL

(***************************************************************************)
(* Refinement of the ordered stage, steps only.                            *)
(***************************************************************************)

acceptedOf == SubSeq(order, handled + 1, Len(order))

(* What PostFilter returns is one of the values an entry resolves into.    *)
LEMMA PostFilterFits ==
  ASSUME NEW s \in Sources, NEW n \in 0..MaxItems, NEW kept \in Passing(n)
  PROVE  PostFilter(s, kept) \in Stage!ItemsOf(s) /\ Stage!Increasing(PostFilter(s, kept))
<1>1. PICK m \in 0..n : /\ kept \in [1..m -> 1..n] /\ Len(kept) = m
                        /\ \A i, j \in 1..m : i < j => kept[i] < kept[j]
  <2>1. CASE ThenFilter
    <3>1. PICK m \in 0..n : kept \in [1..m -> 1..n]
      BY <2>1 DEF Passing
    <3>2. \A i, j \in 1..Len(kept) : i < j => kept[i] < kept[j]
      BY <2>1 DEF Passing
    <3>3. Len(kept) = m
      BY <3>1, BoundsAssumption
    <3> QED
      BY <3>1, <3>2, <3>3
  <2>2. CASE ~ThenFilter
    <3>1. kept = [i \in 1..n |-> i] /\ n \in Nat
      BY <2>2, BoundsAssumption DEF Passing
    <3>2. kept \in [1..n -> 1..n] /\ Len(kept) = n /\ n \in 0..n
      BY <3>1
    <3>3. \A i, j \in 1..n : i < j => kept[i] < kept[j]
      BY <3>1
    <3> QED
      BY <3>2, <3>3
  <2> QED
    BY <2>1, <2>2
<1>2. m \in 0..MaxItems /\ kept \in [1..m -> 1..MaxItems]
  BY <1>1, BoundsAssumption
<1>3. PostFilter(s, kept) = [i \in 1..m |-> <<s, kept[i]>>]
  BY <1>1 DEF PostFilter
<1>4. PostFilter(s, kept) \in Stage!ItemsOf(s)
  BY <1>2, <1>3 DEF Stage!ItemsOf
<1>5. Len(PostFilter(s, kept)) = m
  BY <1>2, <1>3
<1>6. Stage!Increasing(PostFilter(s, kept))
  BY <1>1, <1>3, <1>5 DEF Stage!Increasing
<1> QED
  BY <1>4, <1>6

LEMMA NothingFits ==
  ASSUME NEW s
  PROVE  <<>> \in Stage!ItemsOf(s) /\ Stage!Increasing(<<>>)
<1>1. <<>> = [i \in 1..0 |-> <<s, 0>>]
  OBVIOUS
<1>2. Stage!Increasing(<<>>)
  BY EmptySeq DEF Stage!Increasing
<1> DEFINE f == [i \in 1..0 |-> 0]
<1>3. f \in [1..0 -> 1..MaxItems] /\ 0 \in 0..MaxItems
  BY BoundsAssumption
<1>4. [i \in 1..0 |-> <<s, f[i]>>] = <<>>
  BY <1>1
<1>5. <<>> \in {[i \in 1..0 |-> <<s, g[i]>>] : g \in [1..0 -> 1..MaxItems]}
  BY <1>3, <1>4
<1>6. <<>> \in Stage!ItemsOf(s)
  BY <1>3, <1>5 DEF Stage!ItemsOf
<1> QED
  BY <1>2, <1>6

LEMMA ResultStep ==
  ASSUME IInv, ResultsFit, NEW s \in Sources, NEW items,
         items \in Stage!ItemsOf(s), Stage!Increasing(items),
         result' = [result EXCEPT ![s] = items]
  PROVE  ResultsFit'
<1>1. DOMAIN result = Sources
  BY Facts
<1>2. result'[s] = items /\ \A x \in Sources : x # s => result'[x] = result[x]
  BY <1>1
<1> QED
  BY <1>2 DEF ResultsFit

LEMMA ResultsKept ==
  ASSUME IInv, ResultsFit, [Next]_vars
  PROVE  ResultsFit'
<1>1. ASSUME UNCHANGED result
      PROVE  ResultsFit'
  BY <1>1 DEF ResultsFit
<1>2. ASSUME NEW e \in Entries, NEW n \in 0..MaxItems, NEW kept \in Passing(n),
             Resolve(e, PostFilter(e, kept))
      PROVE  ResultsFit'
  <2>1. result' = [result EXCEPT ![e] = PostFilter(e, kept)]
    BY <1>2 DEF Resolve
  <2>2. e \in Sources
    BY EntriesAreSources
  <2> QED
    BY <2>1, <2>2, PostFilterFits, ResultStep
<1>3. 1 \in 0..MaxItems
  BY BoundsAssumption
<1>4. ASSUME NEW e \in Entries, Write(e)
      PROVE  ResultsFit'
  <2>1. PICK matches \in BOOLEAN : StartEntry(e, matches)
    BY <1>4 DEF Write
  <2>2. Verdict(matches) \in {"process", "bypass", "block"}
    BY FilterAssumption DEF Verdict, FilterAction
  <2>3. CASE Verdict(matches) = "process"
    <3>1. UNCHANGED result
      BY <2>1, <2>3 DEF StartEntry
    <3> QED
      BY <3>1, <1>1
  <2>4. CASE Verdict(matches) = "bypass"
    <3>1. \E kept \in Passing(1) : Resolve(e, PostFilter(e, kept))
      BY <2>1, <2>4 DEF StartEntry
    <3> QED
      BY <3>1, <1>2, <1>3
  <2>5. CASE Verdict(matches) = "block"
    <3>1. Resolve(e, <<>>)
      BY <2>1, <2>5 DEF StartEntry
    <3>2. result' = [result EXCEPT ![e] = <<>>]
      BY <3>1 DEF Resolve
    <3>3. e \in Sources
      BY EntriesAreSources
    <3>4. <<>> \in Stage!ItemsOf(e) /\ Stage!Increasing(<<>>)
      BY NothingFits
    <3> QED
      BY <3>2, <3>3, <3>4, ResultStep
  <2> QED
    BY <2>2, <2>3, <2>4, <2>5
<1>5. ASSUME NEW e \in Entries, Answer(e)
      PROVE  ResultsFit'
  <2>1. \/ UNCHANGED result
        \/ \E n \in 0..MaxItems : \E kept \in Passing(n) : Resolve(e, PostFilter(e, kept))
    BY <1>5 DEF Answer, Reject
  <2> QED
    BY <2>1, <1>1, <1>2
<1>6. ASSUME NEW e \in Entries, RetryTimer(e)
      PROVE  ResultsFit'
  BY <1>6, <1>1 DEF RetryTimer
<1>7. ASSUME EndWrite
      PROVE  ResultsFit'
  BY <1>7, <1>1 DEF EndWrite, work
<1>8. ASSUME NEW p \in Pushers, CallPush(p)
      PROVE  ResultsFit'
  BY <1>8, <1>1 DEF CallPush, work
<1>9. ASSUME NEW p \in Pushers, EndPush(p)
      PROVE  ResultsFit'
  <2>1. PICK kept \in Passing(1) : result' = [result EXCEPT ![p] = PostFilter(p, kept)]
    BY <1>9 DEF EndPush
  <2>2. p \in Sources
    BY DEF Sources
  <2> QED
    BY <1>3, <2>1, <2>2, PostFilterFits, ResultStep
<1>10. ASSUME NEW s \in Sources, Handle(s)
       PROVE  ResultsFit'
  BY <1>10, <1>1 DEF Handle, work
<1>11. ASSUME Read
       PROVE  ResultsFit'
  BY <1>11, <1>1 DEF Read, work
<1>12. ASSUME Deliver
       PROVE  ResultsFit'
  BY <1>12, <1>1 DEF Deliver, work
<1>13. ASSUME UNCHANGED vars
       PROVE  ResultsFit'
  BY <1>13, <1>1 DEF vars, work
<1> QED
  BY <1>4, <1>5, <1>6, <1>7, <1>8, <1>9, <1>10, <1>11, <1>12, <1>13 DEF Next

(* An entry whose promise is queued is accepted.                           *)
LEMMA AppendIsAccept ==
  ASSUME IInv, NEW s \in Sources, order' = Append(order, s),
         UNCHANGED <<handled, buffer, out>>
  PROVE  Stage!Accept(s)
<1>1. order \in Seq(Sources) /\ Len(order) \in Nat /\ handled \in 0..Len(order)
  BY Facts
<1>2. acceptedOf' = Append(acceptedOf, s)
  <2>1. /\ order' \in Seq(Sources) /\ Len(order') = Len(order) + 1
        /\ \A i \in 1..Len(order) : order'[i] = order[i]
        /\ order'[Len(order) + 1] = s
    BY <1>1, AppendProperties
  <2> DEFINE a == SubSeq(order, handled + 1, Len(order))
             b == SubSeq(order', handled + 1, Len(order) + 1)
             n == Len(order) - handled
  <2>2. n \in Nat /\ handled \in Nat
    BY <1>1
  <2>3. /\ a \in Seq(Sources) /\ Len(a) = n
        /\ \A i \in 1..n : a[i] = order[handled + i]
    BY <1>1
  <2>4. /\ b \in Seq(Sources) /\ Len(b) = n + 1
        /\ \A i \in 1..(n + 1) : b[i] = order'[handled + i]
    BY <1>1, <2>1
  <2>5. /\ Append(a, s) \in Seq(Sources) /\ Len(Append(a, s)) = n + 1
        /\ \A i \in 1..n : Append(a, s)[i] = a[i]
        /\ Append(a, s)[n + 1] = s
    BY <2>3, AppendProperties
  <2>6. handled' = handled /\ Len(order) + 1 = Len(order')
    BY <2>1
  <2>7. acceptedOf' = b /\ acceptedOf = a
    BY <2>6 DEF acceptedOf
  <2>8. \A i \in 1..(n + 1) : b[i] = Append(a, s)[i]
    <3> TAKE i \in 1..(n + 1)
    <3>1. CASE i = n + 1
      <4>1. handled + i = Len(order) + 1
        BY <2>2, <1>1, <3>1
      <4> HIDE DEF a, b, n
      <4> QED
        BY <2>1, <2>4, <2>5, <3>1, <4>1
    <3>2. CASE i # n + 1
      <4>1. i \in 1..n /\ handled + i \in 1..Len(order)
        BY <1>1, <2>2, <3>2
      <4> HIDE DEF a, b, n
      <4> QED
        BY <2>1, <2>3, <2>4, <2>5, <4>1
    <3> QED
      BY <3>1, <3>2
  <2> HIDE DEF a, b, n
  <2>9. b = Append(a, s)
    BY <2>4, <2>5, <2>8, SeqEqual
  <2> QED
    BY <2>7, <2>9
<1>3. UNCHANGED <<FlattenSeq(buffer), out>>
  OBVIOUS
<1> QED
  BY <1>2, <1>3 DEF Stage!Accept, acceptedOf

(* The promise that forEach takes is the first accepted one, and what it   *)
(* resolved to is appended to the items that are ready.                    *)
LEMMA HandleIsResolve ==
  ASSUME IInv, ResultsFit, NEW s \in Sources, Handle(s)
  PROVE  Stage!Resolve
<1>1. /\ handled < Len(order) /\ order[handled + 1] = s /\ handled' = handled + 1
      /\ IF result[s] = <<>> THEN buffer' = buffer
         ELSE buffer' = Append(buffer, result[s])
      /\ UNCHANGED <<order, out>>
  BY DEF Handle, TurnOf
<1>2. order \in Seq(Sources) /\ Len(order) \in Nat /\ handled \in 0..Len(order)
  BY Facts
<1>3. /\ acceptedOf # <<>> /\ Head(acceptedOf) = s
      /\ acceptedOf' = Tail(acceptedOf)
  <2>1. handled + 1 \in 1..Len(order) /\ Len(order) \in (handled + 1)..Len(order)
    BY <1>1, <1>2
  <2>2. /\ Head(SubSeq(order, handled + 1, Len(order))) = order[handled + 1]
        /\ Tail(SubSeq(order, handled + 1, Len(order)))
             = SubSeq(order, handled + 1 + 1, Len(order))
    BY <1>2, <2>1, HeadTailOfSubSeq
  <2>3. Len(acceptedOf) # 0
    BY <1>2, <2>1 DEF acceptedOf
  <2>4. acceptedOf # <<>>
    BY <2>3, EmptySeq
  <2> QED
    BY <1>1, <2>2, <2>4 DEF acceptedOf
<1>4. buffer \in Seq(Seq(Item)) /\ result[s] \in Seq(Item)
  <2>1. Seq(Item) \ {<<>>} \subseteq Seq(Item)
    OBVIOUS
  <2>2. buffer \in Seq(Seq(Item) \ {<<>>})
    BY Facts
  <2> QED
    BY <2>1, <2>2, Facts, SeqMonotonic
<1>5. FlattenSeq(buffer') = FlattenSeq(buffer) \o result[s]
  <2>1. CASE result[s] = <<>>
    <3>1. FlattenSeq(buffer) \o <<>> = FlattenSeq(buffer)
      BY <1>4, FlattenType, ConcatEmptySeq
    <3> QED
      BY <1>1, <2>1, <3>1
  <2>2. CASE result[s] # <<>>
    BY <1>1, <1>4, <2>2, FlattenAppend
  <2> QED
    BY <2>1, <2>2
<1>6. result[s] \in Stage!ItemsOf(s) /\ Stage!Increasing(result[s])
  BY DEF ResultsFit
<1> DEFINE items == result[s]
<1>7. /\ items \in Stage!ItemsOf(Head(acceptedOf)) /\ Stage!Increasing(items)
      /\ FlattenSeq(buffer') = FlattenSeq(buffer) \o items
  BY <1>3, <1>5, <1>6
<1> HIDE DEF items
<1> QED
  BY <1>1, <1>3, <1>7 DEF Stage!Resolve, acceptedOf

(* A batch that is read is the first of the items that are ready.          *)
LEMMA DeliverIsEmit ==
  ASSUME IInv, Deliver
  PROVE  Stage!Emit
<1> DEFINE first == Head(buffer)
           rest == Tail(buffer)
           ready == FlattenSeq(buffer)
           left == FlattenSeq(rest)
           k == Len(first)
<1>1. /\ buffer # <<>> /\ buffer' = rest /\ out' = out \o first
      /\ UNCHANGED <<order, handled>>
  BY DEF Deliver, EmitAll
<1>2. buffer \in Seq(Seq(Item) \ {<<>>})
  BY Facts
<1>3. /\ first \in Seq(Item) /\ first # <<>>
      /\ rest \in Seq(Seq(Item) \ {<<>>})
  BY <1>1, <1>2, HeadTailProperties
<1>4. Seq(Item) \ {<<>>} \subseteq Seq(Item)
  OBVIOUS
<1>5. buffer \in Seq(Seq(Item)) /\ rest \in Seq(Seq(Item))
  BY <1>2, <1>3, <1>4, SeqMonotonic
<1>6. ready = first \o left
  BY <1>1, <1>5, FlattenTail
<1>7. left \in Seq(Item)
  BY <1>5, FlattenType
<1>8. buffer' = rest /\ FlattenSeq(buffer') = left
  BY <1>1
<1> HIDE DEF first, rest, ready, left
<1>9. k \in Nat \ {0}
  BY <1>3, EmptySeq
<1>10. ready \in Seq(Item) /\ Len(ready) = k + Len(left)
  BY <1>3, <1>6, <1>7, ConcatProperties
<1>11. \A i \in 1..Len(ready) : ready[i] = IF i <= k THEN first[i] ELSE left[i - k]
  BY <1>3, <1>6, <1>7, <1>10, ConcatProperties
<1>12. Len(left) \in Nat
  BY <1>7
<1>13. SubSeq(ready, 1, k) = first
  <2>1. /\ SubSeq(ready, 1, k) \in Seq(Item) /\ Len(SubSeq(ready, 1, k)) = k
        /\ \A i \in 1..k : SubSeq(ready, 1, k)[i] = ready[i]
    BY <1>9, <1>10, <1>12
  <2>2. \A i \in 1..k : ready[i] = first[i]
    BY <1>9, <1>10, <1>11, <1>12
  <2> QED
    BY <1>3, <2>1, <2>2, SeqEqual
<1>14. SubSeq(ready, k + 1, Len(ready)) = left
  <2> DEFINE b == SubSeq(ready, k + 1, Len(ready))
  <2>1. /\ b \in Seq(Item) /\ Len(b) = Len(left)
        /\ \A i \in 1..Len(left) : b[i] = ready[k + i]
    BY <1>9, <1>10, <1>12
  <2>2. \A i \in 1..Len(left) : ready[k + i] = left[i]
    <3> TAKE i \in 1..Len(left)
    <3>1. k + i \in 1..Len(ready) /\ ~ (k + i <= k) /\ (k + i) - k = i
      BY <1>9, <1>10, <1>12
    <3> QED
      BY <1>11, <3>1
  <2> HIDE DEF b
  <2>3. b = left
    BY <1>7, <2>1, <2>2, SeqEqual
  <2> QED
    BY <2>3 DEF b
<1>15. k \in 1..Len(ready)
  BY <1>9, <1>10, <1>12
<1>16. acceptedOf' = acceptedOf
  BY <1>1 DEF acceptedOf
<1>17. /\ k \in 1..Len(FlattenSeq(buffer))
       /\ out' = out \o SubSeq(FlattenSeq(buffer), 1, k)
       /\ FlattenSeq(buffer') = SubSeq(FlattenSeq(buffer), k + 1, Len(FlattenSeq(buffer)))
  BY <1>1, <1>8, <1>13, <1>14, <1>15 DEF ready
<1> HIDE DEF k
<1> QED
  BY <1>16, <1>17 DEF Stage!Emit, acceptedOf

LEMMA StageSimulation ==
  ASSUME IInv, ResultsFit, [Next]_vars
  PROVE  [Stage!Next]_(Stage!vars)
<1>1. ASSUME UNCHANGED <<order, handled, buffer, out>>
      PROVE  UNCHANGED Stage!vars
  BY <1>1 DEF Stage!vars
<1>2. ASSUME NEW e \in Entries, Write(e)
      PROVE  Stage!Next
  <2>1. e \in Sources
    BY EntriesAreSources
  <2>2. Stage!Accept(e)
    BY <1>2, <2>1, AppendIsAccept DEF Write
  <2> QED
    BY <2>1, <2>2 DEF Stage!Next
<1>3. ASSUME NEW p \in Pushers, EndPush(p)
      PROVE  Stage!Next
  <2>1. p \in Sources
    BY DEF Sources
  <2>2. Stage!Accept(p)
    BY <1>3, <2>1, AppendIsAccept DEF EndPush
  <2> QED
    BY <2>1, <2>2 DEF Stage!Next
<1>4. ASSUME NEW s \in Sources, Handle(s)
      PROVE  Stage!Next
  BY <1>4, HandleIsResolve DEF Stage!Next
<1>5. ASSUME Deliver
      PROVE  Stage!Next
  BY <1>5, DeliverIsEmit DEF Stage!Next
<1>6. ASSUME NEW e \in Entries, Answer(e)
      PROVE  UNCHANGED Stage!vars
  BY <1>1, <1>6 DEF Answer
<1>7. ASSUME NEW e \in Entries, RetryTimer(e)
      PROVE  UNCHANGED Stage!vars
  BY <1>1, <1>7 DEF RetryTimer
<1>8. ASSUME EndWrite
      PROVE  UNCHANGED Stage!vars
  BY <1>1, <1>8 DEF EndWrite
<1>9. ASSUME NEW p \in Pushers, CallPush(p)
      PROVE  UNCHANGED Stage!vars
  BY <1>1, <1>9 DEF CallPush
<1>10. ASSUME Read
       PROVE  UNCHANGED Stage!vars
  BY <1>1, <1>10 DEF Read
<1>11. ASSUME UNCHANGED vars
       PROVE  UNCHANGED Stage!vars
  BY <1>1, <1>11 DEF vars
<1> QED
  BY <1>2, <1>3, <1>4, <1>5, <1>6, <1>7, <1>8, <1>9, <1>10, <1>11 DEF Next

(* Every entry and every pushed entry is resolved in the order it came     *)
(* into what the filters leave of its results, and these leave the stage   *)
(* in that order (factory.js:220-408): the steps of the stage are steps of *)
(* the ordered stage or invisible in it.                                   *)
THEOREM StepsOfStage == Spec => Stage!Init /\ [][Stage!Next]_(Stage!vars)
<1>1. Init => Stage!Init
  <2> SUFFICES ASSUME Init PROVE Stage!Init
    OBVIOUS
  <2>1. SubSeq(order, handled + 1, Len(order)) = <<>>
    BY EmptySeq, SubSeqEmpty DEF Init
  <2> QED
    BY <2>1, FlattenEmpty DEF Init, Stage!Init
<1>2. Init => ResultsFit
  BY NothingFits DEF Init, ResultsFit
<1>3. IInv /\ ResultsFit /\ [Next]_vars => ResultsFit'
  BY ResultsKept
<1>4. IInv /\ ResultsFit /\ [Next]_vars => [Stage!Next]_(Stage!vars)
  BY StageSimulation
<1> QED
  BY <1>1, <1>2, <1>3, <1>4, Invariance, PTL DEF Spec
=============================================================================
