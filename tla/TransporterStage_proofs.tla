----------------------- MODULE TransporterStage_proofs -----------------------
(***************************************************************************)
(* Proofs about TransporterStage, for any limit, any numbers of entries    *)
(* and of items of an answer, and any filter.                              *)
(***************************************************************************)
EXTENDS TransporterStage, Operators_proofs

(* The queue of the slots, and what it counts, as the invariant has them.  *)
Slots ==
  /\ mutex \in SemaphoreOf({"writer"})
  /\ mutex.cap = MaxPending /\ mutex.cur <= MaxPending
  /\ writer \in {"idle", "blocked", "granted"}
  /\ mutex.wait = IF writer = "blocked" THEN <<"writer">> ELSE <<>>
Taken == mutex.cur + (IF writer = "blocked" THEN 1 ELSE 0)

(* The entries: what was answered, and how much of it forEach has taken.   *)
Answers ==
  /\ written \in 0..MaxEntries /\ handled \in 0..written
  /\ state \in [Entries -> EntryState]
  /\ result \in [Entries -> Seq(Item)]
  /\ \A e \in 1..handled : state[e] \in {"resolved", "rejected"}
  /\ \A e \in Entries : result[e] = Items(e, Len(result[e]))

(* The items that left the entries.                                        *)
Flow ==
  /\ buffer \in Seq(Item) /\ lost \in Seq(Item) /\ out \in Seq(Item)
  /\ reading \in {"no", "yes", "lost"}
  /\ lost # <<>> => reading = "lost"

LEMMA InvariantParts ==
  IInv <=> /\ Slots /\ Answers /\ Flow
           /\ SlotsAccounted /\ InInputOrder
  BY DEF IInv, TypeOK, Slots, Answers, Flow

LEMMA InvariantNext ==
  ASSUME Slots', Answers', Flow', SlotsAccounted', InInputOrder'
  PROVE  IInv'
  BY DEF IInv, TypeOK, Slots, Answers, Flow

(***************************************************************************)
(* The operators of the module.                                            *)
(***************************************************************************)

LEMMA ItemsProperties ==
  ASSUME NEW e \in Entries, NEW n \in 0..MaxItems
  PROVE  /\ Items(e, n) \in Seq(Item) /\ Len(Items(e, n)) = n
         /\ \A k \in 1..n : Items(e, n)[k] = <<e, k>>
  BY BoundsAssumption DEF Items, Item

LEMMA NoItems ==
  ASSUME NEW e \in Entries
  PROVE  <<>> = Items(e, Len(<<>>))
<1>1. Items(e, 0) \in Seq(Item) /\ Len(Items(e, 0)) = 0
  BY BoundsAssumption, ItemsProperties
<1>2. Items(e, 0) = <<>> /\ Len(<<>>) = 0
  BY <1>1, EmptySeq
<1> QED
  BY <1>2

(* The items of an answer are of positions up to MaxItems, so that an      *)
(* answer has no more than these.                                          *)
LEMMA AnswerLength ==
  ASSUME NEW e \in Entries, NEW items \in Seq(Item), items # <<>>,
         items = Items(e, Len(items))
  PROVE  Len(items) \in 1..MaxItems
<1> DEFINE n == Len(items)
<1>1. n \in Nat \ {0}
  BY EmptySeq
<1>2. items[n] \in Item /\ items[n] = <<e, n>>
  BY <1>1 DEF Items
<1> QED
  BY <1>1, <1>2 DEF Item

(* leave() frees a slot or hands it to the write() that waits: what is     *)
(* counted is one less.                                                    *)
LEMMA ReleaseSlots ==
  ASSUME Slots, Release
  PROVE  Slots' /\ Taken' = Taken - 1
<1>1. mutex \in SemaphoreOf({"writer"}) /\ mutex.cur \in Int
  BY DEF Slots, SemaphoreOf
<1>2. mutex' = Leave(mutex) /\ Leave(mutex) \in SemaphoreOf({"writer"})
  BY <1>1, LeaveProperties DEF Release
<1>3. MaxPending \in Nat
  BY PendingAssumption
<1>4. CASE writer = "blocked"
  <2>1. mutex.wait = <<"writer">>
    BY <1>4 DEF Slots
  <2>2. HandsOver(mutex) /\ Tail(mutex.wait) = <<>> /\ mutex.wait[1] = "writer"
    BY <2>1 DEF HandsOver, Slots
  <2>3. /\ Leave(mutex).cap = mutex.cap /\ Leave(mutex).cur = mutex.cur
        /\ Leave(mutex).wait = <<>> /\ Woken(mutex) = {"writer"}
    BY <1>1, <2>2, LeaveProperties
  <2>4. writer' = "granted"
    BY <2>3 DEF Release
  <2> QED
    BY <1>1, <1>2, <1>4, <2>3, <2>4 DEF Slots, Taken
<1>5. CASE writer # "blocked"
  <2>1. mutex.wait = <<>>
    BY <1>5 DEF Slots
  <2>2. ~HandsOver(mutex)
    BY <2>1 DEF HandsOver
  <2>3. /\ Leave(mutex).cap = mutex.cap /\ Leave(mutex).cur = mutex.cur - 1
        /\ Leave(mutex).wait = <<>> /\ Woken(mutex) = {}
    BY <1>1, <2>1, <2>2, LeaveProperties
  <2>4. writer' = writer
    BY <2>3 DEF Release
  <2> QED
    BY <1>1, <1>2, <1>3, <1>5, <2>3, <2>4 DEF Slots, Taken
<1> QED
  BY <1>4, <1>5

(* take() of the write() counts one more, at once or while it waits.       *)
LEMMA AskSlots ==
  ASSUME Slots, writer = "idle", AskSlot
  PROVE  Slots' /\ Taken' = Taken + 1
<1>1. /\ mutex \in SemaphoreOf({"writer"}) /\ mutex.cur \in Int
      /\ mutex.wait = <<>>
  BY DEF Slots, SemaphoreOf
<1>2. mutex' = Take(mutex, "writer")
  BY DEF AskSlot
<1>3. mutex' \in SemaphoreOf({"writer"}) /\ mutex'.cap = mutex.cap
  BY <1>1, <1>2, TakeProperties
<1>4. CASE Available(mutex)
  <2>1. mutex'.cur = mutex.cur + 1 /\ mutex'.wait = <<>> /\ mutex.cur + 1 <= MaxPending
    BY <1>1, <1>2, <1>4, TakeProperties DEF Available, Slots
  <2>2. writer' = "granted"
    BY <1>4 DEF AskSlot
  <2> QED
    BY <1>1, <1>3, <2>1, <2>2 DEF Slots, Taken
<1>5. CASE ~Available(mutex)
  <2>1. mutex'.cur = mutex.cur /\ mutex'.wait = Append(mutex.wait, "writer")
    BY <1>1, <1>2, <1>5, TakeProperties
  <2>2. mutex'.wait = <<"writer">>
    BY <1>1, <2>1
  <2>3. writer' = "blocked"
    BY <1>5 DEF AskSlot
  <2> QED
    BY <1>1, <1>3, <2>1, <2>2, <2>3 DEF Slots, Taken
<1> QED
  BY <1>4, <1>5

(* The answers of the entries that forEach has not taken do not count.     *)
LEMMA HandledSame ==
  ASSUME result \in [Entries -> Seq(Item)], (result \in [Entries -> Seq(Item)])',
         handled \in 0..MaxEntries, handled' = handled,
         \A e \in 1..handled : result'[e] = result[e]
  PROVE  HandledItems' = HandledItems
<1> DEFINE S == Seq(Item)
<1>1. handled \in Int /\ \A i \in 1..handled : result[i] \in S /\ result'[i] \in S
  BY BoundsAssumption DEF Entries
<1>2. /\ SubSeq(result, 1, handled) \in Seq(S)
      /\ SubSeq(result', 1, handled) \in Seq(S)
      /\ Len(SubSeq(result, 1, handled)) = handled
      /\ Len(SubSeq(result', 1, handled)) = handled
      /\ \A i \in 1..handled : SubSeq(result, 1, handled)[i] = result[i]
      /\ \A i \in 1..handled : SubSeq(result', 1, handled)[i] = result'[i]
  BY <1>1
<1>3. SubSeq(result', 1, handled) = SubSeq(result, 1, handled)
  BY <1>2, SeqEqual
<1> QED
  BY <1>3 DEF HandledItems

(* The next entry that is taken adds its answer.                           *)
LEMMA HandledMore ==
  ASSUME result \in [Entries -> Seq(Item)], result' = result,
         handled \in 0..MaxEntries, handled < MaxEntries, handled' = handled + 1
  PROVE  HandledItems' = HandledItems \o result[handled + 1]
<1> DEFINE S == Seq(Item)
           n == handled + 1
<1>1. result \in Seq(S) /\ Len(result) = MaxEntries
  BY BoundsAssumption DEF Entries
<1>2. n \in 1..Len(result) /\ 1 \in 1..Len(result) /\ n - 1 = handled
  BY <1>1, BoundsAssumption
<1>3. SubSeq(result, 1, n) = SubSeq(result, 1, n - 1) \o <<result[n]>>
  BY <1>1, <1>2, SubSeqRecursiveSecond
<1>4. SubSeq(result, 1, handled) \in Seq(S) /\ result[n] \in S
  BY <1>1, <1>2
<1>5. Append(SubSeq(result, 1, handled), result[n])
        = SubSeq(result, 1, handled) \o <<result[n]>>
  BY <1>4, AppendIsConcat
<1>6. SubSeq(result', 1, handled') = Append(SubSeq(result, 1, handled), result[n])
  BY <1>2, <1>3, <1>5
<1> HIDE DEF n
<1>7. FlattenSeq(Append(SubSeq(result, 1, handled), result[n]))
        = FlattenSeq(SubSeq(result, 1, handled)) \o result[n]
  BY <1>4, FlattenAppend
<1> QED
  BY <1>6, <1>7 DEF HandledItems, n

LEMMA HandledType ==
  ASSUME result \in [Entries -> Seq(Item)], handled \in 0..MaxEntries
  PROVE  HandledItems \in Seq(Item)
<1>1. handled \in Int /\ \A i \in 1..handled : result[i] \in Seq(Item)
  BY BoundsAssumption DEF Entries
<1>2. SubSeq(result, 1, handled) \in Seq(Seq(Item))
  BY <1>1
<1> QED
  BY <1>2, FlattenType DEF HandledItems

(* An array of n items adds n - 1 to the items beyond the first.           *)
LEMMA BeyondFirstItems ==
  ASSUME NEW s \in Seq(Item), NEW e \in Entries, NEW n \in 1..MaxItems
  PROVE  /\ IsFiniteSet(BeyondFirst(s))
         /\ Cardinality(BeyondFirst(s)) \in Nat
         /\ Cardinality(BeyondFirst(s \o Items(e, n)))
              = Cardinality(BeyondFirst(s)) + (n - 1)
<1> DEFINE t == Items(e, n)
           more == (Len(s) + 2)..(Len(s) + n)
<1>1. /\ t \in Seq(Item) /\ Len(t) = n
      /\ \A k \in 1..n : t[k] = <<e, k>>
  BY BoundsAssumption, ItemsProperties
<1>2. n \in Nat \ {0} /\ Len(s) \in Nat
  BY BoundsAssumption
<1> HIDE DEF t
<1>3. /\ Len(s \o t) = Len(s) + n
      /\ \A k \in 1..Len(s) : (s \o t)[k] = s[k]
      /\ \A k \in (Len(s) + 1)..(Len(s) + n) : (s \o t)[k] = t[k - Len(s)]
  <2>1. Len(s \o t) = Len(s) + Len(t)
    BY <1>1, ConcatProperties
  <2>2. \A k \in 1..Len(s) + Len(t) :
          (s \o t)[k] = IF k <= Len(s) THEN s[k] ELSE t[k - Len(s)]
    BY <1>1, ConcatProperties
  <2> QED
    BY <1>1, <1>2, <2>1, <2>2
<1>4. \A k \in (Len(s) + 1)..(Len(s) + n) : (s \o t)[k] = <<e, k - Len(s)>>
  BY <1>1, <1>2, <1>3
<1>5. BeyondFirst(s \o t) = BeyondFirst(s) \cup more
  <2>1. ASSUME NEW k \in BeyondFirst(s \o t)
        PROVE  k \in BeyondFirst(s) \cup more
    <3>1. k \in 1..(Len(s) + n) /\ (s \o t)[k][2] > 1
      BY <1>3 DEF BeyondFirst
    <3>2. CASE k <= Len(s)
      BY <1>2, <1>3, <3>1, <3>2 DEF BeyondFirst
    <3>3. CASE k > Len(s)
      <4>1. k \in (Len(s) + 1)..(Len(s) + n)
        BY <1>2, <3>1, <3>3
      <4>2. (s \o t)[k] = <<e, k - Len(s)>>
        BY <1>4, <4>1
      <4>3. k - Len(s) > 1
        BY <3>1, <4>2
      <4> QED
        BY <1>2, <4>1, <4>3
    <3> QED
      BY <1>2, <3>1, <3>2, <3>3
  <2>2. ASSUME NEW k \in BeyondFirst(s)
        PROVE  k \in BeyondFirst(s \o t)
    BY <1>2, <1>3 DEF BeyondFirst
  <2>3. ASSUME NEW k \in more
        PROVE  k \in BeyondFirst(s \o t)
    <3>1. k \in (Len(s) + 1)..(Len(s) + n) /\ k \in 1..(Len(s) + n)
      BY <1>2
    <3>2. (s \o t)[k] = <<e, k - Len(s)>>
      BY <1>4, <3>1
    <3>3. (s \o t)[k][2] > 1
      BY <1>2, <3>2
    <3> QED
      BY <1>3, <3>1, <3>3 DEF BeyondFirst
  <2> QED
    BY <2>1, <2>2, <2>3
<1>6. BeyondFirst(s) \cap more = {}
  BY <1>2 DEF BeyondFirst
<1>7. BeyondFirst(s) \subseteq 1..Len(s)
  BY DEF BeyondFirst
<1>8. IsFiniteSet(BeyondFirst(s)) /\ Cardinality(BeyondFirst(s)) \in Nat
  <2>1. IsFiniteSet(1..Len(s))
    BY <1>2, FS_Interval
  <2>2. IsFiniteSet(BeyondFirst(s))
    BY <1>7, <2>1, FS_Subset
  <2> QED
    BY <2>2, FS_CardinalityType
<1>9. IsFiniteSet(more) /\ Cardinality(more) = n - 1
  <2> DEFINE a == Len(s) + 2
             b == Len(s) + n
  <2>1. a \in Int /\ b \in Int
    BY <1>2
  <2>2. (IF a > b THEN 0 ELSE b - a + 1) = n - 1
    BY <1>2
  <2> HIDE DEF a, b
  <2>3. IsFiniteSet(a..b) /\ Cardinality(a..b) = IF a > b THEN 0 ELSE b - a + 1
    BY <2>1, FS_Interval
  <2> QED
    BY <2>2, <2>3 DEF a, b
<1>10. Cardinality({}) = 0
  BY FS_EmptySet
<1>11. Cardinality(BeyondFirst(s) \cup more)
         = Cardinality(BeyondFirst(s)) + Cardinality(more) - Cardinality({})
  BY <1>6, <1>8, <1>9, FS_Union
<1> QED
  BY <1>2, <1>5, <1>8, <1>9, <1>10, <1>11 DEF t

LEMMA ExtraType ==
  ASSUME Answers
  PROVE  Extra \in Nat
<1>1. handled \in 0..MaxEntries /\ handled \in Int
  BY BoundsAssumption DEF Answers
<1>2. HandledItems \in Seq(Item)
  BY <1>1, HandledType DEF Answers
<1>3. BeyondFirst(HandledItems) \subseteq 1..Len(HandledItems)
  BY DEF BeyondFirst
<1>4. Len(HandledItems) \in Int
  BY <1>2
<1> QED
  <2>1. IsFiniteSet(1..Len(HandledItems))
    BY <1>4, FS_Interval
  <2>2. IsFiniteSet(BeyondFirst(HandledItems))
    BY <1>3, <2>1, FS_Subset
  <2> QED
    BY <2>2, FS_CardinalityType DEF Extra

(***************************************************************************)
(* Every step keeps the invariant.                                         *)
(***************************************************************************)

LEMMA InitInvariant ==
  ASSUME Init
  PROVE  IInv
<1>1. Slots
  BY PendingAssumption, EmptySeq DEF Init, Slots, Sem, SemaphoreOf
<1>2. Answers
  <2>1. result = [e \in Entries |-> <<>>] /\ written = 0 /\ handled = 0
        /\ state = [e \in Entries |-> "none"]
    BY DEF Init
  <2>2. \A e \in Entries : result[e] = Items(e, Len(result[e]))
    BY <2>1, NoItems
  <2>3. <<>> \in Seq(Item)
    BY EmptySeq
  <2> QED
    BY <2>1, <2>2, <2>3, BoundsAssumption DEF Answers, EntryState
<1>3. Flow
  BY EmptySeq DEF Init, Flow
<1>4. HandledItems = <<>>
  <2>1. SubSeq(result, 1, handled) = <<>>
    BY SubSeqEmpty DEF Init
  <2> QED
    BY <2>1, FlattenEmpty DEF HandledItems
<1>5. InInputOrder
  <2>1. <<>> \o <<>> \o <<>> = <<>>
    BY EmptySeq, ConcatEmptySeq
  <2> QED
    BY <1>4, <2>1 DEF Init, InInputOrder
<1>6. SlotsAccounted
  <2>1. Extra = 0
    <3>1. BeyondFirst(<<>>) = {}
      BY EmptySeq DEF BeyondFirst
    <3> QED
      BY <1>4, <3>1, FS_EmptySet DEF Extra
  <2> QED
    BY <2>1, EmptySeq DEF Init, SlotsAccounted, Sem
<1> QED
  BY <1>1, <1>2, <1>3, <1>5, <1>6, InvariantParts

(* The steps that change neither the answers that count nor what is kept.  *)
LEMMA NothingHandled ==
  ASSUME Answers, Answers', Flow, handled' = handled,
         \A e \in 1..handled : result'[e] = result[e],
         UNCHANGED <<buffer, reading, lost, out>>
  PROVE  HandledItems' = HandledItems /\ Flow'
<1>1. HandledItems' = HandledItems
  <2>1. handled \in 0..MaxEntries
    BY BoundsAssumption DEF Answers
  <2> QED
    BY <2>1, HandledSame DEF Answers
<1>2. Flow'
  BY DEF Flow
<1> QED
  BY <1>1, <1>2

(* What prfn does inside write(), and an answer: the entry gets its items. *)
LEMMA ResolveAnswers ==
  ASSUME Answers, NEW e \in Entries, e > handled,
         NEW n \in 0..MaxItems, NEW items, items = Items(e, n),
         Resolve(e, items), UNCHANGED handled,
         written' \in 0..MaxEntries, written' >= written
  PROVE  Answers' /\ \A x \in 1..handled : result'[x] = result[x]
<1>1. items \in Seq(Item) /\ Len(items) = n
  BY ItemsProperties
<1>2. /\ state' = [state EXCEPT ![e] = "resolved"]
      /\ result' = [result EXCEPT ![e] = items]
  BY DEF Resolve
<1>3. handled \in Nat /\ written \in Nat /\ handled <= written /\ e \in Nat
  BY BoundsAssumption DEF Answers, Entries
<1>4. \A x \in 1..handled : x # e /\ x \in Entries
  BY <1>3, BoundsAssumption DEF Answers, Entries
<1>5. \A x \in 1..handled : result'[x] = result[x] /\ state'[x] = state[x]
  BY <1>2, <1>4 DEF Answers
<1>6. /\ state' \in [Entries -> EntryState]
      /\ result' \in [Entries -> Seq(Item)]
  BY <1>1, <1>2 DEF Answers, EntryState
<1>7. \A x \in Entries : result'[x] = Items(x, Len(result'[x]))
  <2> TAKE x \in Entries
  <2>1. CASE x = e
    BY <1>1, <1>2, <2>1 DEF Answers
  <2>2. CASE x # e
    BY <1>2, <2>2 DEF Answers
  <2> QED
    BY <2>1, <2>2
<1>8. written' \in 0..MaxEntries /\ handled' \in 0..written'
  BY <1>3, BoundsAssumption
<1>9. \A x \in 1..handled' : state'[x] \in {"resolved", "rejected"}
  BY <1>5 DEF Answers
<1> QED
  BY <1>5, <1>6, <1>7, <1>8, <1>9 DEF Answers

(* The entry is given to the transporter, or its answer is an error.       *)
LEMMA MarkAnswers ==
  ASSUME Answers, NEW e \in Entries, e > handled, NEW s \in EntryState,
         state' = [state EXCEPT ![e] = s], UNCHANGED <<handled, result>>,
         written' \in 0..MaxEntries, written' >= written
  PROVE  Answers' /\ \A x \in 1..handled : result'[x] = result[x]
<1>1. handled \in Nat /\ written \in Nat /\ handled <= written /\ e \in Nat
  BY BoundsAssumption DEF Answers, Entries
<1>2. \A x \in 1..handled : x # e /\ x \in Entries
  BY <1>1, BoundsAssumption DEF Answers, Entries
<1>3. \A x \in 1..handled' : state'[x] \in {"resolved", "rejected"}
  BY <1>2 DEF Answers
<1>4. written' \in 0..MaxEntries /\ handled' \in 0..written'
  BY <1>1, BoundsAssumption
<1> QED
  BY <1>3, <1>4 DEF Answers

LEMMA WriteInvariant ==
  ASSUME IInv, Write
  PROVE  IInv'
<1> DEFINE e == written + 1
<1>1. Slots /\ Answers /\ Flow /\ SlotsAccounted /\ InInputOrder
  BY InvariantParts
<1>2. /\ written' = e /\ e \in Entries /\ e > handled /\ e \in 0..MaxEntries
      /\ written \in Nat /\ handled \in Nat /\ e >= written /\ writer = "idle"
  BY <1>1, BoundsAssumption DEF Write, Answers, Entries
<1>3. PICK matches \in BOOLEAN : StartEntry(e, matches)
  BY <1>2 DEF Write
<1>4. UNCHANGED <<handled, buffer, reading, lost, out>> /\ AskSlot
  BY DEF Write
<1> HIDE DEF e
<1>5. Answers' /\ \A x \in 1..handled : result'[x] = result[x]
  <2>1. Verdict(matches) \in FilterAction
    BY FilterAssumption DEF Verdict, FilterAction
  <2>2. CASE Verdict(matches) = "process"
    <3>1. state' = [state EXCEPT ![e] = "calling"] /\ UNCHANGED result
      BY <1>3, <2>2 DEF StartEntry
    <3>2. "calling" \in EntryState
      BY DEF EntryState
    <3> QED
      BY <1>1, <1>2, <1>4, <3>1, <3>2, MarkAnswers
  <2>3. CASE Verdict(matches) = "bypass"
    <3>1. Resolve(e, Items(e, 1))
      BY <1>3, <2>3 DEF StartEntry
    <3>2. 1 \in 0..MaxItems
      BY BoundsAssumption
    <3> QED
      BY <1>1, <1>2, <1>4, <3>1, <3>2, ResolveAnswers
  <2>4. CASE Verdict(matches) = "block"
    <3>1. Resolve(e, <<>>)
      BY <1>3, <2>4 DEF StartEntry
    <3>2. 0 \in 0..MaxItems /\ Len(<<>>) = 0
      BY BoundsAssumption, EmptySeq
    <3>3. <<>> = Items(e, 0)
      BY <1>2, <3>2, NoItems
    <3> QED
      BY <1>1, <1>2, <1>4, <3>1, <3>2, <3>3, ResolveAnswers
  <2> QED
    BY <2>1, <2>2, <2>3, <2>4 DEF FilterAction
<1>6. HandledItems' = HandledItems /\ Flow'
  BY <1>1, <1>4, <1>5, NothingHandled
<1>7. Slots' /\ Taken' = Taken + 1
  BY <1>1, <1>2, <1>4, AskSlots
<1>8. InInputOrder'
  BY <1>1, <1>4, <1>6 DEF InInputOrder
<1>9. SlotsAccounted'
  <2>1. Extra' = Extra
    BY <1>6 DEF Extra
  <2>2. Taken = (written - handled) + Len(buffer) - Extra
    BY <1>1 DEF SlotsAccounted, Taken
  <2>3. Extra \in Int /\ Len(buffer) \in Int
    BY <1>1, ExtraType DEF Flow
  <2>4. Taken' = (written' - handled') + Len(buffer') - Extra'
    BY <1>2, <1>4, <1>7, <2>1, <2>2, <2>3 DEF e
  <2> QED
    BY <2>4 DEF SlotsAccounted, Taken
<1> QED
  BY <1>5, <1>6, <1>7, <1>8, <1>9, InvariantNext

(* A step that leaves the handled items, the slots and the items alone.    *)
LEMMA NothingCounted ==
  ASSUME IInv, HandledItems' = HandledItems, Slots', Taken' = Taken, Answers', Flow',
         UNCHANGED <<written, handled, buffer, lost, out>>
  PROVE  IInv'
<1>1. Slots /\ Answers /\ Flow /\ SlotsAccounted /\ InInputOrder
  BY InvariantParts
<1>2. InInputOrder'
  BY <1>1 DEF InInputOrder
<1>3. SlotsAccounted'
  <2>1. Extra' = Extra
    BY DEF Extra
  <2> QED
    BY <1>1, <2>1 DEF SlotsAccounted, Taken
<1> QED
  BY <1>2, <1>3, InvariantNext

LEMMA EndWriteInvariant ==
  ASSUME IInv, EndWrite
  PROVE  IInv'
<1>1. Slots /\ Answers /\ Flow
  BY InvariantParts
<1>2. /\ writer = "granted" /\ writer' = "idle"
      /\ UNCHANGED <<written, handled, state, result, mutex, buffer, reading, lost, out>>
  BY DEF EndWrite, work
<1>3. Slots' /\ Taken' = Taken
  BY <1>1, <1>2 DEF Slots, Taken
<1>4. Answers'
  BY <1>1, <1>2 DEF Answers
<1>5. HandledItems' = HandledItems /\ Flow'
  BY <1>1, <1>2, <1>4, NothingHandled
<1> QED
  BY <1>2, <1>3, <1>4, <1>5, NothingCounted

LEMMA AnswerInvariant ==
  ASSUME IInv, NEW e \in Entries, Answer(e)
  PROVE  IInv'
<1>1. Slots /\ Answers /\ Flow
  BY InvariantParts
<1>2. /\ state[e] = "calling"
      /\ UNCHANGED <<written, handled, writer, mutex, buffer, reading, lost, out>>
  BY DEF Answer
<1>3. e > handled
  BY <1>1, <1>2, BoundsAssumption DEF Answers, Entries
<1>4. written' \in 0..MaxEntries /\ written' >= written
  BY <1>1, <1>2, BoundsAssumption DEF Answers
<1>5. Answers' /\ \A x \in 1..handled : result'[x] = result[x]
  <2>1. CASE Reject(e)
    <3>1. state' = [state EXCEPT ![e] = "rejected"] /\ UNCHANGED result
      BY <2>1 DEF Reject
    <3>2. "rejected" \in EntryState
      BY DEF EntryState
    <3> QED
      BY <1>1, <1>2, <1>3, <1>4, <3>1, <3>2, MarkAnswers
  <2>2. CASE \E n \in 0..MaxItems : Resolve(e, Items(e, n))
    <3>1. PICK n \in 0..MaxItems : Resolve(e, Items(e, n))
      BY <2>2
    <3> QED
      BY <1>1, <1>2, <1>3, <1>4, <3>1, ResolveAnswers
  <2> QED
    BY <2>1, <2>2 DEF Answer
<1>6. HandledItems' = HandledItems /\ Flow'
  BY <1>1, <1>2, <1>5, NothingHandled
<1>7. Slots' /\ Taken' = Taken
  BY <1>1, <1>2 DEF Slots, Taken
<1> QED
  BY <1>2, <1>5, <1>6, <1>7, NothingCounted

LEMMA ReadInvariant ==
  ASSUME IInv, Read
  PROVE  IInv'
<1>1. Slots /\ Answers /\ Flow
  BY InvariantParts
<1>2. /\ reading = "no" /\ reading' = "yes"
      /\ UNCHANGED <<written, handled, state, result, writer, mutex, buffer, lost, out>>
  BY DEF Read, work
<1>3. Slots' /\ Taken' = Taken /\ Answers'
  BY <1>1, <1>2 DEF Slots, Taken, Answers
<1>4. Flow'
  BY <1>1, <1>2 DEF Flow
<1>5. HandledItems' = HandledItems
  BY <1>2 DEF HandledItems
<1> QED
  BY <1>2, <1>3, <1>4, <1>5, NothingCounted

LEMMA StutterInvariant ==
  ASSUME IInv, UNCHANGED vars
  PROVE  IInv'
<1>1. Slots /\ Answers /\ Flow
  BY InvariantParts
<1>2. UNCHANGED <<written, handled, state, result, writer, mutex, buffer, reading,
                  lost, out>>
  BY DEF vars, work
<1>3. Slots' /\ Taken' = Taken /\ Answers' /\ Flow'
  BY <1>1, <1>2 DEF Slots, Taken, Answers, Flow
<1>4. HandledItems' = HandledItems
  BY <1>2 DEF HandledItems
<1> QED
  BY <1>2, <1>3, <1>4, NothingCounted

(* queue.forEach: an array of n items goes into the buffer, an answer of   *)
(* none frees its slot.                                                    *)
LEMMA HandleInvariant ==
  ASSUME IInv, Handle
  PROVE  IInv'
<1> DEFINE e == handled + 1
           items == result[e]
<1>1. Slots /\ Answers /\ Flow /\ SlotsAccounted /\ InInputOrder
  BY InvariantParts
<1>2. /\ handled < written /\ state[e] \in {"resolved", "rejected"} /\ handled' = e
      /\ UNCHANGED <<written, state, result, reading, lost, out>>
  BY DEF Handle, work
<1>3. /\ e \in Entries /\ handled \in Nat /\ written \in Nat
      /\ handled \in 0..MaxEntries /\ handled < MaxEntries
  BY <1>1, <1>2, BoundsAssumption DEF Answers, Entries
<1>4. /\ items \in Seq(Item) /\ Len(items) \in Nat
      /\ items = Items(e, Len(items))
  BY <1>1, <1>3 DEF Answers
<1>5. IF items = <<>> THEN Release /\ UNCHANGED buffer
      ELSE buffer' = buffer \o items /\ UNCHANGED <<mutex, writer>>
  BY <1>2 DEF Handle, BufferItems
<1>6. Answers'
  <2>1. \A x \in 1..handled' : state'[x] \in {"resolved", "rejected"}
    <3>1. \A x \in 1..e : x \in 1..handled \/ x = e
      BY <1>3
    <3> QED
      BY <1>1, <1>2, <3>1 DEF Answers
  <2> QED
    BY <1>1, <1>2, <1>3, <2>1 DEF Answers
<1>7. HandledItems' = HandledItems \o items
  BY <1>1, <1>2, <1>3, HandledMore DEF Answers
<1>8. HandledItems \in Seq(Item)
  BY <1>1, <1>3, HandledType DEF Answers
<1> HIDE DEF items, e
<1>9. CASE items = <<>>
  <2>1. Release /\ UNCHANGED buffer
    BY <1>5, <1>9
  <2>2. Slots' /\ Taken' = Taken - 1
    BY <1>1, <2>1, ReleaseSlots
  <2>3. Flow'
    BY <1>1, <1>2, <2>1 DEF Flow
  <2>4. HandledItems' = HandledItems
    BY <1>7, <1>8, <1>9, ConcatEmptySeq
  <2>5. InInputOrder'
    BY <1>1, <1>2, <2>1, <2>4 DEF InInputOrder
  <2>6. SlotsAccounted'
    <3>1. Extra' = Extra
      BY <2>4 DEF Extra
    <3>2. Taken = (written - handled) + Len(buffer) - Extra
      BY <1>1 DEF SlotsAccounted, Taken
    <3>3. Extra \in Nat /\ Len(buffer) \in Nat
      BY <1>1, ExtraType DEF Flow
    <3>4. Taken' = (written' - handled') + Len(buffer') - Extra'
      BY <1>2, <1>3, <2>1, <2>2, <3>1, <3>2, <3>3 DEF e
    <3> QED
      BY <3>4 DEF SlotsAccounted, Taken
  <2> QED
    BY <1>6, <2>2, <2>3, <2>5, <2>6, InvariantNext
<1>10. CASE items # <<>>
  <2>1. buffer' = buffer \o items /\ UNCHANGED <<mutex, writer>>
    BY <1>5, <1>10
  <2>2. Slots' /\ Taken' = Taken
    BY <1>1, <2>1 DEF Slots, Taken
  <2>3. buffer \in Seq(Item) /\ lost \in Seq(Item) /\ out \in Seq(Item)
    BY <1>1 DEF Flow
  <2>4. buffer \o items \in Seq(Item) /\ Len(buffer \o items) = Len(buffer) + Len(items)
    BY <1>4, <2>3, ConcatProperties
  <2>5. Flow'
    BY <1>1, <1>2, <2>1, <2>4 DEF Flow
  <2>6. InInputOrder'
    <3> DEFINE left == out \o lost
    <3>1. left \in Seq(Item)
      BY <2>3, ConcatProperties
    <3>2. left \o buffer = HandledItems /\ left' = left
      BY <1>1, <1>2 DEF InInputOrder
    <3> HIDE DEF left
    <3>3. (left \o buffer) \o items = left \o (buffer \o items)
      <4>1. left \in Seq(Item) /\ buffer \in Seq(Item) /\ items \in Seq(Item)
        BY <1>4, <2>3, <3>1
      <4> QED
        BY <4>1, ConcatAssociative
    <3>4. left' \o buffer' = HandledItems'
      BY <1>7, <2>1, <3>2, <3>3
    <3> QED
      BY <3>4 DEF InInputOrder, left
  <2>7. SlotsAccounted'
    <3> DEFINE n == Len(items)
    <3>1. n \in 1..MaxItems
      BY <1>3, <1>4, <1>10, AnswerLength
    <3>2. Extra' = Extra + (n - 1)
      BY <1>3, <1>4, <1>7, <1>8, <3>1, BeyondFirstItems DEF Extra
    <3>3. Taken = (written - handled) + Len(buffer) - Extra
      BY <1>1 DEF SlotsAccounted, Taken
    <3>4. Extra \in Nat /\ Len(buffer) \in Nat
      BY <1>1, ExtraType DEF Flow
    <3>5. Len(buffer') = Len(buffer) + n
      BY <2>1, <2>4
    <3> HIDE DEF n
    <3>6. Taken' = (written' - handled') + Len(buffer') - Extra'
      BY <1>2, <1>3, <2>2, <3>1, <3>2, <3>3, <3>4, <3>5, BoundsAssumption DEF e
    <3> QED
      BY <3>6 DEF SlotsAccounted, Taken
  <2> QED
    BY <1>6, <2>2, <2>5, <2>6, <2>7, InvariantNext
<1> QED
  BY <1>9, <1>10

(* _buffpop: the item is pushed, or lost when the leave() throws.          *)
LEMMA DeliverInvariant ==
  ASSUME IInv, Deliver
  PROVE  IInv'
<1> DEFINE item == Head(buffer)
           rest == Tail(buffer)
<1>1. Slots /\ Answers /\ Flow /\ SlotsAccounted /\ InInputOrder
  BY InvariantParts
<1>2. /\ reading = "yes" /\ buffer # <<>> /\ buffer' = rest /\ Release
      /\ IF LeaveThrows(mutex) THEN Dropped(item) ELSE Pushed(item)
      /\ UNCHANGED <<written, handled, state, result>>
  BY DEF Deliver, work
<1>3. /\ buffer \in Seq(Item) /\ out \in Seq(Item) /\ lost = <<>>
  BY <1>1, <1>2 DEF Flow
<1>4. /\ item \in Item /\ rest \in Seq(Item)
      /\ Len(rest) = Len(buffer) - 1 /\ Len(buffer) \in Nat
  BY <1>2, <1>3, HeadTailProperties
<1>5. buffer = <<item>> \o rest
  <2> DEFINE t == <<item>> \o rest
  <2>1. <<item>> \in Seq(Item) /\ Len(<<item>>) = 1 /\ <<item>>[1] = item
    BY <1>4
  <2>2. t \in Seq(Item) /\ Len(t) = Len(buffer)
    BY <1>4, <2>1, ConcatProperties
  <2>3. \A i \in 1..Len(buffer) : t[i] = buffer[i]
    <3>1. \A i \in 1..Len(buffer) : t[i] = IF i <= 1 THEN <<item>>[i] ELSE rest[i - 1]
      BY <1>4, <2>1, ConcatProperties
    <3>2. \A i \in 1..Len(rest) : rest[i] = buffer[i + 1]
      BY <1>2, <1>3, HeadTailProperties
    <3> QED
      BY <1>3, <1>4, <2>1, <3>1, <3>2
  <2> QED
    BY <1>3, <2>2, <2>3, SeqEqual
<1>6. Slots' /\ Taken' = Taken - 1
  BY <1>1, <1>2, ReleaseSlots
<1>7. Answers'
  BY <1>1, <1>2 DEF Answers
<1>8. HandledItems' = HandledItems
  BY <1>2 DEF HandledItems
<1>9. SlotsAccounted'
  <2>1. Extra' = Extra
    BY <1>8 DEF Extra
  <2>2. Taken = (written - handled) + Len(buffer) - Extra
    BY <1>1 DEF SlotsAccounted, Taken
  <2>3. Extra \in Nat /\ written \in Int /\ handled \in Int
    BY <1>1, ExtraType, BoundsAssumption DEF Answers
  <2> HIDE DEF rest
  <2>4. Taken' = (written' - handled') + Len(buffer') - Extra'
    BY <1>2, <1>4, <1>6, <2>1, <2>2, <2>3
  <2> QED
    BY <2>4 DEF SlotsAccounted, Taken
<1>10. out \o buffer = HandledItems
  BY <1>1, <1>3, ConcatEmptySeq DEF InInputOrder
<1> HIDE DEF item, rest
<1>11. <<item>> \in Seq(Item)
  BY <1>4
<1>12. (out \o <<item>>) \o rest = HandledItems
  <2>1. rest \in Seq(Item) /\ out \in Seq(Item)
    BY <1>3, <1>4
  <2>2. (out \o <<item>>) \o rest = out \o (<<item>> \o rest)
    BY <1>11, <2>1, ConcatAssociative
  <2> QED
    BY <1>5, <1>10, <2>2
<1>13. CASE LeaveThrows(mutex)
  <2>1. lost' = <<item>> /\ reading' = "lost" /\ out' = out
    BY <1>2, <1>13 DEF Dropped
  <2>2. Flow'
    BY <1>2, <1>3, <1>4, <1>11, <2>1 DEF Flow
  <2>3. InInputOrder'
    BY <1>2, <1>8, <1>12, <2>1 DEF InInputOrder
  <2> QED
    BY <1>6, <1>7, <1>9, <2>2, <2>3, InvariantNext
<1>14. CASE ~LeaveThrows(mutex)
  <2>1. out' = Append(out, item) /\ reading' = "no" /\ lost' = <<>>
    BY <1>2, <1>3, <1>14 DEF Pushed
  <2>2. Append(out, item) \in Seq(Item) /\ Append(out, item) = out \o <<item>>
    BY <1>3, <1>4, AppendProperties, AppendIsConcat
  <2>3. Flow'
    BY <1>2, <1>4, <2>1, <2>2, EmptySeq DEF Flow
  <2>4. InInputOrder'
    <3>1. Append(out, item) \o <<>> = Append(out, item)
      BY <2>2, ConcatEmptySeq
    <3> QED
      BY <1>2, <1>8, <1>12, <2>1, <2>2, <3>1 DEF InInputOrder
  <2> QED
    BY <1>6, <1>7, <1>9, <2>3, <2>4, InvariantNext
<1> QED
  BY <1>13, <1>14

LEMMA NextInvariant ==
  ASSUME IInv, [Next]_vars
  PROVE  IInv'
<1>1. CASE Write
  BY <1>1, WriteInvariant
<1>2. CASE EndWrite
  BY <1>2, EndWriteInvariant
<1>3. CASE Handle
  BY <1>3, HandleInvariant
<1>4. CASE Read
  BY <1>4, ReadInvariant
<1>5. CASE Deliver
  BY <1>5, DeliverInvariant
<1>6. CASE \E e \in Entries : Answer(e)
  BY <1>6, AnswerInvariant
<1>7. CASE UNCHANGED vars
  BY <1>7, StutterInvariant
<1> QED
  BY <1>1, <1>2, <1>3, <1>4, <1>5, <1>6, <1>7 DEF Next

(* What the stage keeps in every step (factory.js:70-209).                 *)
THEOREM Invariance == Spec => []IInv
<1>1. Init => IInv
  BY InitInvariant
<1>2. IInv /\ [Next]_vars => IInv'
  BY NextInvariant
<1> QED
  BY <1>1, <1>2, PTL DEF Spec

(* Every variable keeps its type; the count of the slots never exceeds the *)
(* limit, whatever the answers (factory.js:145-150).                       *)
THEOREM TypeCorrect == Spec => []TypeOK
<1>1. IInv => TypeOK
  BY DEF IInv
<1> QED
  BY <1>1, Invariance, PTL

(* A slot is freed too often for each item beyond the first of an array,   *)
(* and for nothing else (factory.js:161-205).                              *)
THEOREM SlotsAreAccounted == Spec => []SlotsAccounted
<1>1. IInv => SlotsAccounted
  BY DEF IInv
<1> QED
  BY <1>1, Invariance, PTL

(* The items leave once and in the order of the entries, but for the one a *)
(* leave() too many throws away (factory.js:161-205).                      *)
THEOREM ItemsComeInOrder == Spec => []InInputOrder
<1>1. IInv => InInputOrder
  BY DEF IInv
<1> QED
  BY <1>1, Invariance, PTL
=============================================================================
