-------------------------- MODULE ProcessorStage --------------------------
(***************************************************************************)
(* The stream that Factory.transform (lib/factory.js:220-408) wraps around *)
(* a processor: entries come in through write(), are given to the          *)
(* processor at once, their results are taken in input order from a queue  *)
(* of promises, and read() hands them on from the queue `buffer`.  At most *)
(* maxPending slots of `mutex` hold the entries inside.                    *)
(*                                                                         *)
(* An action is a piece of code that runs without a break.  `buffer` is a  *)
(* lib/queue.js Queue used without a limit: by module Queue it is a FIFO   *)
(* that keeps the order of the calls, which is all that is kept of it.     *)
(***************************************************************************)
EXTENDS Semaphore, SequencesExt

CONSTANTS MaxPending,   \* def.maxPending
          MaxEntries,   \* bound: entries written by the previous stage
          Pushers,      \* entries the processor emits by instance.push
          MaxItems,     \* bound: items of one result
          WhenFilter,   \* TRUE: def.when has a filter
          WhenMatch,    \* what it does with an entry it matches
          WhenNoMatch,  \* and with one it does not match
          ThenFilter,   \* TRUE: def.then has a filter that may block items
          RetryFilter,  \* TRUE: def.retry has a filter
          RetryMax      \* def.retry.max

FilterAction == {"process", "bypass", "block"}

ASSUME PendingAssumption == MaxPending \in Nat \ {0}
ASSUME BoundsAssumption == MaxEntries \in Nat /\ MaxItems \in Nat \ {0}
ASSUME PushersAssumption ==
  IsFiniteSet(Pushers) /\ Pushers \cap (Nat \cup {"writer"}) = {}
ASSUME FilterAssumption ==
  /\ WhenMatch \in FilterAction /\ WhenNoMatch \in FilterAction
  /\ WhenFilter \in BOOLEAN /\ ThenFilter \in BOOLEAN
ASSUME RetryAssumption == RetryFilter \in BOOLEAN /\ RetryMax \in Nat

Entries == 1..MaxEntries
Sources == Entries \cup Pushers

VARIABLES order,    \* history: the sources in the order of queue.push
          handled,  \* how many of them queue.forEach has taken
          state,    \* where the processing of an entry stands
          retry,    \* the variable `retry` of its prfn
          result,   \* what its promise resolved to, after postFilter
          writer,   \* the write() in progress
          pusher,   \* the instance.push of each pusher
          mutex,    \* the semaphore of pending slots
          buffer,   \* results waiting for a read, each a sequence of items
          reading,  \* a read() waits for buffer.pop
          out       \* history: the items pushed downstream

work == <<state, retry, result>>
vars == <<order, handled, work, writer, pusher, mutex, buffer, reading, out>>

Item == Sources \X (1..MaxItems)

(* "calling": the processor has the entry; "sleeping": before a retry;     *)
(* "stuck": prfn returned and settled nothing; "resolved" and "rejected":  *)
(* its promise is settled.                                                 *)
EntryState ==
  {"none", "calling", "sleeping", "stuck", "resolved", "rejected"}
Callers == Pushers \cup {"writer"}
CallState == {"idle", "blocked", "granted", "done"}

TypeOK ==
  /\ order \in Seq(Sources) /\ handled \in 0..Len(order)
  /\ state \in [Entries -> EntryState]
  /\ retry \in [Entries -> -1..RetryMax]
  /\ result \in [Sources -> Seq(Item)]
  /\ writer \in {"idle", "blocked", "granted"}
  /\ pusher \in [Pushers -> CallState]
  /\ mutex \in SemaphoreOf(Callers)
  /\ mutex.cur \in 0..MaxPending
  /\ buffer \in Seq(Seq(Item) \ {<<>>})
  /\ reading \in BOOLEAN
  /\ out \in Seq(Item)

Init ==
  /\ order = <<>> /\ handled = 0
  /\ state = [e \in Entries |-> "none"]
  /\ retry = [e \in Entries |-> RetryMax]
  /\ result = [s \in Sources |-> <<>>]
  /\ writer = "idle"
  /\ pusher = [p \in Pushers |-> "idle"]
  /\ mutex = Sem(MaxPending)
  /\ buffer = <<>> /\ reading = FALSE
  /\ out = <<>>

(* The results of source s that leave postFilter, when the filter lets the *)
(* ones at the positions `kept` pass.                                      *)
PostFilter(s, kept) == [i \in 1..Len(kept) |-> <<s, kept[i]>>]

(* The positions that may be kept, in order, of n results.                 *)
Passing(n) ==
  IF ThenFilter
  THEN {kept \in UNION {[1..m -> 1..n] : m \in 0..n} :
          \A i, j \in 1..Len(kept) : i < j => kept[i] < kept[j]}
  ELSE {[i \in 1..n |-> i]}

Verdict(matches) ==
  IF ~WhenFilter THEN "process"
  ELSE IF matches THEN WhenMatch ELSE WhenNoMatch

(* Who resumes when leave() hands a slot over.                             *)
WakeUp(woken) ==
  /\ writer' = IF "writer" \in woken THEN "granted" ELSE writer
  /\ pusher' = Grant(pusher, woken)

(* mutex.leave()                                                           *)
Release ==
  /\ mutex' = Leave(mutex)
  /\ WakeUp(Woken(mutex))

(***************************************************************************)
(* write(): the processing of the entry starts before the slot is asked.   *)
(***************************************************************************)

(* ok(items)                                                               *)
Resolve(e, items) ==
  /\ state' = [state EXCEPT ![e] = "resolved"]
  /\ result' = [result EXCEPT ![e] = items]

(* rej(err)                                                                *)
Reject(e) ==
  /\ state' = [state EXCEPT ![e] = "rejected"]
  /\ UNCHANGED result

(* The piece of prfn that runs inside write(): the filter of def.when.     *)
StartEntry(e, matches) ==
  /\ UNCHANGED retry
  /\ CASE Verdict(matches) = "process" ->
            /\ state' = [state EXCEPT ![e] = "calling"]
            /\ UNCHANGED result
       [] Verdict(matches) = "bypass" ->
            \E kept \in Passing(1) : Resolve(e, PostFilter(e, kept))
       [] Verdict(matches) = "block" -> Resolve(e, <<>>)

(* A write() that calls back without awaiting the slot.                    *)
AskSlotUnawaited ==
  /\ mutex' = Take(mutex, "writer")
  /\ writer' = "granted"

(* await mutex.take()                                                      *)
AskSlot ==
  /\ mutex' = Take(mutex, "writer")
  /\ writer' = IF Available(mutex) THEN "granted" ELSE "blocked"

Write(e) ==
  /\ writer = "idle"
  /\ e = Cardinality({x \in Entries : state[x] # "none"}) + 1
  /\ order' = Append(order, e)
  /\ \E matches \in BOOLEAN : StartEntry(e, matches)
  /\ AskSlot
  /\ UNCHANGED <<handled, pusher, buffer, reading, out>>

(* callback(): the previous stage may write the next entry.                *)
EndWrite ==
  /\ writer = "granted"
  /\ writer' = "idle"
  /\ UNCHANGED <<order, handled, work, pusher, mutex, buffer, reading, out>>

(***************************************************************************)
(* The processor answers: prfn settles its promise, or tries again.        *)
(***************************************************************************)

(* The variable `retry` after an answer.                                   *)
Left(e, again) == IF RetryFilter /\ again THEN retry[e] - 1 ELSE 0

Answer(e) ==
  /\ state[e] = "calling"
  /\ \E again \in BOOLEAN :
       IF Left(e, again) = 0
         THEN /\ \/ Reject(e)
                 \/ \E n \in 0..MaxItems : \E kept \in Passing(n) :
                      Resolve(e, PostFilter(e, kept))
              /\ UNCHANGED retry
         ELSE /\ state' = [state EXCEPT ![e] = "sleeping"]
              /\ retry' = [retry EXCEPT ![e] = Left(e, again)]
              /\ UNCHANGED result
  /\ UNCHANGED <<order, handled, writer, pusher, mutex, buffer, reading, out>>

(* The retry timeout expires: while(retry > 0).                            *)
RetryTimer(e) ==
  /\ state[e] = "sleeping"
  /\ state' = [state EXCEPT ![e] = IF retry[e] > 0 THEN "calling" ELSE "stuck"]
  /\ UNCHANGED <<order, handled, retry, result, writer, pusher, mutex, buffer,
                 reading, out>>

(***************************************************************************)
(* instance.push(entry): an entry the processor emits on its own.          *)
(***************************************************************************)

CallPush(p) ==
  /\ pusher[p] = "idle"
  /\ mutex' = Take(mutex, p)
  /\ pusher' = [pusher EXCEPT ![p] =
                  IF Available(mutex) THEN "granted" ELSE "blocked"]
  /\ UNCHANGED <<order, handled, work, writer, buffer, reading, out>>

EndPush(p) ==
  /\ pusher[p] = "granted"
  /\ pusher' = [pusher EXCEPT ![p] = "done"]
  /\ order' = Append(order, p)
  /\ \E kept \in Passing(1) :
       result' = [result EXCEPT ![p] = PostFilter(p, kept)]
  /\ UNCHANGED <<handled, state, retry, writer, mutex, buffer, reading, out>>

(***************************************************************************)
(* queue.forEach: the results, in the order of the promises.               *)
(***************************************************************************)

Settled(s) == s \in Entries => state[s] \in {"resolved", "rejected"}

(* A loop that takes the first promise to settle, wherever it stands.      *)
TurnOfAnySettled(s) ==
  \E i \in (handled + 1)..Len(order) :
    /\ order[i] = s /\ Settled(s)
    /\ order' = [order EXCEPT ![i] = order[handled + 1], ![handled + 1] = s]

(* The promise of s is the head of the queue and has settled.              *)
TurnOf(s) ==
  /\ handled < Len(order)
  /\ order[handled + 1] = s /\ Settled(s)
  /\ UNCHANGED order

Handle(s) ==
  /\ TurnOf(s)
  /\ handled' = handled + 1
  /\ IF result[s] = <<>>
       THEN Release /\ UNCHANGED buffer
       ELSE /\ buffer' = Append(buffer, result[s])
            /\ UNCHANGED <<mutex, writer, pusher>>
  /\ UNCHANGED <<work, reading, out>>

(***************************************************************************)
(* read(): the next stage asks for an entry, buffer.pop answers.           *)
(***************************************************************************)

Read ==
  /\ ~reading
  /\ reading' = TRUE
  /\ UNCHANGED <<order, handled, work, writer, pusher, mutex, buffer, out>>

EmitAll(items) == out' = out \o items

(* _buffpop                                                                *)
Deliver ==
  /\ reading /\ buffer # <<>>
  /\ buffer' = Tail(buffer)
  /\ Release
  /\ EmitAll(Head(buffer))
  /\ reading' = FALSE
  /\ UNCHANGED <<order, handled, work>>

Next ==
  \/ \E e \in Entries : Write(e) \/ Answer(e) \/ RetryTimer(e)
  \/ EndWrite
  \/ \E p \in Pushers : CallPush(p) \/ EndPush(p)
  \/ \E s \in Sources : Handle(s)
  \/ Read
  \/ Deliver

(* The event loop runs what is ready, the processor answers every call     *)
(* and the next stage keeps reading.                                       *)
Fairness ==
  /\ WF_vars(EndWrite)
  /\ \A e \in Entries : WF_vars(Answer(e)) /\ WF_vars(RetryTimer(e))
  /\ \A p \in Pushers : WF_vars(EndPush(p))
  /\ WF_vars(\E s \in Sources : Handle(s))
  /\ WF_vars(Read)
  /\ WF_vars(Deliver)

Spec == Init /\ [][Next]_vars /\ Fairness

(***************************************************************************)
(* Properties                                                              *)
(***************************************************************************)

InFlight == Len(order) - handled + Len(buffer)
Granted == {p \in Pushers : pusher[p] = "granted"}

(* Slots are neither leaked nor freed twice (factory.js:332-392): what is  *)
(* taken, plus the write that still waits for its slot, is what the stage  *)
(* holds, plus the pushes about to queue their entry.                      *)
SlotsConserved ==
  mutex.cur + (IF writer = "blocked" THEN 1 ELSE 0)
    = InFlight + Cardinality(Granted)

(* Where each of those who ask for slots stands.                           *)
Stands == [c \in Callers |-> IF c = "writer" THEN writer ELSE pusher[c]]

(* The entries come in one after another.                                  *)
StartedInOrder ==
  \E k \in 0..MaxEntries : \A e \in Entries : state[e] # "none" <=> e <= k

(* With SlotsConserved, that a slot is handed over only to one who waits,  *)
(* and once, and that no one waits while a slot is free.  An entry is      *)
(* given to the processor while it has retries left, or had none at all.   *)
IInv ==
  /\ TypeOK
  /\ Sound(mutex, Stands, Callers, MaxPending)
  /\ StartedInOrder
  /\ \A e \in Entries : state[e] \in {"none", "calling"} => retry[e] >= 0
  /\ SlotsConserved

(* The stage implements the ordered stage: an entry is accepted when its   *)
(* promise is queued, resolved when forEach takes it, and nothing stays in *)
(* the stage for ever (factory.js:220-408).                                *)
Stage == INSTANCE OrderedStage WITH
  accepted <- SubSeq(order, handled + 1, Len(order)),
  ready <- FlattenSeq(buffer),
  emitted <- out

ImplementsStage == Stage!Spec

(* What the filters leave of a result is what the ordered stage resolves   *)
(* an entry into: items of its source, in order.                           *)
ResultsFit ==
  \A s \in Sources :
    result[s] \in Stage!ItemsOf(s) /\ Stage!Increasing(result[s])
=============================================================================
