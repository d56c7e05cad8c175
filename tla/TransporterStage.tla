-------------------------- MODULE TransporterStage --------------------------
(***************************************************************************)
(* The stream that Factory.writer (lib/factory.js:70-209) wraps around a   *)
(* transporter.  It is made as that of ProcessorStage, without retries and *)
(* pushes of its own; but an answer that is an array goes into the queue   *)
(* `buffer` item by item, and each item that is read leaves a slot.        *)
(*                                                                         *)
(* A leave() too many throws inside _buffpop, before the item is pushed:   *)
(* the item is lost, and since the stream still waits for that push it     *)
(* never reads again.                                                      *)
(***************************************************************************)
EXTENDS Semaphore, SequencesExt

CONSTANTS MaxPending,   \* def.maxPending
          MaxEntries,   \* bound: entries written by the previous stage
          MaxItems,     \* bound: items of one answer
          WhenFilter,   \* TRUE: def.when has a filter
          WhenMatch,    \* what it does with an entry it matches
          WhenNoMatch   \* and with one it does not match

FilterAction == {"process", "bypass", "block"}

ASSUME PendingAssumption == MaxPending \in Nat \ {0}
ASSUME BoundsAssumption == MaxEntries \in Nat /\ MaxItems \in Nat \ {0}
ASSUME FilterAssumption ==
  /\ WhenFilter \in BOOLEAN
  /\ WhenMatch \in FilterAction /\ WhenNoMatch \in FilterAction

Entries == 1..MaxEntries

VARIABLES written, \* how many entries write() got
          handled, \* how many of them queue.forEach has taken
          state,   \* where an entry stands
          result,  \* what its promise resolved to
          writer,  \* the write() in progress
          mutex,   \* the semaphore of pending slots
          buffer,  \* items that wait for a read
          reading, \* no; yes: buffer.pop waits; lost: its push never comes
          lost,    \* history: the item that was not pushed
          out      \* history: the items pushed downstream

work == <<state, result>>
vars == <<written, handled, work, writer, mutex, buffer, reading, lost, out>>

Item == Entries \X (1..MaxItems)
EntryState == {"none", "calling", "resolved", "rejected"}

TypeOK ==
  /\ written \in 0..MaxEntries /\ handled \in 0..written
  /\ state \in [Entries -> EntryState]
  /\ result \in [Entries -> Seq(Item)]
  /\ writer \in {"idle", "blocked", "granted"}
  /\ mutex \in SemaphoreOf({"writer"}) /\ mutex.cur <= MaxPending
  /\ buffer \in Seq(Item) /\ lost \in Seq(Item) /\ out \in Seq(Item)
  /\ reading \in {"no", "yes", "lost"}

Init ==
  /\ written = 0 /\ handled = 0
  /\ state = [e \in Entries |-> "none"]
  /\ result = [e \in Entries |-> <<>>]
  /\ writer = "idle" /\ mutex = Sem(MaxPending)
  /\ buffer = <<>> /\ reading = "no" /\ lost = <<>> /\ out = <<>>

Verdict(matches) ==
  IF ~WhenFilter THEN "process"
  ELSE IF matches THEN WhenMatch ELSE WhenNoMatch

(* The items of an answer; a transporter that answers nothing gives the    *)
(* entry, which is one.                                                    *)
Items(e, n) == [k \in 1..n |-> <<e, k>>]

(* ok(items), rej(err)                                                     *)
Resolve(e, items) ==
  /\ state' = [state EXCEPT ![e] = "resolved"]
  /\ result' = [result EXCEPT ![e] = items]
Reject(e) ==
  /\ state' = [state EXCEPT ![e] = "rejected"]
  /\ UNCHANGED result

(* The piece of prfn that runs inside write(): the filter of def.when.     *)
StartEntry(e, matches) ==
  CASE Verdict(matches) = "process" ->
         state' = [state EXCEPT ![e] = "calling"] /\ UNCHANGED result
    [] Verdict(matches) = "bypass" -> Resolve(e, Items(e, 1))
    [] Verdict(matches) = "block" -> Resolve(e, <<>>)

(* await mutex.take()                                                      *)
AskSlot ==
  /\ mutex' = Take(mutex, "writer")
  /\ writer' = IF Available(mutex) THEN "granted" ELSE "blocked"

Write ==
  /\ writer = "idle" /\ written < MaxEntries
  /\ written' = written + 1
  /\ \E matches \in BOOLEAN : StartEntry(written', matches)
  /\ AskSlot
  /\ UNCHANGED <<handled, buffer, reading, lost, out>>

(* callback(): the previous stage may write the next entry.                *)
EndWrite ==
  /\ writer = "granted" /\ writer' = "idle"
  /\ UNCHANGED <<written, handled, work, mutex, buffer, reading, lost, out>>

(* The callback of transport().                                            *)
Answer(e) ==
  /\ state[e] = "calling"
  /\ Reject(e) \/ \E n \in 0..MaxItems : Resolve(e, Items(e, n))
  /\ UNCHANGED <<written, handled, writer, mutex, buffer, reading, lost, out>>

(* mutex.leave(): whether or not it throws, the slot is counted.           *)
Release ==
  /\ mutex' = Leave(mutex)
  /\ writer' = IF "writer" \in Woken(mutex) THEN "granted" ELSE writer

(* A stage that gives the slot back once for the array, and once per item. *)
BufferAndRelease(items) == buffer' = buffer \o items /\ Release

(* A stage whose answers overtake those that wait.                         *)
BufferAtFront(items) == buffer' = items \o buffer /\ UNCHANGED <<mutex, writer>>

BufferItems(items) == buffer' = buffer \o items /\ UNCHANGED <<mutex, writer>>

(* queue.forEach: the results, in the order of the promises.               *)
Handle ==
  /\ handled < written /\ state[handled + 1] \in {"resolved", "rejected"}
  /\ handled' = handled + 1
  /\ IF result[handled'] = <<>> THEN Release /\ UNCHANGED buffer
     ELSE BufferItems(result[handled'])
  /\ UNCHANGED <<written, work, reading, lost, out>>

(* read(): the next stage asks for an entry.                               *)
Read ==
  /\ reading = "no" /\ reading' = "yes"
  /\ UNCHANGED <<written, handled, work, writer, mutex, buffer, lost, out>>

Pushed(item) == out' = Append(out, item) /\ reading' = "no" /\ UNCHANGED lost
Dropped(item) == lost' = <<item>> /\ reading' = "lost" /\ UNCHANGED out

(* _buffpop                                                                *)
Deliver ==
  /\ reading = "yes" /\ buffer # <<>>
  /\ buffer' = Tail(buffer)
  /\ Release
  /\ IF LeaveThrows(mutex) THEN Dropped(Head(buffer)) ELSE Pushed(Head(buffer))
  /\ UNCHANGED <<written, handled, work>>

Next ==
  \/ Write \/ EndWrite \/ Handle \/ Read \/ Deliver
  \/ \E e \in Entries : Answer(e)

(* The event loop runs what is ready, the transporter answers every call   *)
(* and the next stage keeps reading.                                       *)
Fairness ==
  /\ WF_vars(EndWrite) /\ WF_vars(Handle) /\ WF_vars(Read) /\ WF_vars(Deliver)
  /\ \A e \in Entries : WF_vars(Answer(e))

Spec == Init /\ [][Next]_vars /\ Fairness
-----------------------------------------------------------------------------
(* The items of the handled entries, and how many of them are one more     *)
(* than the slot of their entry.                                           *)
HandledItems == FlattenSeq(SubSeq(result, 1, handled))
BeyondFirst(items) == {k \in 1..Len(items) : items[k][2] > 1}
Extra == Cardinality(BeyondFirst(HandledItems))

(* Slots on all paths of the stage (factory.js:145-205): what is taken,    *)
(* plus the write that waits, is what the stage holds, less one for every  *)
(* item beyond the first of an array, and for nothing else.                *)
SlotsAccounted ==
  mutex.cur + (IF writer = "blocked" THEN 1 ELSE 0)
    = (written - handled) + Len(buffer) - Extra

(* Whatever the order of the answers, the items leave once and in the      *)
(* order of the entries (factory.js:161-205); a leave that throws loses    *)
(* one, after which none leaves.                                           *)
InInputOrder == out \o lost \o buffer = HandledItems

(* What every step keeps, and both follow from: the write() queues for its *)
(* slot while it is blocked; what forEach has taken is settled, so that no *)
(* answer changes it; an answer is the items of its entry; and an item is  *)
(* lost only when nothing is read any more.                                *)
IInv ==
  /\ TypeOK
  /\ mutex.cap = MaxPending
  /\ mutex.wait = IF writer = "blocked" THEN <<"writer">> ELSE <<>>
  /\ \A e \in 1..handled : state[e] \in {"resolved", "rejected"}
  /\ \A e \in Entries : result[e] = Items(e, Len(result[e]))
  /\ lost # <<>> => reading = "lost"
  /\ SlotsAccounted
  /\ InInputOrder

=============================================================================
