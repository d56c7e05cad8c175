----------------------------- MODULE Destination -----------------------------
(***************************************************************************)
(* What the transporters have in common: the entries that the stage gives  *)
(* to transport() (lib/factory.js:126), the answer of each, and what has   *)
(* arrived at the places where they are sent, across connections that fail *)
(* and come back.  The modules that extend this one say what each          *)
(* transporter does with it.                                               *)
(***************************************************************************)
EXTENDS Integers, FiniteSets, SequencesExt

CONSTANTS MaxEntries,  \* entries given to any transporter
          Dests, To,   \* where each entry goes: url, partition, path
          Worlds,      \* which transporter, and the bounds of each: entries,
                       \* errors, calls of stop(), and its retries (0: none)
          MaxPending   \* of the stage: entries that are not answered yet

Entries == 1..MaxEntries

ASSUME DestinationAssumption ==
  /\ MaxEntries \in Nat /\ MaxPending \in Nat \ {0}
  /\ To \in [Entries -> Dests]
  /\ \A w \in Worlds : {w.faults, w.stops, w.tries} \subseteq Nat
                       /\ w.entries \in 0..MaxEntries

VARIABLES bound,    \* the world
          sent,     \* entries that transport() got
          place,    \* where the work for an entry stands
          answer,   \* what the stage was called back with first
          arrived,  \* history: what came to each destination, in its order
          faults, stopped

destVars == <<bound, sent, place, answer, arrived, faults, stopped>>

Places == {"none", "creating", "mutex", "buffered", "queued", "connecting",
           "sending", "done"}

DestinationTypeOK ==
  /\ bound \in Worlds
  /\ sent \in 0..bound.entries
  /\ place \in [Entries -> Places]
  /\ answer \in [Entries -> {"none", "ok", "error"}]
  /\ arrived \in [Dests -> Seq(Entries)]
  /\ faults \in 0..bound.faults /\ stopped \in BOOLEAN

DestinationInit ==
  /\ bound \in Worlds
  /\ sent = 0
  /\ place = [e \in Entries |-> "none"]
  /\ answer = [e \in Entries |-> "none"]
  /\ arrived = [d \in Dests |-> <<>>]
  /\ faults = 0 /\ stopped = FALSE

Unanswered == {e \in 1..sent : answer[e] = "none"}
At(p) == {e \in Entries : place[e] = p}

(* transport(entry) of the next entry, whose work then stands at p.        *)
Transported == sent' = sent + 1 /\ Cardinality(Unanswered) < MaxPending /\ sent < bound.entries
Enter(p) ==
  /\ Transported
  /\ place' = [place EXCEPT ![sent'] = p]
  /\ UNCHANGED <<bound, answer, arrived, faults, stopped>>

(* ... answered before transport() returns.                                *)
EnterAnswered(a) ==
  /\ Transported
  /\ place' = [place EXCEPT ![sent'] = "done"]
  /\ answer' = [answer EXCEPT ![sent'] = a]
  /\ UNCHANGED <<bound, arrived, faults, stopped>>

Move(S, p) ==
  /\ place' = [e \in Entries |-> IF e \in S THEN p ELSE place[e]]
  /\ UNCHANGED <<bound, sent, answer, arrived, faults, stopped>>

(* The callbacks of the entries in S.  The stage looks at the first call.  *)
Answered(S, a) ==
  /\ place' = [e \in Entries |-> IF e \in S THEN "done" ELSE place[e]]
  /\ answer' = [e \in Entries |-> IF e \in S /\ answer[e] = "none" THEN a ELSE answer[e]]

Arrives(d, s) == arrived' = [arrived EXCEPT ![d] = @ \o s]
Fault == faults < bound.faults /\ faults' = faults + 1

(* The entries s are sent to d and confirmed; or they are not, and what    *)
(* came of them is a prefix that the transporter does not know.            *)
Confirmed(d, s) ==
  /\ Arrives(d, s) /\ Answered(ToSet(s), "ok")
  /\ UNCHANGED <<bound, sent, faults, stopped>>
Fails(d, s, came) ==
  /\ Fault
  /\ Arrives(d, SubSeq(s, 1, came))
  /\ UNCHANGED <<bound, sent, stopped>>
Refused(d, s, came) == Fails(d, s, came) /\ Answered(ToSet(s), "error")
TriedAgain(d, s, came) == Fails(d, s, came) /\ UNCHANGED <<place, answer>>

(* A connection that fails or breaks.                                      *)
Breaks ==
  /\ Fault
  /\ UNCHANGED <<bound, sent, place, answer, arrived, stopped>>

Stop ==
  /\ ~stopped /\ bound.stops > 0 /\ stopped' = TRUE
  /\ UNCHANGED <<bound, sent, place, answer, arrived, faults>>
=============================================================================
