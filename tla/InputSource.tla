----------------------------- MODULE InputSource -----------------------------
(***************************************************************************)
(* What the inputs that read from a source have in common: the source with *)
(* its items 1, 2, ..., the watermark in memory and in the store, a queue  *)
(* of items that were read, the request of the wrapper (next), and         *)
(* processes that end and are followed by others.  The modules that extend *)
(* this one say what each input does with it.                              *)
(*                                                                         *)
(* A mark says for each class of items up to which one they are read.  The *)
(* classes are the collections of the mongo input and the groups of event  *)
(* ids of the windows input; the other inputs have one mark for all.       *)
(***************************************************************************)
EXTENDS Watermarks, Integers, FiniteSets, SequencesExt

CONSTANTS MaxItems,  \* items that any source may have
          Worlds,    \* which inputs, and the bounds of each: items, processes,
                     \* errors of the source, calls of pause()
          Classes, ClassOf,
          Batch      \* items in one answer of the source: batchsize

Items == 1..MaxItems
Marks == [Classes -> 0..MaxItems]
Upto(i) == [c \in Classes |-> i]

ASSUME SourceAssumption ==
  /\ MaxItems \in Nat
  /\ \A w \in Worlds : {w.starts, w.faults, w.pauses} \subseteq Nat
                       /\ w.items \in 0..MaxItems
  /\ Batch \in Nat \ {0}
  /\ ClassOf \in [Items -> Classes]
  /\ Values = Marks /\ Placeholder = Upto(0)
  /\ {"configure", "fetch", "next", "done", "pause", "stop"} \subseteq Callers

VARIABLES kind,    \* which input it is
          bound,   \* the world it is in
          avail,   \* how many items the source has
          proc,    \* number of the process
          phase,   \* off, get, save, start, up, stopping
          active,  \* not paused
          wm,      \* the watermark in memory
          queue,   \* items read and not given
          held,    \* items read that are in neither queue nor stream yet
          asked,   \* where the call of next() stands; "no": none is made
          reading, \* where the read that is under way stands, or "no"
          answer,  \* whose save was answered last, until he goes on
          faults, pauses,
          own,     \* history: what this process gave to the wrapper
          given,   \* history: all that was given by any process
          dropped  \* history: what a process had read and not given at its end

lifeVars == <<kind, bound, proc, phase>>
histVars == <<own, given, dropped>>
pauseVars == <<active, pauses>>
sourceVars == <<storeVars, avail, lifeVars, pauseVars, wm, queue, held, asked,
                reading, answer, faults, histVars>>

Covered(m) == {i \in Items : i <= m[ClassOf[i]]}

(* What the source has beyond mark m, in order, and its first n.           *)
Beyond(m) == {i \in 1..avail : i > m[ClassOf[i]]}
Ascending(s) == \A a, b \in DOMAIN s : a < b => s[a] < s[b]
InOrder(S) == CHOOSE s \in [1..Cardinality(S) -> S] : Ascending(s)
First(s, n) == SubSeq(s, 1, IF Len(s) < n THEN Len(s) ELSE n)

SourceTypeOK ==
  /\ StoreTypeOK
  /\ avail \in 0..MaxItems /\ proc \in 0..bound.starts
  /\ bound \in Worlds /\ phase \in {"off", "get", "save", "start", "up", "stopping"}
  /\ active \in BOOLEAN /\ wm \in Marks
  /\ queue \in Seq(Items) /\ own \in Seq(Items)
  /\ \A S \in {held, given, dropped} : S \subseteq Items
  /\ faults \in 0..bound.faults /\ pauses \in 0..bound.pauses
  /\ answer \in Callers \cup {"none"}

SourceInit ==
  /\ StoreInit
  /\ bound \in Worlds /\ kind = bound.kind /\ avail = 0
  /\ proc = 0 /\ phase = "off" /\ active = TRUE
  /\ wm = Upto(0) /\ queue = <<>> /\ held = {}
  /\ asked = "no" /\ reading = "no" /\ answer = "none"
  /\ faults = 0 /\ pauses = 0
  /\ own = <<>> /\ given = {} /\ dropped = {}

(* The process takes its next step when what was answered is handled.      *)
Up == phase = "up" /\ answer = "none"

(* An entry is handed to the stream that waits for it.                     *)
Give(i) ==
  /\ own' = Append(own, i)
  /\ given' = given \cup {i}
  /\ asked' = "no"
  /\ UNCHANGED dropped

(* A queue that is read at its other end.                                  *)
GiveLast ==
  /\ queue # <<>>
  /\ Give(Last(queue))
  /\ queue' = Front(queue)

GiveFirst ==
  /\ queue # <<>>
  /\ Give(Head(queue))
  /\ queue' = Tail(queue)

Store(who) == calls' = WithSave(calls, wm', who, proc)
NoStore == UNCHANGED storeVars
Fault == faults < bound.faults /\ faults' = faults + 1

(***************************************************************************)
(* Steps of every input                                                    *)
(***************************************************************************)

Arrive ==
  /\ avail < bound.items
  /\ avail' = avail + 1
  /\ UNCHANGED <<storeVars, lifeVars, pauseVars, wm, queue, held, asked,
                 reading, answer, faults, histVars>>

(* A process starts; configure() asks for the watermark.                   *)
Configure ==
  /\ phase = "off" /\ proc < bound.starts
  /\ proc' = proc + 1 /\ phase' = "get"
  /\ calls' = WithGet(calls, "configure", proc')
  /\ own' = <<>>
  /\ UNCHANGED <<db, kind, bound, avail, pauseVars, wm, queue, held, asked, reading,
                 answer, faults, given, dropped>>

(* The store does a step of one of its calls.  get() gives the watermark   *)
(* to configure(), which some inputs then save.                            *)
ServeGet(k, saves) ==
  \/ /\ GetMisses(k) \/ Create(k)
     /\ UNCHANGED <<phase, wm>>
  \/ /\ calls[k].proc # proc \/ phase # "get"
     /\ GetHits(k)
     /\ UNCHANGED <<phase, wm>>
  \/ /\ calls[k].proc = proc /\ phase = "get"
     /\ calls[k].cmd = "get" /\ db # Missing
     /\ wm' = db
     /\ phase' = IF saves THEN "save" ELSE "start"
     /\ calls' = IF saves THEN WithSave(Without(k), db, "configure", proc)
                 ELSE Without(k)
     /\ UNCHANGED db

ServeStore(saves) ==
  /\ answer = "none"
  /\ \E k \in DOMAIN calls :
       \/ ServeGet(k, saves) /\ UNCHANGED answer
       \/ /\ Save(k)
          /\ answer' = IF calls[k].proc = proc /\ phase # "off"
                       THEN calls[k].who ELSE "none"
          /\ UNCHANGED <<phase, wm>>
  /\ UNCHANGED <<kind, bound, proc, avail, pauseVars, queue, held, asked, reading,
                 faults, histVars>>

(* configure() calls back: NSyslog starts the input.                       *)
Configured ==
  /\ answer = "configure" /\ phase = "save"
  /\ answer' = "none" /\ phase' = "start"
  /\ UNCHANGED <<storeVars, kind, bound, proc, avail, pauseVars, wm, queue, held,
                 asked, reading, faults, histVars>>

(* The save that pause() or stop() waits for calls back; resume() comes    *)
(* after that.                                                             *)
CalledBack ==
  /\ answer \in {"pause", "stop"} /\ answer' = "none"
  /\ UNCHANGED <<storeVars, lifeVars, pauseVars, avail, wm, queue, held, asked,
                 reading, faults, histVars>>

MayResume ==
  /\ Up /\ ~active
  /\ \A k \in DOMAIN calls : calls[k].who # "pause" \/ calls[k].proc # proc

(* The stream of the wrapper asks for an entry.                            *)
Ask ==
  /\ Up /\ active /\ asked = "no" /\ reading # "first"
  /\ asked' = "loop"
  /\ UNCHANGED <<storeVars, lifeVars, pauseVars, avail, wm, queue, held,
                 reading, answer, faults, histVars>>

(* The process ends, by a crash or after stop(); the last one stays.       *)
Die ==
  /\ phase # "off" /\ proc < bound.starts
  /\ \E n \in 0..Len(calls) : calls' = Surviving(n)
  /\ dropped' = dropped \cup Range(queue) \cup held
  /\ phase' = "off" /\ active' = TRUE
  /\ wm' = Upto(0) /\ queue' = <<>> /\ held' = {}
  /\ asked' = "no" /\ reading' = "no" /\ answer' = "none"
  /\ UNCHANGED <<db, avail, kind, bound, proc, pauses, faults, own, given>>
=============================================================================
