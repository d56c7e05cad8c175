------------------------------- MODULE Listener -------------------------------
(***************************************************************************)
(* What the inputs that are sent something have in common: they are        *)
(* started, paused, resumed and stopped by NSyslog, and call back with     *)
(* entries.  The modules that extend this one say what each does when      *)
(* something comes.                                                        *)
(***************************************************************************)
EXTENDS Integers, Sequences, FiniteSets, SequencesExt

CONSTANT Worlds  \* which input, and how often each thing may happen

VARIABLES bound,   \* the world it is in
          phase,   \* off, starting, up, stopped
          paused,  \* pause() was called last, not resume()
          pauses,  \* calls of pause()
          faults   \* errors of the network so far

lifeVars == <<bound, phase, paused, pauses, faults>>

ASSUME WorldsAssumption ==
  \A w \in Worlds : {w.pauses, w.faults} \subseteq Nat

LifeTypeOK ==
  /\ bound \in Worlds /\ paused \in BOOLEAN
  /\ phase \in {"off", "starting", "up", "stopped"}
  /\ pauses \in 0..bound.pauses /\ faults \in 0..bound.faults

LifeInit ==
  /\ bound \in Worlds /\ phase = "off" /\ paused = FALSE
  /\ pauses = 0 /\ faults = 0

Is(kinds) == bound.kind \in kinds

Fault == faults < bound.faults /\ faults' = faults + 1

Starts(next) ==
  /\ phase = "off" /\ phase' = next
  /\ UNCHANGED <<bound, paused, pauses, faults>>

(* An awaited call of start() is over.                                     *)
Started ==
  /\ phase = "starting" /\ phase' = "up"
  /\ UNCHANGED <<bound, paused, pauses, faults>>

Stops ==
  /\ phase \in {"starting", "up"} /\ phase' = "stopped"
  /\ UNCHANGED <<bound, paused, pauses, faults>>

(* "pause" and "resume" on the command line of nsyslog, in any order.      *)
Pauses ==
  /\ phase \in {"starting", "up"} /\ pauses < bound.pauses
  /\ paused' = TRUE /\ pauses' = pauses + 1
  /\ UNCHANGED <<bound, phase, faults>>

Resumes ==
  /\ phase \in {"starting", "up"} /\ paused' = FALSE
  /\ UNCHANGED <<bound, phase, pauses, faults>>
=============================================================================
