------------------------------ MODULE FlowSplit ------------------------------
(***************************************************************************)
(* How a configuration is read and split (lib/config/index.js): the tree   *)
(* of flows is flattened, the forks are resolved in passes over the flows, *)
(* each flow is given to a process, and the processes are forked, which    *)
(* read what they are given in the same way.                               *)
(***************************************************************************)
EXTENDS Integers, Sequences, FiniteSets

CONSTANT Configs  \* sequences of flows, those of a tree in preorder

(* What `fork` of a flow may be: false, true, the name of a flow, for which *)
(* its position stands, or another text.                                    *)
NoFork == 0
Fork == -1
Text == -2

(* up: the flow that it is nested in, 0 if none.                           *)
ASSUME ConfigsAssumption ==
  \A c \in Configs : \A i \in DOMAIN c :
    /\ c[i].up \in 0..(i - 1) /\ c[i].disabled \in BOOLEAN
    /\ c[i].fork \in {NoFork, Fork, Text} \cup DOMAIN c

VARIABLES config,   \* the member of Configs
          reader,   \* the process that reads it: Master, or the main flow of
                    \* a child
          phase,    \* resolving, split, children, runs, failed; unused
          flows,    \* by flow: fork, fparent and disabled, as they are now
          flowmap,  \* flows that others may be attached to
          position, \* of forEach() in the flows that are active at first
          dirty,    \* the pass has changed something
          owner     \* by flow: the process that split() gives it to

splitVars == <<config, reader, phase, flows, flowmap, position, dirty, owner>>

Master == 0
Flat == DOMAIN config
Links(f) == f.fork \notin {NoFork, Fork}

(* Nested flows are attached to the flow around them, disabled or not.     *)
Flattened(c) ==
  LET flat[i \in DOMAIN c] ==
        [fork |-> IF c[i].up = 0 THEN c[i].fork ELSE c[i].up,
         disabled |-> IF c[i].up = 0 THEN c[i].disabled ELSE flat[c[i].up].disabled,
         fparent |-> 0]
  IN flat

Top(i) == LET top[k \in Flat] == IF config[k].up = 0 THEN k ELSE top[config[k].up] IN top[i]

(* The flows of process p, by which split() prunes its configuration: the  *)
(* inputs attached to them, their processors and their transporters are    *)
(* what is left in it; and, of the tree, the flows at the top among them.  *)
Keeps(p) == {i \in Flat : owner[i] = p}
TopFlows(p) == {i \in Keeps(p) : config[i].up = 0}
Mine == IF reader = Master THEN Flat ELSE {i \in Flat : Top(i) \in TopFlows(reader)}

Active(c) == {i \in DOMAIN c : ~Flattened(c)[i].disabled}
Reads(p, c, known) ==
  /\ reader' = p /\ phase' = "resolving"
  /\ flows' = Flattened(c) /\ flowmap' = Active(c) \cap known
  /\ position' = 1 /\ dirty' = FALSE

SplitInit(c, begin) ==
  /\ config = c /\ reader = Master /\ phase = begin
  /\ flows = Flattened(config) /\ flowmap = Active(config)
  /\ position = 1 /\ dirty = FALSE /\ owner = [i \in Flat |-> Master]

(* One flow of a pass: it gets what the flow has that it is attached to, as *)
(* it is by now.                                                           *)
Itself(i) == flows[i].fork
ParentFork(i) == flows[flows[i].fork].fork
Attach ==
  LET i == position
      attached == i \in Active(config) \cap Mine /\ Links(flows[i])
  IN /\ phase = "resolving" /\ i \in Flat /\ position' = i + 1
     /\ dirty' = (dirty \/ attached)
     /\ flows' = IF ~attached THEN flows
                 ELSE IF flows[i].fork \notin flowmap THEN [flows EXCEPT ![i].disabled = TRUE]
                 ELSE [flows EXCEPT ![i].fparent = flows[i].fork, ![i].fork = ParentFork(i)]
     /\ flowmap' = IF attached /\ flows[i].fork \notin flowmap THEN flowmap \ {i} ELSE flowmap
     /\ UNCHANGED <<config, reader, phase, owner>>

(* Another pass if this one has changed something.                         *)
EndPass ==
  /\ phase = "resolving" /\ position \notin Flat
  /\ IF dirty THEN position' = 1 /\ dirty' = FALSE /\ UNCHANGED phase
     ELSE phase' = (IF reader = Master THEN "split" ELSE "runs") /\ UNCHANGED <<position, dirty>>
  /\ UNCHANGED <<config, reader, flows, flowmap, owner>>

(* split(): disabled flows are given to a process too.                     *)
OwnProcess(i) == IF flows[i].fork = NoFork THEN Master ELSE i
Owner(i) ==
  CASE flows[i].fork = NoFork -> Master
    [] flows[i].fork # NoFork /\ flows[i].fparent = 0 -> i
    [] OTHER -> flows[i].fparent
Split ==
  /\ phase = "split" /\ reader = Master
  /\ owner' = [i \in Flat |-> Owner(i)]
  /\ phase' = "children"
  /\ UNCHANGED <<config, reader, flows, flowmap, position, dirty>>

(* startChildren(): each process is forked with the flow of its name, which *)
(* is looked for among the flows at the top; without it an error leaves all *)
(* forked flows unconnected.                                               *)
Processes == {owner[i] : i \in Flat} \ {Master}
StartChildren ==
  /\ phase = "children"
  /\ phase' = IF \A p \in Processes : p \in TopFlows(p) THEN "runs" ELSE "failed"
  /\ UNCHANGED <<config, reader, flows, flowmap, position, dirty, owner>>

(* One of the children reads its flows, of the tree as it was.             *)
StartWorker ==
  /\ phase = "runs" /\ reader = Master
  /\ \E p \in Processes : Reads(p, config, {i \in Flat : Top(i) \in TopFlows(p)})
  /\ UNCHANGED <<config, owner>>

SplitNext == Attach \/ EndPass \/ Split \/ StartChildren \/ StartWorker
SplitFairness == WF_splitVars(Attach \/ EndPass \/ Split \/ StartChildren)

SplitTypeOK ==
  /\ config \in Configs \cup {<<>>} /\ reader \in {Master} \cup Flat
  /\ phase \in {"unused", "resolving", "split", "children", "runs", "failed"}
  /\ flows \in [Flat -> [fork : {NoFork, Fork, Text} \cup Flat, fparent : {0} \cup Flat,
                         disabled : BOOLEAN]]
  /\ flowmap \subseteq Flat /\ position \in 1..(Len(config) + 1) /\ dirty \in BOOLEAN
  /\ owner \in [Flat -> {Master} \cup Flat]
-----------------------------------------------------------------------------
(* Where a flow belongs: what the flow at the end of its links has.        *)
FlatFork(i) == Flattened(config)[i].fork
Linked(i) == FlatFork(i) \notin {NoFork, Fork}
After(i, n) == LET at[k \in 0..n] ==
                     IF k = 0 THEN i
                     ELSE IF at[k - 1] \in Flat /\ Linked(at[k - 1]) THEN FlatFork(at[k - 1]) ELSE at[k - 1]
               IN at[n]
End(i) == After(i, Len(config))
Resolves(i) ==
  /\ \A n \in 0..Len(config) : After(i, n) \in Active(config)
  /\ ~Linked(End(i))
Belongs(i) == IF FlatFork(End(i)) = Fork THEN End(i) ELSE Master

(* Flows below a nested or attached flow of a process, or below a disabled *)
(* one, for which a process is looked for that nothing can be found for.   *)
Deep == \E i \in Flat : Linked(i) /\ After(i, 2) # After(i, 1)
DisabledTree == \E i \in Flat : config[i].up # 0 /\ i \notin Active(config)

(* Every flow runs in the process that the end of its links names, and in  *)
(* no other, and the configuration of that process keeps what it needs     *)
(* (config/index.js:406-428, 645-747; nsyslog/index.js:115-145).           *)
RunsWithItsRoot ==
  /\ phase = "failed" => Deep \/ DisabledTree
  /\ phase = "runs" =>
       {i \in Mine : ~flows[i].disabled /\ (reader = Master => i \in Keeps(Master))}
         = {i \in Flat : Resolves(i) /\ Belongs(i) = reader}
  /\ phase = "runs" =>
       /\ \A i \in Active(config) : Resolves(i) => i \in Keeps(Belongs(i))
       /\ {Belongs(i) : i \in Active(config)} \subseteq Processes \cup {Master}

(* The passes come to an end, in any order of the flows.  (Not if a flow   *)
(* is attached to one that is not there or disabled, or to itself.)        *)
ForksResolved ==
  \/ \E i \in Active(config) : ~Resolves(i)
  \/ <>(phase \in {"runs", "failed", "unused"})
=============================================================================
