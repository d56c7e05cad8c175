-------------------------------- MODULE Engine --------------------------------
(***************************************************************************)
(* What a process of nsyslog does with its flows: it reads and splits the  *)
(* configuration, and once started, entries go through the graph of the    *)
(* streams of its flows.                                                   *)
(***************************************************************************)
EXTENDS FlowSplit, FlowGraph

vars == <<splitVars, graphVars>>

Init ==
  \/ SplitInit(<<>>, "unused") /\ GraphInit
  \/ /\ \E c \in Configs : SplitInit(c, "resolving")
     /\ GraphInit /\ world = CHOOSE w \in Worlds : TRUE
Next ==
  \/ phase = "unused" /\ GraphNext /\ UNCHANGED splitVars
  \/ SplitNext /\ UNCHANGED graphVars
Spec == Init /\ [][Next]_vars /\ SplitFairness /\ GraphFairness
=============================================================================
