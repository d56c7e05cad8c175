------------------------------ MODULE MCEngine ------------------------------
(***************************************************************************)
(* An instance of Engine for TLC: two pull inputs, a push input, a flow f  *)
(* that may reemit, to g or to the inputs, and a flow g; or all            *)
(* configurations of three flows, nested or attached in any order.         *)
(***************************************************************************)
EXTENDS Engine, TLC

MCFrom == ("f" :> {"p1", "push"}) @@ ("g" :> {"p1", "p2"})

World(to, when, room, p1, p2, push, mostPauses, mayStop) ==
  [route |-> ("f" :> to) @@ ("g" :> ToNone),
   when |-> ("f" :> {ToNone}) @@ ("g" :> when),
   room |-> room, most |-> ("p1" :> p1) @@ ("p2" :> p2) @@ ("push" :> push),
   pauses |-> mostPauses, stops |-> mayStop]

(* Enough entries of one input to fill every stream on their way and, with *)
(* fewer entries, several inputs and reemission, to a flow that takes what *)
(* is reemitted, or does not and has not filtered yet what comes.          *)
MCWorlds ==
  {World(ToNone, {ToNone}, 1, 10, 0, 0, 1, FALSE),
   World("g", {ToNone, "g"}, 1, 2, 1, 1, 1, FALSE),
   World(ToInputs, {ToNone, ToInputs}, 1, 2, 0, 2, 1, TRUE),
   World(ToInputs, {ToNone}, 2, 5, 0, 0, 0, TRUE)}

Flow == [up : 0..2, fork : {NoFork, Fork, Text, 1, 2, 3}, disabled : BOOLEAN]
Preorder(c) == c[1].up = 0 /\ c[2].up < 2 /\ (c[3].up = 1 => c[2].up = 1)
MCConfigs ==
  {c \in [1..3 -> Flow] :
    Preorder(c) /\ \A i \in 1..3 : c[i].up # 0 => c[i].fork = NoFork /\ ~c[i].disabled}
=============================================================================
