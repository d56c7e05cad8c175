------------------------------ MODULE MCProcessors ------------------------------
(***************************************************************************)
(* The processors that do not answer a call of process() before the next   *)
(* may come: one with workers, or one that keeps entries.  Their instance   *)
(* for TLC: two workers and two entries, with one worker that ends or two  *)
(* ends; or a processor that keeps entries, of two keys.                   *)
(***************************************************************************)
EXTENDS Multilang, BufferingProcessors

vars == <<workersVars, bufferVars>>

Init ==
  \/ WorkersInit("off") /\ BufferInit(Unused)
  \/ /\ WorkersInit("unused") /\ bound = CHOOSE w \in Worlds : TRUE
     /\ \E b \in Buffers : BufferInit(b)
Next ==
  \/ WorkersNext /\ UNCHANGED bufferVars
  \/ BufferNext /\ UNCHANGED workersVars
Spec == Init /\ [][Next]_vars /\ WorkersFairness /\ BufferFairness

TypeOK == WorkersTypeOK /\ BufferTypeOK
-----------------------------------------------------------------------------
World(exit, times, codes, stop, module, group, callbacks) ==
  [exits |-> exit, emits |-> times, codes |-> codes, stop |-> stop, module |-> module,
   group |-> group, callbacks |-> callbacks]
MCWorlds ==
  {World(1, 1, {1}, FALSE, FALSE, TRUE, {1}), World(0, 2, {1}, TRUE, TRUE, FALSE, {1}),
   World(0, 2, {1}, FALSE, FALSE, TRUE, {1}), World(1, 0, {1}, TRUE, FALSE, FALSE, {1}),
   World(2, 0, {0, 1}, FALSE, FALSE, TRUE, {1}), World(0, 1, {1}, FALSE, FALSE, TRUE, {0})}
MCGroup == <<"a", "a">>

Buffer(kind, pending, max, limit, first, timed, stop) ==
  [kind |-> kind, pending |-> pending, max |-> max, limit |-> limit, first |-> first,
   timed |-> timed, stop |-> stop]
MCBuffers ==
  {Buffer("joiner", 1, 2, 9, FALSE, TRUE, FALSE),
   Buffer("throttle", 2, 1, 9, FALSE, TRUE, TRUE), Buffer("throttle", 2, 1, 9, FALSE, TRUE, FALSE),
   Buffer("throttle", 2, 1, 9, FALSE, FALSE, FALSE),
   Buffer("array", 4, 2, 9, FALSE, TRUE, FALSE), Buffer("array", 3, 2, 9, FALSE, FALSE, FALSE),
   Buffer("filter", 1, 2, 0, FALSE, FALSE, FALSE), Buffer("filter", 1, 3, 0, TRUE, FALSE, FALSE),
   Buffer("filter", 2, 2, 9, TRUE, TRUE, FALSE), Buffer("filter", 2, 2, 9, FALSE, TRUE, FALSE),
   Buffer("filter", 2, 3, 0, TRUE, TRUE, TRUE), Buffer("filter", 3, 2, 9, FALSE, TRUE, TRUE)}
MCKeyOf == <<"k", "l", "k", "k", "l">>
=============================================================================
