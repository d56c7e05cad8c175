---------------------------- MODULE MCSharedMem ----------------------------
(***************************************************************************)
(* Instances of SharedMem for TLC: two children; a key of the master, one  *)
(* of a child, and one that both children write.                           *)
(***************************************************************************)
EXTENDS SharedMem, TLC

MCSlaves == {"c1", "c2"}
MCParents == {{"machine"}, {"own", "shared"}}
MCWriters == ("machine" :> {"master"}) @@ ("own" :> {"c1"}) @@ ("shared" :> {"c1", "c2"})
=============================================================================
