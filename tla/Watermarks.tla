----------------------------- MODULE Watermarks -----------------------------
(***************************************************************************)
(* The store of watermarks (lib/watermark.js): a LevelDB that belongs to   *)
(* the master process; the other processes ask it by messages.  One key is *)
(* modelled, the id of an input.  Every operation of the store takes a     *)
(* while and others run in the meantime; the writes of one process are     *)
(* done in the order they were asked for.  A value is a copy from the      *)
(* moment of the call, since it is serialised there.                       *)
(***************************************************************************)
EXTENDS Naturals, Sequences

CONSTANTS Values,      \* what is stored
          Placeholder, \* {_id:id}, what create() stores
          Missing,     \* what is under a key that was never stored
          Callers      \* who in a process waits for an answer

ASSUME StoreAssumption == Placeholder \in Values /\ Missing \notin Values

VARIABLES db,    \* the value under the key, or Missing
          calls  \* operations that are not answered yet, oldest first

storeVars == <<db, calls>>

Call == [cmd : {"get", "create", "save"}, val : Values,
         who : Callers, proc : Nat]

StoreTypeOK == db \in Values \cup {Missing} /\ calls \in Seq(Call)

StoreInit == db = Missing /\ calls = <<>>

(* The calls after one more, as ChildDB.send and MasterDB make it.         *)
With(cs, cmd, val, who, proc) ==
  Append(cs, [cmd |-> cmd, val |-> val, who |-> who, proc |-> proc])

WithSave(cs, val, who, proc) == With(cs, "save", val, who, proc)
WithGet(cs, who, proc) == With(cs, "get", Placeholder, who, proc)

(* Saves of one process keep their order.                                  *)
Ready(k) ==
  \/ calls[k].cmd # "save"
  \/ \A j \in 1..k - 1 : calls[j].cmd # "save" \/ calls[j].proc # calls[k].proc

Without(k) == SubSeq(calls, 1, k - 1) \o SubSeq(calls, k + 1, Len(calls))

(* get() of a key that is not there goes on with create().                 *)
GetMisses(k) ==
  /\ calls[k].cmd = "get" /\ db = Missing
  /\ calls' = [calls EXCEPT ![k].cmd = "create"]
  /\ UNCHANGED db

(* create() stores the placeholder, whatever is there, and gets it again.  *)
Create(k) ==
  /\ calls[k].cmd = "create"
  /\ db' = Placeholder
  /\ calls' = [calls EXCEPT ![k].cmd = "get"]

(* get() of a key that is there is answered with db.                       *)
GetHits(k) ==
  /\ calls[k].cmd = "get" /\ db # Missing
  /\ calls' = Without(k)
  /\ UNCHANGED db

Save(k) ==
  /\ calls[k].cmd = "save" /\ Ready(k)
  /\ db' = calls[k].val
  /\ calls' = Without(k)

(* A process that dies: a first part of what it asked for reaches the      *)
(* store, the rest is lost, and nobody waits for an answer.                *)
Surviving(n) == SubSeq(calls, 1, n)
=============================================================================
