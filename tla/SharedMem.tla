----------------------------- MODULE SharedMem -----------------------------
(***************************************************************************)
(* The shared memory of lib/shm.js: every process keeps a copy of SHM, the *)
(* master applies and passes on what the others write.                     *)
(*                                                                         *)
(* A parent of SHM holds either values, written by set and hset, or lists, *)
(* written by hpush: in the program SHM.global and SHM.flows.              *)
(* A write carries a value of its own, so that copies can be compared.     *)
(* Channels between the master and a child are FIFO; what a child sent     *)
(* before it died still arrives.  publish keeps nothing and is left out.   *)
(***************************************************************************)
EXTENDS Naturals, Sequences, Functions

CONSTANTS Master, Slaves,    \* processes; a child is forked once
          Keys,              \* keys that hold a value
          Parents,           \* parents of such keys, each the set of its keys
          Lists,             \* keys that hold a list
          Writers,           \* Writers[k]: the processes that write key k
          MaxWrites,         \* bound: writes of all processes
          MaxDeaths          \* bound: children that die

Procs == Slaves \cup {Master}

ASSUME ProcsAssumption == Master \notin Slaves
ASSUME ParentsAssumption == Parents \subseteq SUBSET Keys
ASSUME WritersAssumption == Writers \in [Keys -> SUBSET Procs]
ASSUME ShmBoundsAssumption == MaxWrites \in Nat /\ MaxDeaths \in Nat

VARIABLES life,      \* where each child stands
          listeners, \* children the master sends the writes of others to
          vals,      \* SHM of each process: the values
          lists,     \* SHM of each process: the lists
          up,        \* channel of each child to the master
          down,      \* channel of the master to each child
          writes,    \* how many writes were made
          deaths     \* how many children died

shmVars == <<life, listeners, vals, lists, up, down, writes, deaths>>

Values == 0..MaxWrites   \* the n-th write stores n; 0: undefined

(* set replaces a parent and with it every key, hset writes one.           *)
Set(P, v) == [cmd |-> "set", keys |-> P, val |-> v]
HSet(k, v) == [cmd |-> "hset", keys |-> {k}, val |-> v]
HPush(l, v) == [cmd |-> "hpush", list |-> l, val |-> v]
Subscribe == [cmd |-> "subscribe"]
(* The answer, which has cmd "subscribe" too in the code.                  *)
Snapshot == [cmd |-> "snapshot", vals |-> vals[Master], lists |-> lists[Master]]

Assigns == [cmd : {"set", "hset"}, keys : SUBSET Keys, val : Values]
Pushes == [cmd : {"hpush"}, list : Lists, val : Values]
Writes == Assigns \cup Pushes
Snapshots == [cmd : {"snapshot"}, vals : [Keys -> Values],
              lists : [Lists -> Seq(Values)]]

ToMaster == Writes \cup {Subscribe}
ToChild == Writes \cup Snapshots

ShmTypeOK ==
  /\ life \in [Slaves -> {"new", "joining", "up", "dead"}]
  /\ listeners \in SUBSET Slaves
  /\ vals \in [Procs -> [Keys -> Values]]
  /\ lists \in [Procs -> [Lists -> Seq(Values)]]
  /\ up \in [Slaves -> Seq(ToMaster)]
  /\ down \in [Slaves -> Seq(ToChild)]
  /\ writes \in 0..MaxWrites
  /\ deaths \in Nat

ShmInit ==
  /\ life = [c \in Slaves |-> "new"]
  /\ listeners = {}
  /\ vals = [p \in Procs |-> [k \in Keys |-> 0]]
  /\ lists = [p \in Procs |-> [l \in Lists |-> <<>>]]
  /\ up = [c \in Slaves |-> <<>>]
  /\ down = [c \in Slaves |-> <<>>]
  /\ writes = 0 /\ deaths = 0

Alive(c) == life[c] \in {"joining", "up"}

(***************************************************************************)
(* Operations.                                                             *)
(***************************************************************************)

(* shm.set, shm.hset and shm.hpush of process p.                           *)
Apply(p, m) ==
  IF m.cmd = "hpush"
  THEN /\ lists' = [lists EXCEPT ![p][m.list] = Append(@, m.val)]
       /\ UNCHANGED vals
  ELSE /\ vals' = [vals EXCEPT ![p] =
                     [k \in Keys |-> IF k \in m.keys THEN m.val ELSE vals[p][k]]]
       /\ UNCHANGED lists

(* send() without the test of the pid: the origin gets its write back.     *)
ForwardToAll(m, origin) ==
  /\ down' = [c \in Slaves |-> IF c \in listeners /\ Alive(c)
                               THEN Append(down[c], m) ELSE down[c]]
  /\ UNCHANGED listeners

(* send: to every listener but the origin.  A send to a process that has   *)
(* died is lost, or fails and removes the listener.                        *)
Forward(m, origin) ==
  LET targets == listeners \ {origin}
  IN /\ down' = [c \in Slaves |-> IF c \in targets /\ Alive(c)
                                  THEN Append(down[c], m) ELSE down[c]]
     /\ \E failed \in SUBSET {c \in targets : ~Alive(c)} :
          listeners' = listeners \ failed

(* What process p may write next: its keys, and any list.                  *)
OwnKeys(p) == {k \in Keys : p \in Writers[k]}
NewWrites(p) == {Set(P, writes + 1) : P \in {Q \in Parents : Q \subseteq OwnKeys(p)}}
                  \cup {HSet(k, writes + 1) : k \in OwnKeys(p)}
                  \cup {HPush(l, writes + 1) : l \in Lists}

(* new Slave(): a child subscribes as it loads the module.                 *)
Fork(c) ==
  /\ life[c] = "new"
  /\ life' = [life EXCEPT ![c] = "joining"]
  /\ up' = [up EXCEPT ![c] = Append(@, Subscribe)]
  /\ UNCHANGED <<listeners, vals, lists, down, writes, deaths>>

MasterWrite(m) ==
  /\ writes < MaxWrites
  /\ writes' = writes + 1
  /\ Apply(Master, m)
  /\ Forward(m, Master)
  /\ UNCHANGED <<life, up, deaths>>

(* A worker writes once it has been started, and the master sends the      *)
(* start after it has seen "online", thus after the subscription.          *)
ChildWrite(c, m) ==
  /\ writes < MaxWrites
  /\ life[c] = "up"
  /\ writes' = writes + 1
  /\ Apply(c, m)
  /\ up' = [up EXCEPT ![c] = Append(@, m)]
  /\ UNCHANGED <<life, listeners, down, deaths>>

(* The master's handler: a subscriber gets the memory as it is, and is     *)
(* listed even when the answer does not reach it.                          *)
MasterSubscribe(c) ==
  /\ up[c] # <<>> /\ Head(up[c]) = Subscribe
  /\ up' = [up EXCEPT ![c] = Tail(@)]
  /\ down' = IF Alive(c) THEN [down EXCEPT ![c] = Append(@, Snapshot)] ELSE down
  /\ listeners' = listeners \cup {c}
  /\ UNCHANGED <<life, vals, lists, writes, deaths>>

(* A master that does not pass on what it gets.                            *)
MasterKeeps(c) ==
  /\ up[c] # <<>> /\ Head(up[c]) # Subscribe
  /\ up' = [up EXCEPT ![c] = Tail(@)]
  /\ Apply(Master, Head(up[c]))
  /\ UNCHANGED <<life, listeners, down, writes, deaths>>

(* A master that drops what a process sent before it died.                 *)
MasterAppliesAlive(c) ==
  /\ up[c] # <<>> /\ Head(up[c]) # Subscribe /\ Alive(c)
  /\ up' = [up EXCEPT ![c] = Tail(@)]
  /\ Apply(Master, Head(up[c]))
  /\ Forward(Head(up[c]), c)
  /\ UNCHANGED <<life, writes, deaths>>

(* The master's handler: any other command is applied and passed on.       *)
MasterApply(c) ==
  /\ up[c] # <<>> /\ Head(up[c]) # Subscribe
  /\ up' = [up EXCEPT ![c] = Tail(@)]
  /\ Apply(Master, Head(up[c]))
  /\ Forward(Head(up[c]), c)
  /\ UNCHANGED <<life, writes, deaths>>

(* The child's handler: the first answer replaces its memory, which is     *)
(* empty until then.                                                       *)
ChildInit(c) ==
  /\ Alive(c) /\ down[c] # <<>> /\ Head(down[c]).cmd = "snapshot"
  /\ down' = [down EXCEPT ![c] = Tail(@)]
  /\ vals' = [vals EXCEPT ![c] = Head(down[c]).vals]
  /\ lists' = [lists EXCEPT ![c] = Head(down[c]).lists]
  /\ life' = [life EXCEPT ![c] = "up"]
  /\ UNCHANGED <<listeners, up, writes, deaths>>

ChildApply(c) ==
  /\ Alive(c) /\ down[c] # <<>> /\ Head(down[c]).cmd # "snapshot"
  /\ down' = [down EXCEPT ![c] = Tail(@)]
  /\ Apply(c, Head(down[c]))
  /\ UNCHANGED <<life, listeners, up, writes, deaths>>

(* A process dies: what it had not read is lost.                           *)
Dies(c) ==
  /\ Alive(c) /\ deaths < MaxDeaths
  /\ deaths' = deaths + 1
  /\ life' = [life EXCEPT ![c] = "dead"]
  /\ down' = [down EXCEPT ![c] = <<>>]
  /\ UNCHANGED <<listeners, vals, lists, up, writes>>

ShmNext ==
  \/ \E m \in NewWrites(Master) : MasterWrite(m)
  \/ \E c \in Slaves : \E m \in NewWrites(c) : ChildWrite(c, m)
  \/ \E c \in Slaves : \/ Fork(c) \/ MasterSubscribe(c) \/ MasterApply(c)
                       \/ ChildInit(c) \/ ChildApply(c) \/ Dies(c)

(* Messages are delivered and handled.                                     *)
ShmFairness ==
  \A c \in Slaves : /\ WF_shmVars(MasterSubscribe(c) \/ MasterApply(c))
                    /\ WF_shmVars(ChildInit(c) \/ ChildApply(c))

ShmSpec == ShmInit /\ [][ShmNext]_shmVars /\ ShmFairness

(***************************************************************************)
(* Properties.                                                             *)
(***************************************************************************)

(* A child whose subscription the master has handled.                      *)
Subscribed(c) == Alive(c) /\ c \in listeners

(* A child gets the memory once, before any write of another process, and  *)
(* sends nothing but its subscription until then (shm.js:116-121, 169-175).*)
InOrder(c) ==
  /\ life[c] = "new" => up[c] = <<>> /\ down[c] = <<>> /\ c \notin listeners
  /\ life[c] = "joining" =>
       \/ up[c] = <<Subscribe>> /\ down[c] = <<>> /\ c \notin listeners
       \/ /\ up[c] = <<>> /\ c \in listeners /\ down[c] # <<>>
          /\ \A i \in 1..Len(down[c]) : down[c][i].cmd = "snapshot" <=> i = 1
  /\ life[c] = "up" =>
       /\ c \in listeners
       /\ \A i \in 1..Len(up[c]) : up[c][i] # Subscribe
       /\ \A i \in 1..Len(down[c]) : down[c][i].cmd # "snapshot"
SnapshotFirst == \A c \in Slaves : InOrder(c)

Sets(m, k) == \/ m.cmd = "snapshot"
              \/ m.cmd \in {"set", "hset"} /\ k \in m.keys
Brings(m, k) == IF m.cmd = "snapshot" THEN m.vals[k] ELSE m.val

(* The copy that holds x under k holds v once it has applied channel q.    *)
EndsWith(q, k, x, v) ==
  \/ x = v /\ \A i \in 1..Len(q) : ~Sets(q[i], k)
  \/ \E i \in 1..Len(q) : /\ Sets(q[i], k) /\ Brings(q[i], k) = v
                          /\ \A j \in (i + 1)..Len(q) : ~Sets(q[j], k)

(* A child that does not write a key itself comes to hold what the master  *)
(* holds, whoever writes it and whenever the child joined; and the master  *)
(* comes to hold what the only writer of a key holds: a write is never     *)
(* overtaken by an older one (shm.js:98-108, 116-125).                     *)
ReadersCatchUp ==
  \A c \in Slaves, k \in Keys :
    Subscribed(c) /\ c \notin Writers[k]
      => EndsWith(down[c], k, vals[c][k], vals[Master][k])
OwnersPrevail ==
  \A c \in Slaves, k \in Keys :
    Writers[k] = {c} => EndsWith(up[c], k, vals[Master][k], vals[c][k])
CatchUp == ReadersCatchUp /\ OwnersPrevail

(* What a channel will add to a list.                                      *)
Adds(m, l) == CASE m.cmd = "snapshot" -> Range(m.lists[l])
                [] m.cmd = "hpush" /\ m.list = l -> {m.val}
                [] OTHER -> {}
Coming(q, l) == UNION {Adds(q[i], l) : i \in 1..Len(q)}
Has(p, l) == Range(lists[p][l])
Distinct(s) == \A i, j \in 1..Len(s) : s[i] = s[j] => i = j

(* A value pushed to a list reaches every copy exactly once: each copy,    *)
(* with what is on its way to it, is the list of the master, with what the *)
(* child has pushed (shm.js:72-78, 98-108, 143-146, 192-195).              *)
Accounted(c, l) ==
  Subscribed(c) =>
    /\ Has(c, l) \cup Coming(down[c], l) = Has(Master, l) \cup Coming(up[c], l)
    /\ Has(c, l) \cap Coming(down[c], l) = {}
ListsAccounted ==
  \A l \in Lists : /\ \A p \in Procs : Distinct(lists[p][l])
                   /\ \A c \in Slaves : Accounted(c, l)

(* What the properties above rest on.  A child sends writes to its own     *)
(* keys only, so nothing but its snapshot sets a key that it alone writes; *)
(* and a value is on its way to one list of one copy once.                 *)
OwnWrites ==
  \A c \in Slaves : \A i \in 1..Len(up[c]) : \A k \in Keys :
    Sets(up[c][i], k) => c \in Writers[k]
Undisturbed(q, k, v) ==
  \A i \in 1..Len(q) : Sets(q[i], k) => q[i].cmd = "snapshot" /\ Brings(q[i], k) = v
OwnersUndisturbed ==
  \A c \in Slaves, k \in Keys :
    Writers[k] = {c} => Undisturbed(down[c], k, vals[c][k])

AddsOnce(q, l) ==
  /\ \A i, j \in 1..Len(q) : i # j => Adds(q[i], l) \cap Adds(q[j], l) = {}
  /\ \A i \in 1..Len(q) : q[i].cmd = "snapshot" => Distinct(q[i].lists[l])
UpOnce(c, l) ==
  /\ AddsOnce(up[c], l)
  /\ Coming(up[c], l) \subseteq 1..writes
  /\ Has(Master, l) \cap Coming(up[c], l) = {}
  /\ \A d \in Slaves \ {c} : Coming(up[c], l) \cap Coming(up[d], l) = {}
PushedOnce ==
  \A l \in Lists :
    /\ \A p \in Procs : Has(p, l) \subseteq 1..writes
    /\ \A c \in Slaves :
         /\ UpOnce(c, l) /\ AddsOnce(down[c], l)
         /\ life[c] \in {"new", "joining"} => Has(c, l) = {}

(* The inductive invariant.                                                *)
ShmInv ==
  /\ ShmTypeOK /\ SnapshotFirst
  /\ OwnWrites /\ OwnersUndisturbed /\ CatchUp
  /\ ListsAccounted /\ PushedOnce

(* Again and again every live process holds all that any process pushed,   *)
(* even what was pushed by a process that has died meanwhile.              *)
PushesReachAll ==
  []<>(\A c \in Slaves, l \in Lists, p \in Procs :
         Alive(c) => Has(p, l) \subseteq Has(c, l))
=============================================================================
