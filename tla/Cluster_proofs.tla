--------------------------- MODULE Cluster_proofs ---------------------------
(***************************************************************************)
(* Proofs about what the processes of a cluster do together: the forked    *)
(* flows (FlowFork), for any set of worlds (any numbers of workers, slots, *)
(* entries and processes, any modes, and any faults), and the memory that  *)
(* they share (SharedMem), for every set of children, keys and lists, any  *)
(* writers, and any number of writes and deaths.                           *)
(***************************************************************************)
EXTENDS FlowFork, SharedMem, Operators_proofs, WellFoundedInduction, TLAPS

(***************************************************************************)
(* Worlds and types.                                                       *)
(***************************************************************************)

LEMMA WorldFacts ==
  ASSUME world \in Worlds
  PROVE  /\ world.cores \in 1..MaxChildren /\ world.cores \in Nat \ {0}
         /\ world.hwm \in Nat \ {0} /\ world.entries \in 0..MaxEntries
         /\ world.modes \subseteq ModesOfFlows
         /\ Workers \subseteq Children /\ world.cores \in Workers /\ 1 \in Workers
         /\ IsFiniteSet(Workers)
<1>1. /\ world.cores \in 1..MaxChildren
      /\ world.hwm \in Nat \ {0} /\ world.entries \in 0..MaxEntries
      /\ world.modes \subseteq ModesOfFlows
  BY WorldsAssumption
<1>2. world.cores \in Nat \ {0}
  BY <1>1, BoundsAssumption
<1>3. Workers \subseteq Children /\ world.cores \in Workers /\ 1 \in Workers
  BY <1>1, <1>2, BoundsAssumption DEF Workers, Children
<1>4. IsFiniteSet(Workers)
  BY <1>2, FS_Interval DEF Workers
<1> QED
  BY <1>1, <1>2, <1>3, <1>4

(* The conjuncts of the type invariant as a list of facts.                 *)
LEMMA Types ==
  ASSUME TypeOK
  PROVE  /\ world \in Worlds /\ mode \in world.modes /\ mode \in ModesOfFlows
         /\ child \in [Workers -> Children] /\ forked \in 0..MaxChildren
         /\ proc \in [Children -> ProcState]
         /\ ready \subseteq Children /\ starters \subseteq Children
         /\ sem \in [Children -> SemaphoreOf(Entries)]
         /\ sends \subseteq Sending
         /\ writing \in 0..written /\ written \in 0..MaxEntries /\ written \in Nat
         /\ lidx \in Workers /\ restarts \in Nat /\ stopped \in BOOLEAN
         /\ inbox \in [Children -> Seq(Commands)]
         /\ msgs \in [Children -> Seq(Message)]
         /\ owed \in [Children -> Nat]
         /\ got \in [Children -> Seq(Entries)]
         /\ strays \subseteq Children
<1>1. mode \in ModesOfFlows
  BY WorldFacts DEF TypeOK
<1>2. written \in Nat
  BY BoundsAssumption DEF TypeOK
<1> QED
  BY <1>1, <1>2 DEF TypeOK

(***************************************************************************)
(* The worker with the fewest taken slots.                                 *)
(***************************************************************************)

(* A relation on a finite set that is transitive and irreflexive has a     *)
(* minimal element: one with a minimal set of elements below it.           *)
LEMMA MinimalElement ==
  ASSUME NEW S, IsFiniteSet(S), S # {}, NEW R,
         \A x, y, z \in S : <<x, y>> \in R /\ <<y, z>> \in R => <<x, z>> \in R,
         \A x \in S : <<x, x>> \notin R
  PROVE  \E x \in S : \A y \in S : <<y, x>> \notin R
<1> DEFINE below(x) == {y \in S : <<y, x>> \in R}
           all == {below(x) : x \in S}
<1>1. all # {} /\ all \subseteq FiniteSubsetsOf(S)
  <2>1. \A x \in S : below(x) \in SUBSET S
    OBVIOUS
  <2>2. \A x \in S : below(x) \in FiniteSubsetsOf(S)
    BY ZenonT(30), <2>1, FS_FiniteSubsetsOfFinite
  <2> HIDE DEF below
  <2> QED
    BY <2>2
<1>2. PICK low \in all : \A t \in all : ~(<<t, low>> \in StrictSubsetOrdering(S))
  <2> HIDE DEF all
  <2> QED
    BY <1>1, FS_StrictSubsetOrderingWellFounded, WFMin
<1>3. PICK x \in S : below(x) = low
  OBVIOUS
<1>4. ASSUME NEW y \in S, <<y, x>> \in R
      PROVE  FALSE
  <2>1. below(y) \subseteq below(x) /\ y \in below(x) /\ y \notin below(y)
    BY <1>4
  <2>2. below(y) \in SUBSET S /\ below(x) \in SUBSET S
    OBVIOUS
  <2>3. below(y) \in all
    OBVIOUS
  <2> HIDE DEF below, all
  <2>4. <<below(y), below(x)>> \in StrictSubsetOrdering(S)
    BY <2>1, <2>2 DEF StrictSubsetOrdering
  <2> QED
    BY <1>2, <1>3, <2>3, <2>4
<1> QED
  BY <1>4

LEMMA LeastLoadedType == TypeOK => LeastLoaded \in Workers
<1> SUFFICES ASSUME TypeOK PROVE LeastLoaded \in Workers
  OBVIOUS
<1> DEFINE cur(w) == sem[child[w]].cur
           less == {p \in Workers \X Workers :
                      cur(p[1]) < cur(p[2]) \/ (cur(p[1]) = cur(p[2]) /\ p[1] < p[2])}
<1>1. \A w \in Workers : cur(w) \in Int /\ w \in Int
  <2>1. ASSUME NEW w \in Workers PROVE cur(w) \in Int
    <3>1. child[w] \in Children
      BY Types
    <3>2. sem[child[w]] \in SemaphoreOf(Entries)
      BY <3>1, Types
    <3> QED
      BY <3>2 DEF SemaphoreOf
  <2>2. \A w \in Workers : w \in Int
    BY Types, WorldFacts DEF Workers
  <2> HIDE DEF cur
  <2> QED
    BY <2>1, <2>2
<1>2. IsFiniteSet(Workers) /\ Workers # {}
  BY Types, WorldFacts
<1> HIDE DEF cur
<1>3. \A v, w \in Workers : <<v, w>> \in less <=>
        cur(v) < cur(w) \/ (cur(v) = cur(w) /\ v < w)
  OBVIOUS
<1> HIDE DEF less
<1>4. \A x, y, z \in Workers :
        <<x, y>> \in less /\ <<y, z>> \in less => <<x, z>> \in less
  BY <1>1, <1>3
<1>5. \A x \in Workers : <<x, x>> \notin less
  BY <1>1, <1>3
<1>6. PICK w \in Workers : \A v \in Workers : <<v, w>> \notin less
  BY <1>2, <1>4, <1>5, MinimalElement
<1>7. \A v \in Workers : cur(w) < cur(v) \/ (cur(w) = cur(v) /\ w <= v)
  <2> SUFFICES ASSUME NEW v \in Workers
               PROVE  cur(w) < cur(v) \/ (cur(w) = cur(v) /\ w <= v)
    OBVIOUS
  <2>1. ~(cur(v) < cur(w) \/ (cur(v) = cur(w) /\ v < w))
    BY <1>3, <1>6
  <2>2. cur(v) \in Int /\ cur(w) \in Int /\ v \in Int /\ w \in Int
    BY <1>1
  <2> QED
    BY <2>1, <2>2
<1> QED
  BY <1>7 DEF LeastLoaded, cur

(* An entry is sent to some workers.                                       *)
LEMMA TargetsType ==
  ASSUME TypeOK, NEW T \in Targets
  PROVE  T \subseteq Workers /\ T # {}
<1>1. mode \in ModesOfFlows /\ lidx \in Workers /\ LeastLoaded \in Workers /\ Workers # {}
  BY Types, WorldFacts, LeastLoadedType
<1>2. CASE mode = "all"
  BY <1>1, <1>2 DEF Targets
<1>3. CASE mode = "expression"
  BY <1>1, <1>3 DEF Targets
<1>4. CASE mode = "balanced"
  BY <1>1, <1>4 DEF Targets
<1>5. CASE mode = "roundrobin"
  BY <1>1, <1>5 DEF Targets
<1> QED
  BY <1>1, <1>2, <1>3, <1>4, <1>5 DEF ModesOfFlows

(***************************************************************************)
(* Each step keeps the types.                                              *)
(***************************************************************************)

LEMMA InitTypes == Init => TypeOK /\ NoneForked
<1> SUFFICES ASSUME Init PROVE TypeOK /\ NoneForked
  OBVIOUS
<1>1. /\ world \in Worlds /\ mode \in world.modes
      /\ child = [w \in Workers |-> w] /\ forked = world.cores
      /\ proc = [c \in Children |-> IF c <= world.cores THEN "forked" ELSE "none"]
      /\ ready = {} /\ starters = Workers
      /\ sem = [c \in Children |-> Sem(world.hwm)]
      /\ sends = {} /\ writing = 0 /\ written = 0
      /\ lidx = 1 /\ restarts = 0 /\ stopped = FALSE
      /\ inbox = [c \in Children |-> <<>>]
      /\ msgs = [c \in Children |-> IF c <= world.cores THEN <<"online">> ELSE <<>>]
      /\ owed = [c \in Children |-> 0] /\ got = [c \in Children |-> <<>>]
      /\ strays = {}
  BY DEF Init
<1>2. child \in [Workers -> Children] /\ forked \in 0..MaxChildren
  BY <1>1, WorldFacts
<1>3. proc \in [Children -> ProcState]
  BY <1>1 DEF ProcState
<1>4. ready \subseteq Children /\ starters \subseteq Children /\ strays \subseteq Children
  BY <1>1, WorldFacts
<1>5. sem \in [Children -> SemaphoreOf(Entries)]
  <2>1. Sem(world.hwm) \in SemaphoreOf(Entries)
    BY <1>1, WorldFacts, EmptySeq DEF Sem, SemaphoreOf
  <2> QED
    BY <1>1, <2>1
<1>6. sends \subseteq Sending /\ writing \in 0..written /\ written \in 0..MaxEntries
  BY <1>1, BoundsAssumption
<1>7. lidx \in Workers /\ restarts \in Nat
  BY <1>1, WorldFacts
<1>8. stopped \in BOOLEAN
  BY <1>1
<1>9. inbox \in [Children -> Seq(Commands)]
  BY <1>1, EmptySeq
<1>10. msgs \in [Children -> Seq(Message)]
  <2>1. <<"online">> \in Seq(Message) /\ <<>> \in Seq(Message)
    BY DEF Message
  <2> QED
    BY <1>1, <2>1
<1>11. owed \in [Children -> Nat] /\ got \in [Children -> Seq(Entries)]
  BY <1>1, EmptySeq
<1>12. NoneForked
  BY <1>1, WorldFacts DEF NoneForked, Children
<1> QED
  BY <1>1, <1>2, <1>3, <1>4, <1>5, <1>6, <1>7, <1>8, <1>9, <1>10, <1>11, <1>12
     DEF TypeOK

(* child.send() and process.send()                                         *)
LEMMA PostType ==
  ASSUME TypeOK, NEW c \in Children, NEW what \in Commands,
         Post(c, what)
  PROVE  inbox' \in [Children -> Seq(Commands)]
<1>1. inbox \in [Children -> Seq(Commands)]
  BY Types
<1>2. CASE proc[c] \in Up
  <2>1. inbox' = [inbox EXCEPT ![c] = Append(inbox[c], what)]
    BY <1>2 DEF Post
  <2>2. what \in Commands
    OBVIOUS
  <2>3. Append(inbox[c], what) \in Seq(Commands)
    BY <1>1, <2>2
  <2>4. inbox' \in [Children -> Seq(Commands)]
    BY <1>1, <2>1, <2>3
  <2> QED
    BY <2>4
<1>3. CASE proc[c] \notin Up
  <2>1. inbox' = inbox
    BY <1>3 DEF Post
  <2> QED
    BY <2>1, <1>1
<1> QED
  BY <1>2, <1>3

LEMMA SayType ==
  ASSUME TypeOK, NEW c \in Children, NEW m \in Message, Say(c, m)
  PROVE  msgs' \in [Children -> Seq(Message)]
<1>1. msgs' = [msgs EXCEPT ![c] = Append(msgs[c], m)]
  BY DEF Say
<1>2. Append(msgs[c], m) \in Seq(Message)
  BY Types
<1> QED
  BY <1>1, <1>2, Types

(* sem.leave() of one child.                                               *)
LEMMA LeaveSemType ==
  ASSUME TypeOK, NEW c \in Children, LeaveSem(c)
  PROVE  /\ sem' \in [Children -> SemaphoreOf(Entries)]
         /\ sends' \subseteq Sending
<1>1. Leave(sem[c]) \in SemaphoreOf(Entries)
  BY Types, LeaveProperties
<1>2. sem' = [sem EXCEPT ![c] = Leave(sem[c])]
  BY DEF LeaveSem
<1>3. \A s \in Sending : [s EXCEPT !.held = TRUE] \in Sending
  BY DEF Sending
<1>4. sends' \subseteq Sending
  BY <1>3, Types DEF LeaveSem
<1> QED
  BY <1>1, <1>2, <1>4, Types

(* sem.take() of the children of some workers.                             *)
LEMMA AskSlotsType ==
  ASSUME TypeOK, NEW e \in Entries, NEW T \in Targets, AskSlots(e, T)
  PROVE  /\ sem' \in [Children -> SemaphoreOf(Entries)]
         /\ sends' \subseteq Sending
<1>1. \A c \in Children : Take(sem[c], e) \in SemaphoreOf(Entries)
  BY Types, TakeProperties
<1>2. sem' \in [Children -> SemaphoreOf(Entries)]
  BY <1>1, Types DEF AskSlots
<1>3. ASSUME NEW w \in T
      PROVE  [entry |-> e, w |-> w, c |-> child[w],
              held |-> Available(sem[child[w]])] \in Sending
  <2>1. w \in Workers /\ child[w] \in Children
    BY TargetsType, Types
  <2>2. Available(sem[child[w]]) \in BOOLEAN
    BY DEF Available
  <2> QED
    BY <2>1, <2>2 DEF Sending
<1>4. sends' \subseteq Sending
  BY <1>3, Types DEF AskSlots
<1> QED
  BY <1>2, <1>4

(* What the command of a sending, a start or a stop is.                    *)
LEMMA CommandTypes ==
  /\ \A e \in Entries : Command("emit", e) \in Commands
  /\ Command("start", 0) \in Commands /\ Command("stop", 0) \in Commands
  BY DEF Commands, Emits

LEMMA WriteTypes ==
  ASSUME TypeOK, NoneForked, NEW e \in Entries, Write(e)
  PROVE  TypeOK' /\ NoneForked'
<1>1. PICK T \in Targets : AskSlots(e, T)
  BY DEF Write
<1>2. sem' \in [Children -> SemaphoreOf(Entries)] /\ (sends' \subseteq Sending)
  BY <1>1, AskSlotsType
<1>3. /\ written' = e /\ writing' = e
      /\ lidx' = IF mode = "roundrobin" THEN (lidx % world.cores) + 1 ELSE lidx
      /\ UNCHANGED <<world, mode, child, forked, ready, starters, restarts, stopped,
                     proc, owed, got, inbox, msgs, strays>>
  BY DEF Write, workers
<1>4. e \in 0..MaxEntries /\ e \in 0..e
  BY BoundsAssumption DEF Entries
<1>5. lidx' \in Workers
  <2>1. world.cores \in Nat \ {0} /\ lidx \in 1..world.cores
    BY Types, WorldFacts DEF Workers
  <2>2. (lidx % world.cores) + 1 \in 1..world.cores
    BY <2>1
  <2> QED
    BY <1>3, <2>1, <2>2 DEF Workers
<1>6. Workers' = Workers /\ Sending' = Sending
  BY <1>3 DEF Workers, Sending
<1>7. TypeOK'
  <2>1. /\ sem' \in [Children -> SemaphoreOf(Entries)] /\ (sends \subseteq Sending)'
        /\ lidx' \in Workers' /\ child' \in [Workers' -> Children]
        /\ writing' \in 0..written' /\ written' \in 0..MaxEntries
    BY <1>2, <1>3, <1>4, <1>5, <1>6, Types
  <2> QED
    BY <2>1, <1>3 DEF TypeOK
<1>8. NoneForked'
  BY <1>3 DEF NoneForked
<1> QED
  BY <1>7, <1>8

LEMMA SendTypes ==
  ASSUME TypeOK, NoneForked, NEW s \in sends, Send(s)
  PROVE  TypeOK' /\ NoneForked'
<1>1. /\ sends' = sends \ {s}
      /\ Post(child[s.w], Command("emit", s.entry))
      /\ strays' = IF s.c = child[s.w] THEN strays ELSE strays \cup {child[s.w]}
      /\ UNCHANGED <<world, mode, child, forked, ready, starters, sem, writing, written,
                     lidx, restarts, stopped, proc, owed, got, msgs>>
  BY DEF Send, workers
<1>2. s \in Sending /\ s.w \in Workers /\ s.entry \in Entries
  BY Types DEF Sending
<1>3. child[s.w] \in Children
  BY <1>2, Types
<1>4. inbox' \in [Children -> Seq(Commands)]
  BY <1>1, <1>2, <1>3, CommandTypes, PostType
<1>5. (strays \subseteq Children)'
  BY <1>1, <1>3, Types
<1>6. Workers' = Workers /\ Sending' = Sending
  BY <1>1 DEF Workers, Sending
<1>7. (sends \subseteq Sending)'
  BY <1>1, <1>6, Types
<1>8. TypeOK'
  BY <1>1, <1>4, <1>5, <1>6, <1>7 DEF TypeOK
<1>9. NoneForked'
  BY <1>1 DEF NoneForked
<1> QED
  BY <1>8, <1>9

LEMMA EndWriteTypes ==
  ASSUME TypeOK, NoneForked, EndWrite
  PROVE  TypeOK' /\ NoneForked'
<1>1. /\ writing' = 0
      /\ UNCHANGED <<world, mode, child, forked, ready, starters, sem, sends, written,
                     lidx, restarts, stopped, proc, owed, got, inbox, msgs, strays>>
  BY DEF EndWrite, workers
<1>2. Workers' = Workers /\ Sending' = Sending
  BY <1>1 DEF Workers, Sending
<1>3. writing' \in 0..written'
  BY <1>1, Types
<1>4. TypeOK'
  BY <1>1, <1>2, <1>3 DEF TypeOK
<1>5. NoneForked'
  BY <1>1 DEF NoneForked
<1> QED
  BY <1>4, <1>5

LEMMA ReceiveTypes ==
  ASSUME TypeOK, NoneForked, NEW c \in Children, Receive(c)
  PROVE  TypeOK' /\ NoneForked'
<1>1. /\ msgs[c] # <<>> /\ msgs' = [msgs EXCEPT ![c] = Tail(msgs[c])]
      /\ UNCHANGED <<world, mode, child, forked, writing, written, lidx, restarts,
                     stopped, strays, proc, owed, got>>
  BY DEF Receive, workers
<1>2. Workers' = Workers /\ Sending' = Sending
  BY <1>1 DEF Workers, Sending
<1>3. msgs' \in [Children -> Seq(Message)]
  BY <1>1, Types
<1>4. /\ sem' \in [Children -> SemaphoreOf(Entries)]
      /\ sends' \subseteq Sending
      /\ (ready \subseteq Children)' /\ (starters \subseteq Children)'
      /\ inbox' \in [Children -> Seq(Commands)]
  <2>1. CASE c \in starters
    <3>1. HandleStart(c, Head(msgs[c]))
      BY <2>1 DEF Receive
    <3>2. UNCHANGED <<sem, sends>>
      BY <3>1 DEF HandleStart
    <3>3. (ready \subseteq Children)' /\ (starters \subseteq Children)'
      BY <3>1, Types DEF HandleStart
    <3>4. inbox' \in [Children -> Seq(Commands)]
      <4>1. CASE Head(msgs[c]) = "online"
        <5>1. Post(c, Command("start", 0))
          BY <3>1, <4>1 DEF HandleStart
        <5> QED
          BY <5>1, CommandTypes, PostType
      <4>2. CASE Head(msgs[c]) # "online"
        BY <3>1, <4>2, Types DEF HandleStart
      <4> QED
        BY <4>1, <4>2
    <3> QED
      BY <3>2, <3>3, <3>4, Types
  <2>2. CASE c \notin starters
    <3>1. HandleWorker(c, Head(msgs[c])) /\ UNCHANGED <<starters, ready, inbox>>
      BY <2>2 DEF Receive
    <3>2. LeaveSem(c) \/ UNCHANGED <<sem, sends>>
      BY <3>1 DEF HandleWorker
    <3>3. sem' \in [Children -> SemaphoreOf(Entries)] /\ (sends' \subseteq Sending)
      BY <3>2, LeaveSemType, Types
    <3> QED
      BY <3>1, <3>3, Types
  <2> QED
    BY <2>1, <2>2
<1>5. TypeOK'
  BY <1>1, <1>2, <1>3, <1>4 DEF TypeOK
<1>6. NoneForked'
  BY <1>1 DEF NoneForked
<1> QED
  BY <1>5, <1>6

(* A process that is there keeps its number when its life goes on.         *)
LEMMA ProcStep ==
  ASSUME TypeOK, NoneForked, NEW c \in Children, NEW v \in ProcState,
         proc[c] # "none", proc' = [proc EXCEPT ![c] = v], forked' = forked
  PROVE  proc' \in [Children -> ProcState] /\ NoneForked'
<1>1. ~(c > forked)
  BY DEF NoneForked
<1> QED
  BY <1>1, Types DEF NoneForked

LEMMA CloseTypes ==
  ASSUME TypeOK, NoneForked, NEW c \in Children, Close(c)
  PROVE  TypeOK' /\ NoneForked'
<1>1. /\ proc[c] = "dead" /\ proc' = [proc EXCEPT ![c] = "closed"]
      /\ restarts' = restarts + 1
      /\ UNCHANGED <<world, mode, child, forked, ready, starters, sem, sends, writing,
                     written, lidx, stopped, strays, owed, got, inbox, msgs>>
  BY DEF Close, SetTimer
<1>2. proc' \in [Children -> ProcState] /\ NoneForked'
  BY <1>1, ProcStep DEF ProcState
<1>3. Workers' = Workers /\ Sending' = Sending
  BY <1>1 DEF Workers, Sending
<1>4. restarts' \in Nat
  BY <1>1, Types
<1>5. TypeOK'
  BY <1>1, <1>2, <1>3, <1>4 DEF TypeOK
<1> QED
  BY <1>2, <1>5

LEMMA RestartTypes ==
  ASSUME TypeOK, NoneForked, Restart
  PROVE  TypeOK' /\ NoneForked'
<1> DEFINE w == RestartedWorker
           old == child[w]
           new == forked + 1
           rejected == Rejected(old)
<1>1. /\ restarts > 0 /\ new \in Children
      /\ restarts' = restarts - 1 /\ forked' = new
      /\ child' = [child EXCEPT ![w] = new]
      /\ sem' = [sem EXCEPT ![old] = Sem(world.hwm)]
      /\ sends' = sends \ rejected
      /\ writing' = IF writing \in {s.entry : s \in rejected} THEN 0 ELSE writing
      /\ proc' = [proc EXCEPT ![new] = "forked"]
      /\ starters' = starters \cup {new}
      /\ msgs' = [msgs EXCEPT ![new] = <<"online">>]
      /\ UNCHANGED <<world, mode, ready, written, lidx, stopped, strays, owed, got,
                     inbox>>
  BY DEF Restart
<1>2. w \in Workers
  BY Types, WorldFacts DEF RestartedWorker
<1>3. forked \in 0..MaxChildren /\ new \in 1..MaxChildren
  BY <1>1, Types DEF Children
<1> HIDE DEF w, new, rejected
<1>4. restarts' \in Nat /\ forked' \in 0..MaxChildren
  BY <1>1, <1>3, Types, BoundsAssumption
<1>5. child' \in [Workers -> Children]
  BY <1>1, Types
<1>6. Sem(world.hwm) \in SemaphoreOf(Entries)
  <2>1. world.hwm \in Nat
    BY Types, WorldFacts
  <2> QED
    BY <2>1, EmptySeq DEF Sem, SemaphoreOf
<1>7. sem' \in [Children -> SemaphoreOf(Entries)]
  BY <1>1, <1>6, Types
<1>8. Workers' = Workers /\ Sending' = Sending
  BY <1>1 DEF Workers, Sending
<1>9. (sends \subseteq Sending)' /\ (starters \subseteq Children)'
  BY <1>1, <1>8, Types
<1>10. writing' \in 0..written'
  BY <1>1, Types
<1>11. proc' \in [Children -> ProcState]
  BY <1>1, Types DEF ProcState
<1>12. msgs' \in [Children -> Seq(Message)]
  <2>1. <<"online">> \in Seq(Message)
    BY DEF Message
  <2> QED
    BY <1>1, <2>1, Types
<1>13. TypeOK'
  BY <1>1, <1>4, <1>5, <1>7, <1>8, <1>9, <1>10, <1>11, <1>12 DEF TypeOK
<1>14. NoneForked'
  <2>1. ASSUME NEW c \in Children, c > forked' PROVE proc'[c] = "none"
    <3>1. c > forked /\ c # new
      BY <1>1, <1>3, <2>1 DEF Children, new
    <3> QED
      BY <1>1, <3>1, Types DEF NoneForked
  <2> QED
    BY <2>1 DEF NoneForked
<1> QED
  BY <1>13, <1>14

LEMMA CloseForkTypes ==
  ASSUME TypeOK, NoneForked, CloseFork
  PROVE  TypeOK' /\ NoneForked'
<1>1. /\ stopped' = TRUE
      /\ inbox' = [c \in Children |->
                     IF proc[c] \in Up /\ \E w \in Workers : child[w] = c
                       THEN Append(inbox[c], Command("stop", 0)) ELSE inbox[c]]
      /\ UNCHANGED <<world, mode, child, forked, ready, starters, sem, sends, writing,
                     written, lidx, restarts, strays, proc, owed, got, msgs>>
  BY DEF CloseFork, workers
<1>2. \A c \in Children : /\ Append(inbox[c], Command("stop", 0)) \in Seq(Commands)
                          /\ inbox[c] \in Seq(Commands)
  BY Types, CommandTypes
<1>3. inbox' \in [Children -> Seq(Commands)]
  BY <1>1, <1>2
<1>4. Workers' = Workers /\ Sending' = Sending
  BY <1>1 DEF Workers, Sending
<1>5. stopped' \in BOOLEAN
  BY <1>1
<1>6. TypeOK'
  BY <1>1, <1>3, <1>4, <1>5 DEF TypeOK
<1>7. NoneForked'
  BY <1>1 DEF NoneForked
<1> QED
  BY <1>6, <1>7

(* The steps of a process leave the master alone.                          *)
LEMMA ProcessTypes ==
  ASSUME TypeOK, UNCHANGED master,
         proc' \in [Children -> ProcState], NoneForked',
         inbox' \in [Children -> Seq(Commands)],
         msgs' \in [Children -> Seq(Message)],
         owed' \in [Children -> Nat], got' \in [Children -> Seq(Entries)]
  PROVE  TypeOK' /\ NoneForked'
<1>1. UNCHANGED <<world, mode, child, forked, ready, starters, sem, sends, writing,
                  written, lidx, restarts, stopped, strays>>
  BY DEF master
<1>2. Workers' = Workers /\ Sending' = Sending
  BY <1>1 DEF Workers, Sending
<1> QED
  BY <1>1, <1>2 DEF TypeOK

(* What a process takes from its channel.                                  *)
LEMMA Taken ==
  ASSUME TypeOK, NEW c \in Children, inbox[c] # <<>>
  PROVE  /\ Head(inbox[c]) \in Commands /\ Tail(inbox[c]) \in Seq(Commands)
         /\ Head(inbox[c]).cmd = "emit" =>
              /\ Head(inbox[c]).entry \in Entries
              /\ Head(inbox[c]) = Command("emit", Head(inbox[c]).entry)
<1>1. inbox[c] \in Seq(Commands)
  BY Types
<1>2. Head(inbox[c]) \in Commands /\ Tail(inbox[c]) \in Seq(Commands)
  BY <1>1
<1>3. \A m \in Commands : m.cmd = "emit" =>
        m.entry \in Entries /\ m = Command("emit", m.entry)
  BY DEF Commands, Emits, Command
<1> QED
  BY <1>2, <1>3

LEMMA WorkerTakesTypes ==
  ASSUME TypeOK, NoneForked, NEW c \in Children, WorkerTakes(c)
  PROVE  TypeOK' /\ NoneForked'
<1>1. /\ proc[c] \in Up \ {"stopping"} /\ inbox[c] # <<>>
      /\ inbox' = [inbox EXCEPT ![c] = Tail(inbox[c])]
      /\ UNCHANGED master
  BY DEF WorkerTakes
<1>2. inbox' \in [Children -> Seq(Commands)]
  BY <1>1, Taken, Types
<1>3. forked' = forked /\ proc[c] # "none"
  BY <1>1 DEF master, Up
<1>4. CASE TakeStart(c)
  <2>1. proc' = [proc EXCEPT ![c] = "starting"] /\ UNCHANGED <<owed, got, msgs>>
    BY <1>4 DEF TakeStart
  <2>2. proc' \in [Children -> ProcState] /\ NoneForked'
    BY <1>3, <2>1, ProcStep DEF ProcState
  <2> QED
    BY <1>1, <1>2, <2>1, <2>2, Types, ProcessTypes
<1>5. CASE TakeStop(c)
  <2>1. Say(c, "success") /\ UNCHANGED <<owed, got>>
    BY <1>5 DEF TakeStop
  <2>2. msgs' \in [Children -> Seq(Message)]
    BY <2>1, SayType DEF Message
  <2>3. proc' = [proc EXCEPT ![c] = "stopping"] \/ proc' = proc
    BY <1>5 DEF TakeStop
  <2>4. proc' \in [Children -> ProcState] /\ NoneForked'
    <3>1. CASE proc' = [proc EXCEPT ![c] = "stopping"]
      BY <1>3, <3>1, ProcStep DEF ProcState
    <3>2. CASE proc' = proc
      BY <1>3, <3>2, Types DEF NoneForked
    <3> QED
      BY <2>3, <3>1, <3>2
  <2> QED
    BY <1>1, <1>2, <2>1, <2>2, <2>4, Types, ProcessTypes
<1>6. CASE TakeEntry(c)
  <2>1. Head(inbox[c]).cmd = "emit" /\ proc' = proc
    BY <1>6 DEF TakeEntry
  <2>2. proc' \in [Children -> ProcState] /\ NoneForked'
    BY <1>3, <2>1, Types DEF NoneForked
  <2>3. CASE /\ got' = [got EXCEPT ![c] = Append(got[c], Head(inbox[c]).entry)]
             /\ owed' = [owed EXCEPT ![c] = owed[c] + 1]
             /\ UNCHANGED msgs
    <3>1. Append(got[c], Head(inbox[c]).entry) \in Seq(Entries)
      BY <1>1, <2>1, Taken, Types
    <3>2. got' \in [Children -> Seq(Entries)]
      BY <2>3, <3>1, Types
    <3>3. owed' \in [Children -> Nat]
      BY SMTT(30), <2>3, Types
    <3> QED
      BY <1>1, <1>2, <2>2, <2>3, <3>2, <3>3, Types, ProcessTypes
  <2>4. CASE Say(c, "error") /\ UNCHANGED <<owed, got>>
    <3>1. msgs' \in [Children -> Seq(Message)]
      BY <2>4, SayType DEF Message
    <3> QED
      BY <1>1, <1>2, <2>2, <2>4, <3>1, Types, ProcessTypes
  <2> QED
    BY <1>6, <2>3, <2>4 DEF TakeEntry
<1> QED
  BY <1>4, <1>5, <1>6 DEF WorkerTakes

LEMMA StartTypes ==
  ASSUME TypeOK, NoneForked, NEW c \in Children,
         Started(c) \/ FailStart(c) \/ SendStats(c)
  PROVE  TypeOK' /\ NoneForked'
<1>1. /\ proc[c] = "starting"
      /\ \/ proc' = [proc EXCEPT ![c] = "running"]
         \/ \E p \in {"forked", "failed"} : proc' = [proc EXCEPT ![c] = p]
         \/ proc' = proc
      /\ UNCHANGED <<master, owed, got, inbox>>
  BY DEF Started, FailStart, SendStats, workers
<1>2. forked' = forked
  BY <1>1 DEF master
<1>3. proc' \in [Children -> ProcState] /\ NoneForked'
  <2>1. CASE proc' = [proc EXCEPT ![c] = "running"]
    BY <1>1, <1>2, <2>1, ProcStep DEF ProcState
  <2>2. ASSUME NEW p \in {"forked", "failed"}, proc' = [proc EXCEPT ![c] = p]
        PROVE  proc' \in [Children -> ProcState] /\ NoneForked'
    BY <1>1, <1>2, <2>2, ProcStep DEF ProcState
  <2>3. CASE proc' = proc
    BY <1>2, <2>3, Types DEF NoneForked
  <2> QED
    BY <1>1, <2>1, <2>2, <2>3
<1>4. Say(c, "success") \/ Say(c, "failed") \/ Say(c, "stats")
  BY DEF Started, FailStart, SendStats
<1>5. msgs' \in [Children -> Seq(Message)]
  BY <1>4, SayType DEF Message
<1> QED
  BY <1>1, <1>3, <1>5, Types, ProcessTypes

LEMMA AckTypes ==
  ASSUME TypeOK, NoneForked, NEW c \in Children, Ack(c)
  PROVE  TypeOK' /\ NoneForked'
<1>1. /\ owed[c] > 0 /\ owed' = [owed EXCEPT ![c] = owed[c] - 1]
      /\ Say(c, "ack") /\ UNCHANGED <<master, proc, got, inbox>>
  BY DEF Ack
<1>2. msgs' \in [Children -> Seq(Message)]
  BY <1>1, SayType DEF Message
<1>3. owed' \in [Children -> Nat]
  BY <1>1, Types
<1>4. proc' \in [Children -> ProcState] /\ NoneForked'
  BY <1>1, Types DEF NoneForked, master
<1> QED
  BY <1>1, <1>2, <1>3, <1>4, Types, ProcessTypes

LEMMA DieTypes ==
  ASSUME TypeOK, NoneForked, NEW c \in Children, Die(c), proc[c] \in Up
  PROVE  TypeOK' /\ NoneForked'
<1>1. /\ proc' = [proc EXCEPT ![c] = "dead"] /\ inbox' = [inbox EXCEPT ![c] = <<>>]
      /\ owed' = [owed EXCEPT ![c] = 0] /\ UNCHANGED <<master, got, msgs>>
  BY DEF Die
<1>2. forked' = forked /\ proc[c] # "none"
  BY <1>1 DEF master, Up
<1>3. proc' \in [Children -> ProcState] /\ NoneForked'
  BY <1>1, <1>2, ProcStep DEF ProcState
<1>4. inbox' \in [Children -> Seq(Commands)]
  <2>1. <<>> \in Seq(Commands)
    BY EmptySeq
  <2> QED
    BY <1>1, <2>1, Types
<1>5. owed' \in [Children -> Nat]
  BY <1>1, Types
<1> QED
  BY <1>1, <1>3, <1>4, <1>5, Types, ProcessTypes

LEMMA NextTypes ==
  ASSUME TypeOK, NoneForked, [Next]_vars
  PROVE  TypeOK' /\ NoneForked'
<1>1. ASSUME NEW e \in Entries, Write(e) PROVE TypeOK' /\ NoneForked'
  BY <1>1, WriteTypes
<1>2. ASSUME NEW s \in sends, Send(s) PROVE TypeOK' /\ NoneForked'
  BY <1>2, SendTypes
<1>3. CASE EndWrite
  BY <1>3, EndWriteTypes
<1>4. ASSUME NEW c \in Children, Receive(c) PROVE TypeOK' /\ NoneForked'
  BY <1>4, ReceiveTypes
<1>5. ASSUME NEW c \in Children, Close(c) PROVE TypeOK' /\ NoneForked'
  BY <1>5, CloseTypes
<1>6. CASE Restart
  BY <1>6, RestartTypes
<1>7. CASE CloseFork
  BY <1>7, CloseForkTypes
<1>8. ASSUME NEW c \in Children, WorkerTakes(c) PROVE TypeOK' /\ NoneForked'
  BY <1>8, WorkerTakesTypes
<1>9. ASSUME NEW c \in Children, Started(c) \/ FailStart(c) \/ SendStats(c)
      PROVE  TypeOK' /\ NoneForked'
  BY <1>9, StartTypes
<1>10. ASSUME NEW c \in Children, Ack(c) PROVE TypeOK' /\ NoneForked'
  BY <1>10, AckTypes
<1>11. ASSUME NEW c \in Children, Exit(c) \/ Crash(c) PROVE TypeOK' /\ NoneForked'
  <2>1. Die(c) /\ proc[c] \in Up
    BY <1>11 DEF Exit, Crash, Up
  <2> QED
    BY <2>1, DieTypes
<1>12. CASE UNCHANGED vars
  <2>1. UNCHANGED <<world, mode, child, forked, ready, starters, sem, sends, writing,
                    written, lidx, restarts, stopped, strays, proc, owed, got, inbox,
                    msgs>>
    BY <1>12 DEF vars, master, workers
  <2>2. Workers' = Workers /\ Sending' = Sending
    BY <2>1 DEF Workers, Sending
  <2> QED
    BY <2>1, <2>2 DEF TypeOK, NoneForked
<1> QED
  BY <1>1, <1>2, <1>3, <1>4, <1>5, <1>6, <1>7, <1>8, <1>9, <1>10, <1>11, <1>12
     DEF Next, MasterStep, WorkerStep

(***************************************************************************)
(* Channels.                                                               *)
(***************************************************************************)

LEMMA AppendRange ==
  ASSUME NEW S, NEW seq \in Seq(S), NEW x \in S
  PROVE  Range(Append(seq, x)) = Range(seq) \cup {x}
<1>1. /\ Append(seq, x) \in Seq(S) /\ Len(Append(seq, x)) = Len(seq) + 1
      /\ \A i \in 1..Len(seq) : Append(seq, x)[i] = seq[i]
      /\ Append(seq, x)[Len(seq) + 1] = x /\ Len(seq) \in Nat
  BY AppendProperties
<1>2. /\ Range(seq) = {seq[i] : i \in 1..Len(seq)}
      /\ Range(Append(seq, x)) = {Append(seq, x)[i] : i \in 1..Len(Append(seq, x))}
  BY <1>1, RangeEquality
<1>3. 1..(Len(seq) + 1) = (1..Len(seq)) \cup {Len(seq) + 1}
  BY <1>1
<1> QED
  BY <1>1, <1>2, <1>3

LEMMA TailRange ==
  ASSUME NEW S, NEW seq \in Seq(S), seq # <<>>
  PROVE  Range(seq) = Range(Tail(seq)) \cup {Head(seq)}
<1>1. /\ Tail(seq) \in Seq(S) /\ Len(Tail(seq)) = Len(seq) - 1
      /\ \A i \in 1..Len(Tail(seq)) : Tail(seq)[i] = seq[i + 1]
      /\ Head(seq) = seq[1] /\ Len(seq) \in Nat \ {0}
  OBVIOUS
<1>2. /\ Range(seq) = {seq[i] : i \in 1..Len(seq)}
      /\ Range(Tail(seq)) = {Tail(seq)[i] : i \in 1..Len(Tail(seq))}
  BY ZenonT(30), <1>1, RangeEquality
<1>3. \A i \in 1..Len(seq) : i = 1 \/ (i - 1 \in 1..Len(Tail(seq)) /\ seq[i] = Tail(seq)[i - 1])
  BY <1>1
<1>4. \A i \in 1..Len(Tail(seq)) : i + 1 \in 1..Len(seq)
  BY <1>1
<1>5. ASSUME NEW i \in 1..Len(seq)
      PROVE  seq[i] \in Range(Tail(seq)) \cup {Head(seq)}
  <2>1. CASE i = 1
    BY <1>1, <2>1
  <2>2. CASE i # 1
    BY <1>2, <1>3, <2>2
  <2> QED
    BY <2>1, <2>2
<1>6. Range(Tail(seq)) \cup {Head(seq)} \subseteq Range(seq)
  BY <1>1, <1>2, <1>4
<1>7. Range(seq) \subseteq Range(Tail(seq)) \cup {Head(seq)}
  BY <1>2, <1>5
<1> QED
  BY <1>6, <1>7

LEMMA AppendOnce ==
  ASSUME NEW S, NEW seq \in Seq(S), NEW x \in S, NEW m,
         Once(seq, m), x = m => m \notin Range(seq)
  PROVE  Once(Append(seq, x), m)
<1>1. /\ Len(Append(seq, x)) = Len(seq) + 1
      /\ \A i \in 1..Len(seq) : Append(seq, x)[i] = seq[i]
      /\ Append(seq, x)[Len(seq) + 1] = x /\ Len(seq) \in Nat
  BY AppendProperties
<1>2. Range(seq) = {seq[i] : i \in 1..Len(seq)}
  BY RangeEquality
<1>3. \A i \in 1..Len(Append(seq, x)) : i \in 1..Len(seq) \/ i = Len(seq) + 1
  BY <1>1
<1> QED
  BY <1>1, <1>2, <1>3 DEF Once

LEMMA TailOnce ==
  ASSUME NEW S, NEW seq \in Seq(S), seq # <<>>, NEW m, Once(seq, m)
  PROVE  Once(Tail(seq), m) /\ (Head(seq) = m => m \notin Range(Tail(seq)))
<1>1. /\ Tail(seq) \in Seq(S) /\ Len(Tail(seq)) = Len(seq) - 1
      /\ \A i \in 1..Len(Tail(seq)) : Tail(seq)[i] = seq[i + 1]
      /\ Head(seq) = seq[1] /\ Len(seq) \in Nat \ {0}
  OBVIOUS
<1>2. Range(Tail(seq)) = {Tail(seq)[i] : i \in 1..Len(Tail(seq))}
  BY <1>1, RangeEquality
<1>3. \A i \in 1..Len(Tail(seq)) : i + 1 \in 1..Len(seq) /\ i + 1 # 1
  BY <1>1
<1>4. Once(Tail(seq), m)
  BY <1>1, <1>3 DEF Once
<1>5. 1 \in 1..Len(seq)
  BY <1>1
<1>6. Head(seq) = m => m \notin Range(Tail(seq))
  BY <1>1, <1>2, <1>3, <1>5 DEF Once
<1> QED
  BY <1>4, <1>6

(* What a post does to the channels.                                       *)
LEMMA PostRange ==
  ASSUME TypeOK, NEW c \in Children, NEW what \in Commands, Post(c, what)
  PROVE  /\ \A d \in Children : d # c => inbox'[d] = inbox[d]
         /\ \A d \in Children : Range(inbox[d]) \subseteq Range(inbox'[d])
         /\ proc[c] \in Up => inbox'[c] = Append(inbox[c], what)
         /\ proc[c] \in Up => Range(inbox'[c]) = Range(inbox[c]) \cup {what}
<1>1. Range(Append(inbox[c], what)) = Range(inbox[c]) \cup {what}
  BY Types, AppendRange
<1>2. inbox \in [Children -> Seq(Commands)]
  BY Types
<1>3. CASE proc[c] \in Up
  <2>1. inbox' = [inbox EXCEPT ![c] = Append(inbox[c], what)]
    BY <1>3 DEF Post
  <2> QED
    BY <1>1, <1>2, <1>3, <2>1
<1>4. CASE proc[c] \notin Up
  BY <1>4 DEF Post
<1> QED
  BY <1>3, <1>4

LEMMA SayRange ==
  ASSUME TypeOK, NEW c \in Children, NEW m \in Message, Say(c, m)
  PROVE  /\ \A d \in Children : d # c => msgs'[d] = msgs[d]
         /\ msgs'[c] = Append(msgs[c], m)
         /\ Range(msgs'[c]) = Range(msgs[c]) \cup {m}
         /\ Once(msgs[c], "online") /\ m # "online" => Once(msgs'[c], "online")
<1>1. Range(Append(msgs[c], m)) = Range(msgs[c]) \cup {m}
  BY Types, AppendRange
<1>2. msgs \in [Children -> Seq(Message)]
  BY Types
<1>3. msgs' = [msgs EXCEPT ![c] = Append(msgs[c], m)]
  BY DEF Say
<1>4. Once(msgs[c], "online") /\ m # "online" => Once(Append(msgs[c], m), "online")
  BY <1>2, AppendOnce
<1> QED
  BY <1>1, <1>2, <1>3, <1>4

(***************************************************************************)
(* While no process has ended.                                             *)
(***************************************************************************)

(* What has ended stays so.                                                *)
LEMMA CalmBefore ==
  ASSUME TypeOK, NoneForked, [Next]_vars, Calm'
  PROVE  Calm
<1> DEFINE ended == {"dead", "closed"}
           Stay == (stopped => stopped') /\
                   \A c \in Children : proc[c] \in ended => proc'[c] \in ended
<1>1. ASSUME UNCHANGED <<stopped, proc>> PROVE Stay
  BY <1>1
<1>2. ASSUME NEW c \in Children, NEW v, proc[c] \notin ended, stopped' = stopped,
             proc' = [proc EXCEPT ![c] = v]
      PROVE  Stay
  BY <1>2, Types
<1>3. ASSUME NEW e \in Entries, Write(e) PROVE Stay
  BY <1>1, <1>3 DEF Write, workers
<1>4. ASSUME NEW s \in sends, Send(s) PROVE Stay
  BY <1>1, <1>4 DEF Send, workers
<1>5. ASSUME EndWrite PROVE Stay
  BY <1>1, <1>5 DEF EndWrite, workers
<1>6. ASSUME NEW c \in Children, Receive(c) PROVE Stay
  BY <1>1, <1>6 DEF Receive, workers
<1>7. ASSUME NEW c \in Children, Close(c) PROVE Stay
  BY <1>7, Types DEF Close
<1>8. ASSUME Restart PROVE Stay
  <2>1. /\ stopped' = stopped /\ proc' = [proc EXCEPT ![forked + 1] = "forked"]
        /\ forked + 1 \in Children
    BY <1>8 DEF Restart
  <2>2. proc[forked + 1] = "none"
    BY <2>1, Types DEF NoneForked
  <2> QED
    BY <1>2, <2>1, <2>2
<1>9. ASSUME CloseFork PROVE Stay
  BY <1>9 DEF CloseFork, workers
<1>10. ASSUME NEW c \in Children, WorkerTakes(c) PROVE Stay
  <2>1. stopped' = stopped /\ proc[c] \notin ended
    BY <1>10 DEF WorkerTakes, master, Up
  <2>2. proc' = proc \/ \E v : proc' = [proc EXCEPT ![c] = v]
    BY <1>10 DEF WorkerTakes, TakeStart, TakeStop, TakeEntry
  <2> QED
    BY <1>1, <1>2, <2>1, <2>2
<1>11. ASSUME NEW c \in Children, Started(c) \/ FailStart(c) \/ SendStats(c) \/ Ack(c)
       PROVE  Stay
  <2>1. proc[c] \notin ended \/ proc' = proc
    BY <1>11 DEF Started, FailStart, SendStats, Ack, master, workers
  <2>2. proc' = proc \/ \E v : proc' = [proc EXCEPT ![c] = v]
    BY <1>11 DEF Started, FailStart, SendStats, Ack, workers
  <2>3. stopped' = stopped
    BY <1>11 DEF Started, FailStart, SendStats, Ack, master
  <2> QED
    BY <1>1, <1>2, <2>1, <2>2, <2>3
<1>12. ASSUME NEW c \in Children, Exit(c) \/ Crash(c) PROVE Stay
  <2>1. stopped' = stopped /\ proc' = [proc EXCEPT ![c] = "dead"] /\ proc[c] \notin ended
    BY <1>12 DEF Exit, Crash, Die, master, Up
  <2> QED
    BY <1>2, <2>1
<1>13. ASSUME UNCHANGED vars PROVE Stay
  BY <1>1, <1>13 DEF vars, master, workers
<1>14. Stay
  <2> HIDE DEF Stay
  <2> QED
    BY <1>3, <1>4, <1>5, <1>6, <1>7, <1>8, <1>9, <1>10, <1>11, <1>12, <1>13
       DEF Next, MasterStep, WorkerStep
<1> QED
  BY <1>14, Types DEF Calm

LEMMA SameChild ==
  ASSUME NEW c, StartsThenRuns(c), proc'[c] = proc[c], msgs'[c] = msgs[c],
         inbox'[c] = inbox[c], c \in ready' <=> c \in ready
  PROVE  StartsThenRuns(c)'
  BY DEF StartsThenRuns, Says, Told

LEMMA StillAsBegun ==
  ASSUME AsBegun, UNCHANGED <<restarts, forked, world, child>>,
         \A w \in Workers : proc'[w] \in Up \ {"stopping"},
         \A s \in sends' : s.c = s.w,
         \A c \in Workers : StartsThenRuns(c)'
  PROVE  AsBegun'
<1>1. Workers' = Workers
  BY DEF Workers
<1> QED
  BY <1>1 DEF AsBegun

LEMMA StillOnItsWay ==
  ASSUME NEW e, OnItsWay(e),
         \A s \in sends : s.entry = e => \E t \in sends' : t.entry = e,
         \A c \in Children : /\ Range(inbox[c]) \subseteq Range(inbox'[c])
                             /\ Range(got[c]) \subseteq Range(got'[c])
  PROVE  OnItsWay(e)'
  BY DEF OnItsWay

LEMMA WriteCalm ==
  ASSUME TypeOK, AsBegun, \A i \in 1..written : OnItsWay(i), NEW e \in Entries, Write(e)
  PROVE  AsBegun' /\ \A i \in 1..(written') : OnItsWay(i)'
<1>1. PICK T \in Targets : AskSlots(e, T)
  BY DEF Write
<1>2. /\ written' = e /\ e = written + 1
      /\ UNCHANGED <<world, child, forked, ready, restarts, proc, got, inbox, msgs>>
  BY DEF Write, workers
<1>3. sends' = sends \cup {[entry |-> e, w |-> w, c |-> child[w],
                            held |-> Available(sem[child[w]])] : w \in T}
  BY <1>1 DEF AskSlots
<1>4. T \subseteq Workers /\ T # {}
  BY TargetsType
<1>5. \A s \in sends' : s.c = s.w
  <2>1. \A s \in sends : s.c = s.w
    BY DEF AsBegun
  <2>2. \A w \in T : child[w] = w
    BY <1>4 DEF AsBegun
  <2> QED
    BY <1>3, <2>1, <2>2
<1>6. \A c \in Workers : StartsThenRuns(c)'
  BY <1>2, SameChild DEF AsBegun
<1>7. \A w \in Workers : proc'[w] \in Up \ {"stopping"}
  BY <1>2 DEF AsBegun
<1>8. AsBegun'
  BY <1>2, <1>5, <1>6, <1>7, StillAsBegun
<1>9. ASSUME NEW i \in 1..(written')
      PROVE  OnItsWay(i)'
  <2>1. CASE i = e
    <3>1. PICK w \in T : TRUE
      BY <1>4
    <3>2. [entry |-> e, w |-> w, c |-> child[w],
           held |-> Available(sem[child[w]])] \in sends'
      BY <1>3, <3>1
    <3>3. \E s \in sends' : s.entry = e
      BY <3>2
    <3> QED
      BY <2>1, <3>3 DEF OnItsWay
  <2>2. CASE i # e
    <3>1. i \in 1..written
      BY <1>2, <1>9, <2>2, Types
    <3>2. OnItsWay(i)
      BY <3>1
    <3>3. \A s \in sends : s.entry = i => \E t \in sends' : t.entry = i
      BY <1>3
    <3> QED
      BY <1>2, <3>2, <3>3, StillOnItsWay
  <2> QED
    BY <2>1, <2>2
<1> QED
  BY <1>8, <1>9

LEMMA SendCalm ==
  ASSUME TypeOK, AsBegun, \A i \in 1..written : OnItsWay(i), NEW s \in sends, Send(s)
  PROVE  AsBegun' /\ \A i \in 1..(written') : OnItsWay(i)'
<1>1. /\ MayGo(s) /\ sends' = sends \ {s}
      /\ Post(child[s.w], Command("emit", s.entry))
      /\ UNCHANGED <<world, child, forked, ready, written, restarts, proc, got, msgs>>
  BY DEF Send, workers
<1>2. s.w \in Workers /\ s.entry \in Entries
  BY Types DEF Sending
<1>3. s.w \in Children
  BY <1>2, Types, WorldFacts
<1>4. child[s.w] = s.w /\ s.c = s.w /\ s.w \in ready /\ proc[s.w] \in Up
  BY <1>1, <1>2 DEF AsBegun, MayGo
<1>5. Command("emit", s.entry) \in Commands /\ Post(s.w, Command("emit", s.entry))
  BY <1>1, <1>2, <1>4, CommandTypes
<1>6. /\ \A d \in Children : d # s.w => inbox'[d] = inbox[d]
      /\ \A d \in Children : Range(inbox[d]) \subseteq Range(inbox'[d])
      /\ inbox'[s.w] = Append(inbox[s.w], Command("emit", s.entry))
      /\ Range(inbox'[s.w]) = Range(inbox[s.w]) \cup {Command("emit", s.entry)}
  BY <1>3, <1>4, <1>5, PostRange
<1>7. \A t \in sends' : t.c = t.w
  BY <1>1 DEF AsBegun
<1>8. \A w \in Workers : proc'[w] \in Up \ {"stopping"}
  BY <1>1 DEF AsBegun
<1>9. ASSUME NEW c \in Workers PROVE StartsThenRuns(c)'
  <2>1. StartsThenRuns(c) /\ c \in Children
    BY Types, WorldFacts DEF AsBegun
  <2>2. CASE c # s.w
    BY <1>1, <1>6, <2>1, <2>2, SameChild
  <2>3. CASE c = s.w
    <3>1. inbox[c] \in Seq(Commands)
      BY <2>1, Types
    <3>2. Command("emit", s.entry) # Command("start", 0)
      BY DEF Command
    <3>3. Once(inbox[c], Command("start", 0))
      BY <2>1 DEF StartsThenRuns
    <3>4. Once(Append(inbox[c], Command("emit", s.entry)), Command("start", 0))
      BY <1>5, <3>1, <3>2, <3>3, AppendOnce
    <3>5. Once(inbox'[c], Command("start", 0))
      BY <1>6, <2>3, <3>4
    <3>6. \A m \in Range(inbox[c]) \cup {Command("emit", s.entry)} :
            m \in Range(inbox[c]) \/ m.cmd = "emit"
      BY DEF Command
    <3>7. Range(inbox'[c]) = Range(inbox[c]) \cup {Command("emit", s.entry)}
      BY <1>6, <2>3
    <3> QED
      BY <1>1, <1>4, <2>1, <2>3, <3>5, <3>6, <3>7 DEF StartsThenRuns, Says, Told
  <2> QED
    BY <2>2, <2>3
<1>10. AsBegun'
  BY <1>1, <1>7, <1>8, <1>9, StillAsBegun
<1>11. ASSUME NEW i \in 1..(written')
       PROVE  OnItsWay(i)'
  <2>1. OnItsWay(i)
    BY <1>1, <1>11
  <2>2. CASE i = s.entry
    <3>1. Command("emit", i) \in Range(inbox'[s.w])
      BY <1>6, <2>2
    <3> QED
      BY <1>3, <3>1 DEF OnItsWay
  <2>3. CASE i # s.entry
    <3>1. \A t \in sends : t.entry = i => \E r \in sends' : r.entry = i
      BY <1>1, <2>3
    <3> QED
      BY <1>1, <1>6, <2>1, <3>1, StillOnItsWay
  <2> QED
    BY <2>2, <2>3
<1> QED
  BY <1>10, <1>11

LEMMA QuietCalm ==
  ASSUME TypeOK, AsBegun, \A i \in 1..written : OnItsWay(i), EndWrite \/ UNCHANGED vars
  PROVE  AsBegun' /\ \A i \in 1..(written') : OnItsWay(i)'
<1>1. UNCHANGED <<world, child, forked, ready, sends, written, restarts, proc, got, inbox,
                  msgs>>
  BY DEF EndWrite, vars, master, workers
<1>2. /\ \A w \in Workers : proc'[w] \in Up \ {"stopping"}
      /\ \A s \in sends' : s.c = s.w
  BY <1>1 DEF AsBegun
<1>3. \A c \in Workers : StartsThenRuns(c)'
  BY <1>1, SameChild DEF AsBegun
<1>4. AsBegun'
  BY <1>1, <1>2, <1>3, StillAsBegun
<1>5. \A i \in 1..(written') : OnItsWay(i)'
  BY <1>1, StillOnItsWay
<1> QED
  BY <1>4, <1>5

(* What a process said and the master takes.                               *)
LEMMA Heard ==
  ASSUME TypeOK, NEW c \in Children, msgs[c] # <<>>
  PROVE  /\ Head(msgs[c]) \in Message
         /\ Range(msgs[c]) = Range(Tail(msgs[c])) \cup {Head(msgs[c])}
         /\ Once(msgs[c], "online") =>
              /\ Once(Tail(msgs[c]), "online")
              /\ Head(msgs[c]) = "online" => "online" \notin Range(Tail(msgs[c]))
<1>1. msgs[c] \in Seq(Message)
  BY Types
<1>2. Head(msgs[c]) \in Message
  BY <1>1
<1>3. Range(msgs[c]) = Range(Tail(msgs[c])) \cup {Head(msgs[c])}
  BY <1>1, TailRange
<1> QED
  BY <1>1, <1>2, <1>3, TailOnce

(* A leave() changes nothing of a call but whether its slot was granted.   *)
LEMMA LeaveCalm ==
  ASSUME TypeOK, NEW c \in Children, LeaveSem(c)
  PROVE  /\ \A e : \A s \in sends : s.entry = e => \E t \in sends' : t.entry = e
         /\ (\A s \in sends : s.c = s.w) => (\A s \in sends' : s.c = s.w)
<1> DEFINE after(s) == IF s.c = c /\ s.entry \in Woken(sem[c])
                         THEN [s EXCEPT !.held = TRUE] ELSE s
<1>1. sends' = {after(s) : s \in sends}
  BY DEF LeaveSem
<1>2. ASSUME NEW s \in sends
      PROVE  after(s).entry = s.entry /\ after(s).c = s.c /\ after(s).w = s.w
  <2>1. s \in Sending
    BY Types
  <2> QED
    BY <2>1 DEF Sending
<1> HIDE DEF after
<1> QED
  BY <1>1, <1>2

LEMMA ReceiveCalm ==
  ASSUME TypeOK, AsBegun, \A i \in 1..written : OnItsWay(i), NEW c \in Children, Receive(c)
  PROVE  AsBegun' /\ \A i \in 1..(written') : OnItsWay(i)'
<1> DEFINE m == Head(msgs[c])
<1>1. /\ msgs[c] # <<>> /\ msgs' = [msgs EXCEPT ![c] = Tail(msgs[c])]
      /\ UNCHANGED <<world, child, forked, written, restarts, proc, got>>
  BY DEF Receive, workers
<1>2. /\ msgs'[c] = Tail(msgs[c])
      /\ \A d \in Children : d # c => msgs'[d] = msgs[d]
  BY <1>1, Types
<1>3. CASE c \in starters
  <2>1. HandleStart(c, m)
    BY <1>3 DEF Receive
  <2>2. UNCHANGED <<sem, sends>>
    BY <2>1 DEF HandleStart
  <2>3. CASE m = "online"
    <3>1. Post(c, Command("start", 0)) /\ ready' = ready
      BY <2>1, <2>3 DEF HandleStart
    <3>2. /\ \A d \in Children : d # c => inbox'[d] = inbox[d]
          /\ \A d \in Children : Range(inbox[d]) \subseteq Range(inbox'[d])
          /\ proc[c] \in Up => inbox'[c] = Append(inbox[c], Command("start", 0))
          /\ proc[c] \in Up => Range(inbox'[c]) = Range(inbox[c]) \cup {Command("start", 0)}
      BY <3>1, CommandTypes, PostRange
    <3>3. ASSUME NEW d \in Workers PROVE StartsThenRuns(d)'
      <4>1. StartsThenRuns(d) /\ d \in Children /\ proc[d] \in Up
        BY Types, WorldFacts DEF AsBegun
      <4>2. CASE d # c
        BY <1>1, <1>2, <3>1, <3>2, <4>1, <4>2, SameChild
      <4>3. CASE d = c
        <5>1. /\ Once(msgs[d], "online") /\ "online" \in Range(msgs[d])
              /\ proc[d] = "forked" /\ ~Told(d, "start")
          BY <1>1, <2>3, <4>1, <4>3, Heard DEF StartsThenRuns, Says
        <5>2. "online" \notin Range(msgs'[d]) /\ Once(msgs'[d], "online")
          BY <1>1, <1>2, <2>3, <4>3, <5>1, Heard
        <5>3. Range(msgs'[d]) \subseteq Range(msgs[d])
          BY <1>1, <1>2, <4>3, Heard
        <5>4. inbox[d] \in Seq(Commands) /\ Once(inbox[d], Command("start", 0))
          BY <4>1, Types DEF StartsThenRuns
        <5>5. Command("start", 0) \notin Range(inbox[d])
          BY <5>1 DEF Told, Command
        <5>6. Once(Append(inbox[d], Command("start", 0)), Command("start", 0))
          BY <5>4, <5>5, CommandTypes, AppendOnce
        <5>7. /\ Once(inbox'[d], Command("start", 0))
              /\ Range(inbox'[d]) = Range(inbox[d]) \cup {Command("start", 0)}
          BY <3>2, <4>1, <4>3, <5>6
        <5>8. Command("start", 0).cmd = "start"
          BY DEF Command
        <5> QED
          BY <1>1, <3>1, <4>1, <5>1, <5>2, <5>3, <5>7, <5>8 DEF StartsThenRuns, Says, Told
      <4> QED
        BY <4>2, <4>3
    <3>4. /\ \A w \in Workers : proc'[w] \in Up \ {"stopping"}
          /\ \A s \in sends' : s.c = s.w
      BY <1>1, <2>2 DEF AsBegun
    <3>5. AsBegun'
      BY <1>1, <3>3, <3>4, StillAsBegun
    <3>6. \A i \in 1..(written') : OnItsWay(i)'
      BY <1>1, <2>2, <3>2, StillOnItsWay
    <3> QED
      BY <3>5, <3>6
  <2>4. CASE m # "online"
    <3>1. /\ inbox' = inbox /\ ready' = IF m = "success" THEN ready \cup {c} ELSE ready
      BY <2>1, <2>4 DEF HandleStart
    <3>2. ASSUME NEW d \in Workers PROVE StartsThenRuns(d)'
      <4>1. StartsThenRuns(d) /\ d \in Children
        BY Types, WorldFacts DEF AsBegun
      <4>2. CASE d # c
        BY <1>1, <1>2, <3>1, <4>1, <4>2, SameChild
      <4>3. CASE d = c
        <5>1. Once(msgs'[d], "online")
          BY <1>1, <1>2, <4>1, <4>3, Heard DEF StartsThenRuns
        <5>2. Range(msgs[d]) = Range(msgs'[d]) \cup {m}
          BY <1>1, <1>2, <4>3, Heard
        <5>3. m = "success" => proc[d] = "running"
          BY <4>1, <5>2 DEF StartsThenRuns, Says
        <5>4. (d \in ready' => proc[d] = "running") /\ (d \in ready => d \in ready')
          BY <3>1, <4>1, <4>3, <5>3 DEF StartsThenRuns
        <5> HIDE DEF m
        <5> QED
          BY <1>1, <3>1, <4>1, <5>1, <5>2, <5>4 DEF StartsThenRuns, Says, Told
      <4> QED
        BY <4>2, <4>3
    <3>3. /\ \A w \in Workers : proc'[w] \in Up \ {"stopping"}
          /\ \A s \in sends' : s.c = s.w
      BY <1>1, <2>2 DEF AsBegun
    <3>4. AsBegun'
      BY <1>1, <3>2, <3>3, StillAsBegun
    <3>5. \A i \in 1..(written') : OnItsWay(i)'
      BY <1>1, <2>2, <3>1, StillOnItsWay
    <3> QED
      BY <3>4, <3>5
  <2> QED
    BY <2>3, <2>4
<1>4. CASE c \notin starters
  <2>1. HandleWorker(c, m) /\ UNCHANGED <<starters, ready, inbox>>
    BY <1>4 DEF Receive
  <2>2. LeaveSem(c) \/ UNCHANGED <<sem, sends>>
    BY <2>1 DEF HandleWorker
  <2>3. \A e : \A s \in sends : s.entry = e => \E t \in sends' : t.entry = e
    BY <2>2, LeaveCalm
  <2>4. \A s \in sends' : s.c = s.w
    <3>1. \A s \in sends : s.c = s.w
      BY DEF AsBegun
    <3>2. CASE LeaveSem(c)
      BY <3>1, <3>2, LeaveCalm
    <3>3. CASE UNCHANGED sends
      BY <3>1, <3>3
    <3> QED
      BY <2>2, <3>2, <3>3
  <2>5. ASSUME NEW d \in Workers PROVE StartsThenRuns(d)'
    <3>1. StartsThenRuns(d) /\ d \in Children
      BY Types, WorldFacts DEF AsBegun
    <3>2. CASE d # c
      BY <1>1, <1>2, <2>1, <3>1, <3>2, SameChild
    <3>3. CASE d = c
      <4>1. Once(msgs'[d], "online")
        BY <1>1, <1>2, <3>1, <3>3, Heard DEF StartsThenRuns
      <4>2. Range(msgs'[d]) \subseteq Range(msgs[d])
        BY <1>1, <1>2, <3>3, Heard
      <4> QED
        BY <1>1, <2>1, <3>1, <4>1, <4>2 DEF StartsThenRuns, Says, Told
    <3> QED
      BY <3>2, <3>3
  <2>6. \A w \in Workers : proc'[w] \in Up \ {"stopping"}
    BY <1>1 DEF AsBegun
  <2>7. AsBegun'
    BY <1>1, <2>4, <2>5, <2>6, StillAsBegun
  <2>8. \A i \in 1..(written') : OnItsWay(i)'
    BY <1>1, <2>1, <2>3, StillOnItsWay
  <2> QED
    BY <2>7, <2>8
<1> QED
  BY <1>3, <1>4

(* Only the processes of the workers are there.                            *)
LEMMA OnlyWorkers ==
  ASSUME TypeOK, NoneForked, AsBegun, NEW c \in Children, proc[c] # "none"
  PROVE  c \in Workers /\ StartsThenRuns(c)
<1>1. ~(c > world.cores)
  BY DEF NoneForked, AsBegun
<1>2. c \in 1..world.cores
  <2>1. world.cores \in Nat
    BY Types, WorldFacts
  <2>2. c \in Nat \ {0}
    BY BoundsAssumption DEF Children
  <2> QED
    BY <1>1, <2>1, <2>2
<1> QED
  BY <1>2 DEF Workers, AsBegun

(* The steps of a process that keep the master as it is.                   *)
LEMMA ProcessCalm ==
  ASSUME TypeOK, AsBegun, \A i \in 1..written : OnItsWay(i), UNCHANGED master,
         NEW c \in Workers, StartsThenRuns(c)', proc'[c] \in Up \ {"stopping"},
         \A d \in Children : d # c => /\ proc'[d] = proc[d] /\ msgs'[d] = msgs[d]
                                      /\ inbox'[d] = inbox[d] /\ got'[d] = got[d],
         Range(got[c]) \subseteq Range(got'[c]),
         \A e : Command("emit", e) \in Range(inbox[c]) =>
                  Command("emit", e) \in Range(inbox'[c]) \/ e \in Range(got'[c])
  PROVE  AsBegun' /\ \A i \in 1..(written') : OnItsWay(i)'
<1>1. UNCHANGED <<world, child, forked, ready, sends, written, restarts>>
  BY DEF master
<1>2. ASSUME NEW d \in Workers PROVE StartsThenRuns(d)'
  <2>1. CASE d # c
    <3>1. StartsThenRuns(d) /\ d \in Children
      BY Types, WorldFacts DEF AsBegun
    <3> QED
      BY <1>1, <2>1, <3>1, SameChild
  <2> QED
    BY <2>1
<1>3. \A w \in Workers : w \in Children /\ proc[w] \in Up \ {"stopping"}
  BY Types, WorldFacts DEF AsBegun
<1>4. /\ \A w \in Workers : proc'[w] \in Up \ {"stopping"}
      /\ \A s \in sends' : s.c = s.w
  BY <1>1, <1>3 DEF AsBegun
<1>5. AsBegun'
  BY <1>1, <1>2, <1>4, StillAsBegun
<1>6. ASSUME NEW i \in 1..(written')
      PROVE  OnItsWay(i)'
  <2>1. OnItsWay(i)
    BY <1>1, <1>6
  <2>2. CASE \E s \in sends : s.entry = i
    BY <1>1, <2>2 DEF OnItsWay
  <2>3. ASSUME NEW d \in Children, Command("emit", i) \in Range(inbox[d]) \/ i \in Range(got[d])
        PROVE  Command("emit", i) \in Range(inbox'[d]) \/ i \in Range(got'[d])
    <3>1. CASE d = c
      BY <2>3, <3>1
    <3>2. CASE d # c
      BY <2>3, <3>2
    <3> QED
      BY <3>1, <3>2
  <2> QED
    BY <2>1, <2>2, <2>3 DEF OnItsWay
<1> QED
  BY <1>5, <1>6

LEMMA WorkerTakesCalm ==
  ASSUME TypeOK, NoneForked, AsBegun, \A i \in 1..written : OnItsWay(i),
         NEW c \in Children, WorkerTakes(c)
  PROVE  AsBegun' /\ \A i \in 1..(written') : OnItsWay(i)'
<1> DEFINE m == Head(inbox[c])
<1>1. /\ proc[c] \in Up \ {"stopping"} /\ inbox[c] # <<>>
      /\ inbox' = [inbox EXCEPT ![c] = Tail(inbox[c])]
      /\ UNCHANGED master
  BY DEF WorkerTakes
<1>2. c \in Workers /\ StartsThenRuns(c)
  BY <1>1, OnlyWorkers DEF Up
<1>3. /\ inbox'[c] = Tail(inbox[c])
      /\ \A d \in Children : d # c => inbox'[d] = inbox[d]
  BY <1>1, Types
<1>4. inbox[c] \in Seq(Commands)
  BY Types
<1>5. Range(inbox[c]) = Range(inbox'[c]) \cup {m}
  BY <1>1, <1>3, <1>4, TailRange
<1>6. /\ Once(inbox'[c], Command("start", 0))
      /\ m = Command("start", 0) => Command("start", 0) \notin Range(inbox'[c])
  BY <1>1, <1>2, <1>3, <1>4, TailOnce DEF StartsThenRuns
<1>7. ready' = ready
  BY <1>1 DEF master
<1>8. m.cmd # "stop" /\ (m.cmd = "emit" => c \in ready /\ proc[c] = "running")
  BY <1>2, <1>5 DEF StartsThenRuns, Told
<1>9. CASE TakeStart(c)
  <2>1. m.cmd = "start" /\ proc' = [proc EXCEPT ![c] = "starting"] /\ UNCHANGED <<got, msgs>>
    BY <1>9 DEF TakeStart
  <2>2. m = Command("start", 0)
    <3>1. m \in Commands
      BY <1>1, Taken
    <3> QED
      BY <2>1, <3>1 DEF Commands, Emits, Command
  <2>3. /\ proc'[c] = "starting"
        /\ \A d \in Children : d # c => proc'[d] = proc[d]
    BY <2>1, Types
  <2>4. proc[c] = "forked" /\ ~Says(c, "online") /\ ~Says(c, "success") /\ c \notin ready
    BY <1>2, <1>5, <2>1 DEF StartsThenRuns, Told
  <2>5. ~\E n \in Range(inbox'[c]) : n.cmd = "start"
    <3>1. Range(inbox'[c]) \subseteq Commands
      BY <1>4, <1>5, RangeOfSeq
    <3>2. \A n \in Commands : n.cmd = "start" => n = Command("start", 0)
      BY DEF Commands, Emits, Command
    <3> QED
      BY <1>6, <2>2, <3>1, <3>2
  <2>6. StartsThenRuns(c)'
    BY <1>2, <1>5, <1>6, <1>7, <2>1, <2>3, <2>4, <2>5 DEF StartsThenRuns, Says, Told
  <2>7. \A e : Command("emit", e) \in Range(inbox[c]) => Command("emit", e) \in Range(inbox'[c])
    BY <1>5, <2>2 DEF Command
  <2> QED
    BY <1>1, <1>2, <1>3, <2>1, <2>3, <2>6, <2>7, ProcessCalm DEF Up
<1>10. CASE TakeEntry(c)
  <2>1. m.cmd = "emit" /\ proc' = proc
    BY <1>10 DEF TakeEntry
  <2>2. /\ got' = [got EXCEPT ![c] = Append(got[c], m.entry)]
        /\ UNCHANGED msgs
    BY <1>8, <1>10, <2>1 DEF TakeEntry
  <2>3. m.entry \in Entries /\ m = Command("emit", m.entry)
    BY <1>1, <2>1, Taken
  <2>4. /\ got'[c] = Append(got[c], m.entry)
        /\ \A d \in Children : d # c => got'[d] = got[d]
    BY <2>2, Types
  <2>5. Range(got'[c]) = Range(got[c]) \cup {m.entry}
    BY SMTT(30), <2>3, <2>4, Types, AppendRange
  <2>6. StartsThenRuns(c)'
    <3> HIDE DEF m
    <3> QED
      BY <1>2, <1>5, <1>6, <1>7, <2>1, <2>2 DEF StartsThenRuns, Says, Told
  <2>7. \A e : Command("emit", e) \in Range(inbox[c]) =>
          Command("emit", e) \in Range(inbox'[c]) \/ e \in Range(got'[c])
    <3>1. \A e : Command("emit", e) = Command("emit", m.entry) => e = m.entry
      BY DEF Command
    <3> HIDE DEF m
    <3> QED
      BY <1>5, <2>3, <2>5, <3>1
  <2> QED
    BY <1>1, <1>2, <1>3, <2>1, <2>2, <2>4, <2>5, <2>6, <2>7, ProcessCalm
<1> QED
  BY <1>8, <1>9, <1>10 DEF WorkerTakes, TakeStop

LEMMA SaysCalm ==
  ASSUME TypeOK, NoneForked, AsBegun, \A i \in 1..written : OnItsWay(i),
         NEW c \in Children, Started(c) \/ FailStart(c) \/ SendStats(c) \/ Ack(c)
  PROVE  AsBegun' /\ \A i \in 1..(written') : OnItsWay(i)'
<1>1. /\ proc[c] \in Up /\ UNCHANGED <<master, inbox, got>>
  BY DEF Started, FailStart, SendStats, Ack, Up, workers
<1>2. c \in Workers /\ StartsThenRuns(c)
  BY <1>1, OnlyWorkers DEF Up
<1>3. proc[c] \in Up \ {"stopping"}
  BY <1>2 DEF AsBegun
<1>4. PICK m \in {"success", "failed", "stats", "ack"} :
        /\ Say(c, m)
        /\ \/ m = "success" /\ proc[c] = "starting" /\ proc' = [proc EXCEPT ![c] = "running"]
           \/ /\ m = "failed" /\ proc[c] = "starting"
              /\ \E p \in {"forked", "failed"} : proc' = [proc EXCEPT ![c] = p]
           \/ m \in {"stats", "ack"} /\ proc' = proc
  BY DEF Started, FailStart, SendStats, Ack, workers
<1>5. /\ \A d \in Children : d # c => msgs'[d] = msgs[d]
      /\ Range(msgs'[c]) = Range(msgs[c]) \cup {m}
      /\ Once(msgs'[c], "online")
  <2>1. m \in Message /\ m # "online" /\ Once(msgs[c], "online")
    BY <1>2 DEF Message, StartsThenRuns
  <2> QED
    BY <1>4, <2>1, SayRange
<1>6. /\ \A d \in Children : d # c => proc'[d] = proc[d]
      /\ proc'[c] \in Up \ {"stopping"}
      /\ \/ m = "success" /\ proc[c] = "starting" /\ proc'[c] = "running"
         \/ m = "failed" /\ proc[c] = "starting" /\ proc'[c] \in {"forked", "failed"}
         \/ m \in {"stats", "ack"} /\ proc'[c] = proc[c]
  <2>1. DOMAIN proc = Children /\ c \in Children
    BY Types
  <2>2. CASE m = "success" /\ proc[c] = "starting" /\ proc' = [proc EXCEPT ![c] = "running"]
    BY <2>1, <2>2 DEF Up
  <2>3. CASE /\ m = "failed" /\ proc[c] = "starting"
             /\ \E p \in {"forked", "failed"} : proc' = [proc EXCEPT ![c] = p]
    BY <2>1, <2>3 DEF Up
  <2>4. CASE m \in {"stats", "ack"} /\ proc' = proc
    BY <1>3, <2>1, <2>4
  <2> QED
    BY <1>4, <2>2, <2>3, <2>4
<1>7. ready' = ready
  BY <1>1 DEF master
<1>8. StartsThenRuns(c)'
  <2>1. UNCHANGED <<ready, inbox>>
    BY <1>1, <1>7
  <2> QED
    BY <2>1, <1>2, <1>5, <1>6 DEF StartsThenRuns, Says, Told
<1> QED
  BY <1>1, <1>2, <1>5, <1>6, <1>8, ProcessCalm

(***************************************************************************)
(* The invariant.                                                          *)
(***************************************************************************)

LEMMA InitInvariant == Init => IInv
<1> SUFFICES ASSUME Init PROVE IInv
  OBVIOUS
<1>1. TypeOK /\ NoneForked
  BY InitTypes
<1>2. /\ world \in Worlds /\ written = 0 /\ sends = {} /\ restarts = 0 /\ ready = {}
      /\ child = [w \in Workers |-> w] /\ forked = world.cores
      /\ proc = [c \in Children |-> IF c <= world.cores THEN "forked" ELSE "none"]
      /\ inbox = [c \in Children |-> <<>>]
      /\ msgs = [c \in Children |-> IF c <= world.cores THEN <<"online">> ELSE <<>>]
  BY DEF Init
<1>3. \A w \in Workers : w \in Children /\ w <= world.cores
  BY <1>2, WorldFacts DEF Workers
<1>4. ASSUME NEW w \in Workers PROVE StartsThenRuns(w)
  <2>1. proc[w] = "forked" /\ inbox[w] = <<>> /\ msgs[w] = <<"online">>
    BY <1>2, <1>3
  <2>2. Range(inbox[w]) = {} /\ Range(msgs[w]) = {"online"}
    BY <2>1 DEF Range
  <2>3. Once(msgs[w], "online") /\ Once(inbox[w], Command("start", 0))
    BY <2>1 DEF Once
  <2> QED
    BY <1>2, <2>1, <2>2, <2>3 DEF StartsThenRuns, Says, Told
<1>5. AsBegun
  BY <1>2, <1>3, <1>4 DEF AsBegun, Up
<1>6. LostOnlyByDeath
  BY <1>2 DEF LostOnlyByDeath
<1> QED
  BY <1>1, <1>5, <1>6 DEF IInv

LEMMA NextInvariant == IInv /\ [Next]_vars => IInv'
<1> SUFFICES ASSUME IInv, [Next]_vars PROVE IInv'
  OBVIOUS
<1>1. TypeOK /\ NoneForked
  BY DEF IInv
<1>2. TypeOK' /\ NoneForked'
  BY <1>1, NextTypes
<1>3. ASSUME Calm'
      PROVE  AsBegun' /\ \A i \in 1..(written') : OnItsWay(i)'
  <2> DEFINE Goal == AsBegun' /\ \A i \in 1..(written') : OnItsWay(i)'
  <2>1. Calm /\ AsBegun /\ \A i \in 1..written : OnItsWay(i)
    BY <1>1, <1>3, CalmBefore DEF IInv, LostOnlyByDeath
  <2>2. ASSUME NEW e \in Entries, Write(e) PROVE Goal
    BY <1>1, <2>1, <2>2, WriteCalm
  <2>3. ASSUME NEW s \in sends, Send(s) PROVE Goal
    BY <1>1, <2>1, <2>3, SendCalm
  <2>4. ASSUME EndWrite \/ UNCHANGED vars PROVE Goal
    BY <1>1, <2>1, <2>4, QuietCalm
  <2>5. ASSUME NEW c \in Children, Receive(c) PROVE Goal
    BY <1>1, <2>1, <2>5, ReceiveCalm
  <2>6. ASSUME NEW c \in Children, Close(c) PROVE Goal
    BY <2>1, <2>6 DEF Close, Calm
  <2>7. ASSUME Restart PROVE Goal
    BY <2>1, <2>7 DEF Restart, AsBegun
  <2>8. ASSUME CloseFork PROVE Goal
    <3>1. stopped' = TRUE
      BY <2>8 DEF CloseFork
    <3> QED
      BY <1>3, <3>1 DEF Calm
  <2>9. ASSUME NEW c \in Children, WorkerTakes(c) PROVE Goal
    BY <1>1, <2>1, <2>9, WorkerTakesCalm
  <2>10. ASSUME NEW c \in Children, Started(c) \/ FailStart(c) \/ SendStats(c) \/ Ack(c)
         PROVE  Goal
    BY <1>1, <2>1, <2>10, SaysCalm
  <2>11. ASSUME NEW c \in Children, Exit(c) \/ Crash(c) PROVE Goal
    <3>1. Die(c)
      BY <2>11 DEF Exit, Crash
    <3>2. proc'[c] = "dead"
      BY <1>1, <3>1, Types DEF Die
    <3> QED
      BY <1>3, <3>2 DEF Calm
  <2> HIDE DEF Goal
  <2>12. Goal
    BY <2>2, <2>3, <2>4, <2>5, <2>6, <2>7, <2>8, <2>9, <2>10, <2>11
       DEF Next, MasterStep, WorkerStep
  <2> QED
    BY <2>12 DEF Goal
<1>4. LostOnlyByDeath' /\ (Calm => AsBegun)'
  BY <1>3 DEF LostOnlyByDeath
<1> QED
  BY <1>2, <1>4 DEF IInv

(* IInv holds in every state that can be reached (flow-master.js:42-203,   *)
(* flow-worker.js, cluster/index.js:30-81).                                *)
THEOREM Invariance == Spec => []IInv
<1>1. Init => IInv
  BY InitInvariant
<1>2. IInv /\ [Next]_vars => IInv'
  BY NextInvariant
<1> QED
  BY <1>1, <1>2, PTL DEF Spec

(* The variables keep their types.                                         *)
THEOREM TypeCorrect == Spec => []TypeOK
<1>1. IInv => TypeOK
  BY DEF IInv
<1> QED
  BY <1>1, Invariance, PTL

(* An entry that was written is on its way to a process or with one, as    *)
(* long as no process has ended and closefork() was not called             *)
(* (flow-master.js:91-101, 122-203).                                       *)
THEOREM EntriesAreKept == Spec => []LostOnlyByDeath
<1>1. IInv => LostOnlyByDeath
  BY DEF IInv
<1> QED
  BY <1>1, Invariance, PTL

(***************************************************************************)
(* Sequences in order.                                                     *)
(***************************************************************************)

LEMMA IncreasingAppend ==
  ASSUME NEW S, S \subseteq Nat, NEW seq \in Seq(S), Increasing(seq), NEW x \in S,
         \A y \in Range(seq) : y < x
  PROVE  Increasing(Append(seq, x))
<1>1. /\ Len(Append(seq, x)) = Len(seq) + 1
      /\ \A i \in 1..Len(seq) : Append(seq, x)[i] = seq[i]
      /\ Append(seq, x)[Len(seq) + 1] = x /\ Len(seq) \in Nat
  BY AppendProperties
<1>2. Range(seq) = {seq[i] : i \in 1..Len(seq)}
  BY RangeEquality
<1>3. ASSUME NEW i \in 1..Len(Append(seq, x)), NEW j \in 1..Len(Append(seq, x)), i < j
      PROVE  Append(seq, x)[i] < Append(seq, x)[j]
  <2>1. i \in 1..Len(seq) /\ (j \in 1..Len(seq) \/ j = Len(seq) + 1)
    BY <1>1, <1>3
  <2>2. seq[i] \in Range(seq)
    BY <1>2, <2>1
  <2> QED
    BY <1>1, <1>3, <2>1, <2>2 DEF Increasing
<1> QED
  BY <1>3 DEF Increasing

LEMMA IncreasingTail ==
  ASSUME NEW S, S \subseteq Nat, NEW seq \in Seq(S), seq # <<>>, Increasing(seq)
  PROVE  Increasing(Tail(seq)) /\ \A y \in Range(Tail(seq)) : Head(seq) < y
<1>1. /\ Tail(seq) \in Seq(S) /\ Len(Tail(seq)) = Len(seq) - 1
      /\ \A i \in 1..Len(Tail(seq)) : Tail(seq)[i] = seq[i + 1]
      /\ Head(seq) = seq[1] /\ Len(seq) \in Nat \ {0}
  OBVIOUS
<1>2. Range(Tail(seq)) = {Tail(seq)[i] : i \in 1..Len(Tail(seq))}
  BY <1>1, RangeEquality
<1>3. \A i \in 1..Len(Tail(seq)) : i + 1 \in 1..Len(seq) /\ 1 < i + 1 /\ i \in Int
  BY <1>1
<1>4. Increasing(Tail(seq))
  BY <1>1, <1>3 DEF Increasing
<1>5. 1 \in 1..Len(seq)
  BY <1>1
<1>6. \A y \in Range(Tail(seq)) : Head(seq) < y
  BY <1>1, <1>2, <1>3, <1>5 DEF Increasing
<1> QED
  BY <1>4, <1>6

LEMMA EmitFacts ==
  /\ \A e \in Entries : Command("emit", e) \in Emits /\ Command("emit", e).entry = e
  /\ \A m \in Emits : /\ m.entry \in Entries /\ m = Command("emit", m.entry)
                      /\ m.cmd = "emit"
  /\ Emits \subseteq Commands
  BY DEF Emits, Commands, Command

LEMMA EmitsAppend ==
  ASSUME NEW seq \in Seq(Commands), EmitsInOrder(seq), NEW x \in Commands,
         x \in Emits => \A e \in EntriesIn(seq) : e < x.entry
  PROVE  EmitsInOrder(Append(seq, x))
<1>1. /\ Len(Append(seq, x)) = Len(seq) + 1
      /\ \A i \in 1..Len(seq) : Append(seq, x)[i] = seq[i]
      /\ Append(seq, x)[Len(seq) + 1] = x /\ Len(seq) \in Nat
  BY AppendProperties
<1>2. Range(seq) = {seq[i] : i \in 1..Len(seq)}
  BY RangeEquality
<1>3. ASSUME NEW i \in 1..Len(Append(seq, x)), NEW j \in 1..Len(Append(seq, x)), i < j,
             Append(seq, x)[i] \in Emits, Append(seq, x)[j] \in Emits
      PROVE  Append(seq, x)[i].entry < Append(seq, x)[j].entry
  <2>1. i \in 1..Len(seq) /\ (j \in 1..Len(seq) \/ j = Len(seq) + 1)
    BY <1>1, <1>3
  <2>2. seq[i] \in Range(seq) /\ Append(seq, x)[i] = seq[i]
    BY <1>1, <1>2, <2>1
  <2>3. seq[i].entry \in EntriesIn(seq)
    BY <1>3, <2>2, EmitFacts DEF EntriesIn
  <2>4. CASE j \in 1..Len(seq)
    BY <1>1, <1>3, <2>1, <2>4 DEF EmitsInOrder
  <2>5. CASE j = Len(seq) + 1
    BY <1>1, <1>3, <2>2, <2>3, <2>5
  <2> QED
    BY <2>1, <2>4, <2>5
<1> QED
  BY <1>3 DEF EmitsInOrder

LEMMA EmitsTail ==
  ASSUME NEW seq \in Seq(Commands), seq # <<>>, EmitsInOrder(seq)
  PROVE  /\ EmitsInOrder(Tail(seq))
         /\ Head(seq) \in Emits => \A e \in EntriesIn(Tail(seq)) : Head(seq).entry < e
<1>1. /\ Tail(seq) \in Seq(Commands) /\ Len(Tail(seq)) = Len(seq) - 1
      /\ \A i \in 1..Len(Tail(seq)) : Tail(seq)[i] = seq[i + 1]
      /\ Head(seq) = seq[1] /\ Len(seq) \in Nat \ {0}
  OBVIOUS
<1>2. Range(Tail(seq)) = {Tail(seq)[i] : i \in 1..Len(Tail(seq))}
  BY <1>1, RangeEquality
<1>3. \A i \in 1..Len(Tail(seq)) : i + 1 \in 1..Len(seq) /\ 1 < i + 1 /\ i \in Int
  BY <1>1
<1>4. EmitsInOrder(Tail(seq))
  BY <1>1, <1>3 DEF EmitsInOrder
<1>5. 1 \in 1..Len(seq)
  BY <1>1
<1>6. ASSUME Head(seq) \in Emits, NEW e \in EntriesIn(Tail(seq))
      PROVE  Head(seq).entry < e
  <2>1. e \in Entries /\ Command("emit", e) \in Range(Tail(seq))
    BY DEF EntriesIn
  <2>2. Command("emit", e) \in Emits /\ Command("emit", e).entry = e
    BY <2>1, EmitFacts
  <2>3. PICK i \in 1..Len(Tail(seq)) : Command("emit", e) = Tail(seq)[i]
    BY <1>2, <2>1
  <2>4. seq[i + 1] = Command("emit", e)
    BY <1>1, <2>3
  <2>5. seq[1] \in Emits /\ seq[i + 1] \in Emits
    BY <1>1, <1>6, <2>2, <2>4
  <2>6. seq[1].entry < seq[i + 1].entry
    BY <1>3, <1>5, <2>5 DEF EmitsInOrder
  <2> QED
    BY <1>1, <2>2, <2>4, <2>6
<1> QED
  BY <1>4, <1>6

LEMMA EntriesOfAppend ==
  ASSUME NEW seq \in Seq(Commands), NEW x \in Commands
  PROVE  /\ x \notin Emits => EntriesIn(Append(seq, x)) = EntriesIn(seq)
         /\ x \in Emits => EntriesIn(Append(seq, x)) = EntriesIn(seq) \cup {x.entry}
<1>1. Range(Append(seq, x)) = Range(seq) \cup {x}
  BY AppendRange
<1>2. \A e \in Entries : x = Command("emit", e) <=> x \in Emits /\ e = x.entry
  BY EmitFacts
<1> QED
  BY <1>1, <1>2, EmitFacts DEF EntriesIn

LEMMA EntriesOfTail ==
  ASSUME NEW seq \in Seq(Commands), seq # <<>>
  PROVE  /\ EntriesIn(Tail(seq)) \subseteq EntriesIn(seq)
         /\ Head(seq) \in Emits => Head(seq).entry \in EntriesIn(seq)
<1>1. Range(seq) = Range(Tail(seq)) \cup {Head(seq)}
  BY TailRange
<1> QED
  BY <1>1, EmitFacts DEF EntriesIn

(***************************************************************************)
(* The order of the entries: what the invariant says of a call.            *)
(***************************************************************************)

LEMMA CallFacts ==
  ASSUME TypeOK, Numbers, Calls, NEW s \in sends
  PROVE  /\ s.entry \in Entries /\ s.entry \in Nat /\ s.entry # 0 /\ s.entry <= written
         /\ s.w \in Workers /\ s.c \in Children /\ s.held \in BOOLEAN
         /\ s = [entry |-> s.entry, w |-> s.w, c |-> s.c, held |-> s.held]
         /\ s.w # RestartedWorker => s.c = s.w
         /\ s.w = RestartedWorker => /\ s.entry = writing
                                     /\ s.c \in RestartedWorker..child[s.w]
         /\ s.c <= forked /\ s.c \in Nat
         /\ s.entry # writing => s.c \in ready
<1>1. s \in Sending
  BY Types
<1>2. /\ s.entry \in Entries /\ s.w \in Workers /\ s.c \in Children /\ s.held \in BOOLEAN
      /\ s = [entry |-> s.entry, w |-> s.w, c |-> s.c, held |-> s.held]
  BY <1>1 DEF Sending
<1>3. s.entry \in Nat /\ s.entry # 0 /\ s.c \in Nat
  BY <1>2, BoundsAssumption DEF Entries, Children
<1>4. /\ s.entry <= written /\ (s.entry # writing => s.c \in ready)
      /\ s.w # RestartedWorker => s.c = s.w
      /\ s.w = RestartedWorker => /\ s.entry = writing
                                  /\ s.c \in RestartedWorker..child[s.w]
  BY DEF Calls
<1>5. s.c <= forked
  <2>1. /\ world.cores \in Nat \ {0} /\ RestartedWorker = world.cores
        /\ child[RestartedWorker] \in RestartedWorker..forked /\ forked \in 0..MaxChildren
    BY Types, WorldFacts DEF Numbers, RestartedWorker
  <2>2. s.w \in 1..world.cores
    BY <1>2 DEF Workers
  <2> QED
    BY <1>3, <1>4, <2>1, <2>2, BoundsAssumption
<1> QED
  BY <1>2, <1>3, <1>4, <1>5

(* The numbers of the workers' processes.                                  *)
LEMMA NumberFacts ==
  ASSUME TypeOK, Numbers
  PROVE  /\ RestartedWorker \in Workers /\ RestartedWorker \in Nat \ {0}
         /\ forked \in Nat /\ written \in Nat /\ writing \in Nat
         /\ \A w \in Workers : /\ w \in Nat \ {0} /\ w <= RestartedWorker
                               /\ child[w] \in Children /\ child[w] \in Nat
                               /\ child[w] <= forked
                               /\ w # RestartedWorker => child[w] = w
         /\ child[RestartedWorker] >= RestartedWorker
         /\ \A v, w \in Workers : child[v] = child[w] => v = w
<1>1. /\ RestartedWorker \in Workers /\ RestartedWorker \in Nat \ {0}
      /\ RestartedWorker = world.cores
  BY Types, WorldFacts DEF RestartedWorker
<1>2. forked \in Nat /\ written \in Nat /\ writing \in Nat
  BY Types, BoundsAssumption
<1>3. child[RestartedWorker] \in RestartedWorker..forked
  BY DEF Numbers
<1>4. ASSUME NEW w \in Workers
      PROVE  /\ w \in Nat \ {0} /\ w <= RestartedWorker
             /\ child[w] \in Children /\ child[w] \in Nat /\ child[w] <= forked
             /\ w # RestartedWorker => child[w] = w
  <2>1. w \in Nat \ {0} /\ w <= RestartedWorker
    BY <1>1 DEF Workers
  <2>2. child[w] \in Children /\ (w # RestartedWorker => child[w] = w)
    BY Types DEF Numbers
  <2>3. child[w] \in Nat
    BY <2>2, BoundsAssumption DEF Children
  <2>4. child[w] <= forked
    BY <1>1, <1>2, <1>3, <2>1, <2>2
  <2> QED
    BY <2>1, <2>2, <2>3, <2>4
<1>5. child[RestartedWorker] >= RestartedWorker
  BY <1>1, <1>2, <1>3
<1>6. ASSUME NEW v \in Workers, NEW w \in Workers, child[v] = child[w]
      PROVE  v = w
  BY <1>1, <1>4, <1>5, <1>6
<1> QED
  BY <1>1, <1>2, <1>4, <1>5, <1>6

(* The process a call saw tells its worker.                                *)
LEMMA CallOfWorker ==
  ASSUME TypeOK, Numbers, Calls, NEW s \in sends
  PROVE  /\ \A t \in sends : s.c = t.c => s.w = t.w
         /\ \A w \in Workers : child[w] = s.c => s.w = w
<1>1. /\ \A w \in Workers : /\ w \in Nat \ {0} /\ w <= RestartedWorker
                            /\ w # RestartedWorker => child[w] = w
      /\ RestartedWorker \in Nat \ {0} /\ child[RestartedWorker] \in Nat
      /\ child[RestartedWorker] >= RestartedWorker
  BY NumberFacts
<1>2. \A t \in sends :
        /\ t.w \in Workers /\ t.c \in Nat
        /\ t.w # RestartedWorker => t.c = t.w
        /\ t.w = RestartedWorker => t.c \in RestartedWorker..child[t.w]
  BY CallFacts
<1>3. \A t \in sends : t.w = RestartedWorker => t.c >= RestartedWorker
  BY <1>1, <1>2
<1>4. \A t \in sends : t.w # RestartedWorker => t.c < RestartedWorker
  BY <1>1, <1>2
<1>5. ASSUME NEW t \in sends, s.c = t.c PROVE s.w = t.w
  BY <1>1, <1>2, <1>3, <1>4, <1>5
<1>6. ASSUME NEW w \in Workers, child[w] = s.c PROVE s.w = w
  <2>1. CASE w = RestartedWorker
    BY <1>1, <1>2, <1>4, <1>6, <2>1
  <2>2. CASE w # RestartedWorker
    BY <1>1, <1>2, <1>3, <1>6, <2>2
  <2> QED
    BY <2>1, <2>2
<1> QED
  BY <1>5, <1>6

(***************************************************************************)
(* Steps that leave the calls alone.                                       *)
(***************************************************************************)

LEMMA NumbersKept ==
  ASSUME Numbers, UNCHANGED <<world, child, forked>>,
         \A c \in Children : c > forked =>
            /\ sem'[c] = sem[c] /\ inbox'[c] = inbox[c] /\ msgs'[c] = msgs[c]
            /\ owed'[c] = owed[c] /\ got'[c] = got[c]
  PROVE  Numbers'
<1>1. Workers' = Workers /\ RestartedWorker' = RestartedWorker
  BY DEF Workers, RestartedWorker
<1> QED
  BY <1>1 DEF Numbers

LEMMA CallsAlone ==
  ASSUME Calls, FirstWrite, \A c \in Children : WaitsInOrder(c),
         UNCHANGED <<world, mode, child, ready, sem, sends, writing, written>>
  PROVE  Calls' /\ FirstWrite' /\ \A c \in Children : WaitsInOrder(c)'
<1>1. Workers' = Workers /\ RestartedWorker' = RestartedWorker
  BY DEF Workers, RestartedWorker
<1>2. Calls'
  BY <1>1 DEF Calls, MayGo
<1>3. FirstWrite'
  BY <1>1 DEF FirstWrite
<1>4. \A c \in Children : WaitsInOrder(c)'
  BY DEF WaitsInOrder
<1> QED
  BY <1>2, <1>3, <1>4

(* Nothing new arrives at c, and no call goes there before its entries.    *)
LEMMA NoneArrives ==
  ASSUME TypeOK, TypeOK', NEW c \in Children, ArriveInOrder(c), got'[c] = got[c],
         EmitsInOrder(inbox'[c]), EntriesIn(inbox'[c]) \subseteq EntriesIn(inbox[c]),
         written <= written',
         \A s \in sends' : child'[s.w] = c =>
            s.entry > written \/ \E t \in sends : child[t.w] = c /\ t.entry = s.entry
  PROVE  ArriveInOrder(c)'
<1>1. /\ Increasing(got'[c]) /\ EmitsInOrder(inbox'[c])
      /\ \A e \in Range(got'[c]), f \in EntriesIn(inbox'[c]) : e < f
  BY DEF ArriveInOrder
<1>2. ASSUME NEW e \in Range(got'[c]) \cup EntriesIn(inbox'[c])
      PROVE  e <= written' /\ \A s \in sends' : child'[s.w] = c => e < s.entry
  <2>1. /\ e <= written /\ \A s \in sends : child[s.w] = c => e < s.entry
        /\ e \in Range(got[c]) \cup EntriesIn(inbox[c])
    BY <1>2 DEF ArriveInOrder
  <2>2. Range(got[c]) \subseteq Entries
    BY Types, RangeOfSeq
  <2>3. e \in Nat
    BY <2>1, <2>2, BoundsAssumption DEF Entries, EntriesIn
  <2>4. written \in Nat /\ written' \in Nat
    BY BoundsAssumption DEF TypeOK
  <2>5. \A s \in sends' : s.entry \in Nat
    BY BoundsAssumption DEF TypeOK, Sending, Entries
  <2>6. e <= written'
    BY <2>1, <2>3, <2>4
  <2>7. ASSUME NEW s \in sends', child'[s.w] = c PROVE e < s.entry
    <3>1. CASE s.entry > written
      BY <2>1, <2>3, <2>4, <2>5, <3>1
    <3>2. CASE \E t \in sends : child[t.w] = c /\ t.entry = s.entry
      BY <2>1, <3>2
    <3> QED
      BY <2>7, <3>1, <3>2
  <2> QED
    BY <2>6, <2>7
<1> QED
  BY <1>1, <1>2 DEF ArriveInOrder

LEMMA QuietOrder ==
  ASSUME TypeOK, NoneForked, OrderInv, TypeOK', UNCHANGED <<inbox, msgs, got, owed>>,
         UNCHANGED <<world, mode, child, forked, ready, sem, sends, writing, written>>
  PROVE  OrderInv'
<1>1. Numbers'
  BY NumbersKept DEF OrderInv
<1>2. Calls' /\ FirstWrite' /\ \A c \in Children : WaitsInOrder(c)'
  BY CallsAlone DEF OrderInv
<1>3. ASSUME NEW c \in Children PROVE ArriveInOrder(c)'
  BY DEF OrderInv, ArriveInOrder
<1> QED
  BY <1>1, <1>2, <1>3 DEF OrderInv

(* A step that touches the channels, and the life, of one process.         *)
LEMMA OneProcessOrder ==
  ASSUME TypeOK, TypeOK', NoneForked, OrderInv, NEW c \in Children, c <= forked,
         UNCHANGED <<world, mode, child, forked, ready, sem, sends, writing, written>>,
         \A d \in Children : d # c => /\ inbox'[d] = inbox[d] /\ msgs'[d] = msgs[d]
                                      /\ owed'[d] = owed[d] /\ got'[d] = got[d],
         ArriveInOrder(c)'
  PROVE  OrderInv'
<1>1. \A d \in Children : d > forked => d # c
  BY Types DEF Children
<1>2. Numbers'
  BY <1>1, NumbersKept DEF OrderInv
<1>3. Calls' /\ FirstWrite' /\ \A d \in Children : WaitsInOrder(d)'
  BY CallsAlone DEF OrderInv
<1>4. ASSUME NEW d \in Children PROVE ArriveInOrder(d)'
  <2>1. CASE d = c
    BY <2>1
  <2>2. CASE d # c
    BY <2>2 DEF OrderInv, ArriveInOrder
  <2> QED
    BY <2>1, <2>2
<1> QED
  BY <1>2, <1>3, <1>4 DEF OrderInv

(* A process that was forked has a number that was given.                  *)
LEMMA Given ==
  ASSUME TypeOK, NoneForked, Numbers, NEW c \in Children,
         proc[c] # "none" \/ msgs[c] # <<>> \/ inbox[c] # <<>>
  PROVE  c <= forked
<1>1. ~(c > forked)
  BY DEF NoneForked, Numbers
<1>2. c \in Nat /\ forked \in Nat
  BY NumberFacts, BoundsAssumption DEF Children
<1> QED
  BY <1>1, <1>2

LEMMA WorkerTakesOrder ==
  ASSUME TypeOK, TypeOK', NoneForked, OrderInv, NEW c \in Children, WorkerTakes(c)
  PROVE  OrderInv'
<1> DEFINE m == Head(inbox[c])
<1>1. /\ inbox[c] # <<>> /\ inbox' = [inbox EXCEPT ![c] = Tail(inbox[c])]
      /\ UNCHANGED master
  BY DEF WorkerTakes
<1>2. UNCHANGED <<world, mode, child, forked, ready, sem, sends, writing, written>>
  BY <1>1 DEF master
<1>3. c <= forked
  BY <1>1, Given DEF OrderInv
<1>4. /\ inbox'[c] = Tail(inbox[c]) /\ inbox[c] \in Seq(Commands)
      /\ \A d \in Children : d # c => inbox'[d] = inbox[d]
  BY <1>1, Types
<1>5. ArriveInOrder(c)
  BY DEF OrderInv
<1>6. /\ EmitsInOrder(inbox'[c])
      /\ m \in Emits => \A e \in EntriesIn(inbox'[c]) : m.entry < e
  <2>1. EmitsInOrder(inbox[c])
    BY <1>5 DEF ArriveInOrder
  <2> QED
    BY <1>1, <1>4, <2>1, EmitsTail
<1>7. /\ EntriesIn(inbox'[c]) \subseteq EntriesIn(inbox[c])
      /\ m \in Emits => m.entry \in EntriesIn(inbox[c])
  BY <1>1, <1>4, EntriesOfTail
<1>8. CASE UNCHANGED <<got, owed>> /\ (Say(c, "success") \/ Say(c, "error") \/ UNCHANGED msgs)
  <2>1. \A d \in Children : d # c => msgs'[d] = msgs[d] /\ owed'[d] = owed[d] /\ got'[d] = got[d]
    BY <1>8, Types DEF Say
  <2>2. ArriveInOrder(c)'
    <3>1. written <= written' /\ got'[c] = got[c]
      BY <1>2, <1>8, Types
    <3>2. \A s \in sends' : child'[s.w] = c =>
            \E t \in sends : child[t.w] = c /\ t.entry = s.entry
      BY <1>2
    <3> HIDE DEF m
    <3> QED
      BY <1>5, <1>6, <1>7, <3>1, <3>2, NoneArrives
  <2> QED
    BY <1>2, <1>3, <1>4, <2>1, <2>2, OneProcessOrder
<1>9. CASE /\ m.cmd = "emit" /\ UNCHANGED msgs
           /\ got' = [got EXCEPT ![c] = Append(got[c], m.entry)]
           /\ owed' = [owed EXCEPT ![c] = owed[c] + 1]
  <2>1. /\ \A d \in Children : d # c =>
             msgs'[d] = msgs[d] /\ owed'[d] = owed[d] /\ got'[d] = got[d]
        /\ got'[c] = Append(got[c], m.entry) /\ got[c] \in Seq(Entries)
    BY <1>9, Types
  <2>2. m \in Emits /\ m.entry \in Entries
    <3>1. m.entry \in Entries /\ m = Command("emit", m.entry)
      BY <1>1, <1>9, Taken
    <3> HIDE DEF m
    <3> QED
      BY <3>1, EmitFacts
  <2> HIDE DEF m
  <2>3. Entries \subseteq Nat
    BY BoundsAssumption DEF Entries
  <2>4. Range(got'[c]) = Range(got[c]) \cup {m.entry}
    BY <2>1, <2>2, AppendRange
  <2>5. Increasing(got'[c])
    <3>1. \A y \in Range(got[c]) : y < m.entry
      BY <1>5, <1>7, <2>2 DEF ArriveInOrder
    <3>2. Increasing(got[c])
      BY <1>5 DEF ArriveInOrder
    <3> QED
      BY <2>1, <2>2, <2>3, <3>1, <3>2, IncreasingAppend
  <2>6. \A e \in Range(got'[c]), f \in EntriesIn(inbox'[c]) : e < f
    BY <1>5, <1>6, <1>7, <2>2, <2>4 DEF ArriveInOrder
  <2>7. Range(got'[c]) \cup EntriesIn(inbox'[c]) \subseteq Range(got[c]) \cup EntriesIn(inbox[c])
    BY <1>7, <2>2, <2>4
  <2>8. \A e \in Range(got'[c]) \cup EntriesIn(inbox'[c]) :
          e <= written' /\ \A s \in sends' : child'[s.w] = c => e < s.entry
    BY <1>2, <1>5, <2>7 DEF ArriveInOrder
  <2>9. ArriveInOrder(c)'
    BY <1>6, <2>5, <2>6, <2>8 DEF ArriveInOrder
  <2> QED
    BY <1>2, <1>3, <1>4, <2>1, <2>9, OneProcessOrder
<1> QED
  BY <1>8, <1>9 DEF WorkerTakes, TakeStart, TakeStop, TakeEntry

LEMMA SaysOrder ==
  ASSUME TypeOK, TypeOK', NoneForked, OrderInv, NEW c \in Children,
         Started(c) \/ FailStart(c) \/ SendStats(c) \/ Ack(c)
  PROVE  OrderInv'
<1>1. /\ proc[c] \in Up /\ UNCHANGED <<master, inbox, got>>
      /\ owed' = owed \/ owed' = [owed EXCEPT ![c] = owed[c] - 1]
      /\ Say(c, "success") \/ Say(c, "failed") \/ Say(c, "stats") \/ Say(c, "ack")
  BY DEF Started, FailStart, SendStats, Ack, Up, workers
<1>2. UNCHANGED <<world, mode, child, forked, ready, sem, sends, writing, written>>
  BY <1>1 DEF master
<1>3. c <= forked
  BY <1>1, Given DEF OrderInv, Up
<1>4. \A d \in Children : d # c => msgs'[d] = msgs[d] /\ owed'[d] = owed[d]
  BY <1>1, Types DEF Say
<1>5. ArriveInOrder(c)'
  BY <1>1, <1>2 DEF OrderInv, ArriveInOrder
<1> QED
  BY <1>1, <1>2, <1>3, <1>4, <1>5, OneProcessOrder

LEMMA DieOrder ==
  ASSUME TypeOK, TypeOK', NoneForked, OrderInv, NEW c \in Children, Die(c), proc[c] \in Up
  PROVE  OrderInv'
<1>1. /\ inbox' = [inbox EXCEPT ![c] = <<>>] /\ owed' = [owed EXCEPT ![c] = 0]
      /\ UNCHANGED <<master, got, msgs>>
  BY DEF Die
<1>2. UNCHANGED <<world, mode, child, forked, ready, sem, sends, writing, written>>
  BY <1>1 DEF master
<1>3. c <= forked
  BY Given DEF OrderInv, Up
<1>4. /\ inbox'[c] = <<>>
      /\ \A d \in Children : d # c => inbox'[d] = inbox[d] /\ owed'[d] = owed[d]
  BY <1>1, Types
<1>5. ArriveInOrder(c)'
  <2>1. EmitsInOrder(inbox'[c]) /\ EntriesIn(inbox'[c]) = {}
    <3>1. Range(inbox'[c]) = {} /\ Len(inbox'[c]) = 0
      BY <1>4 DEF Range
    <3> QED
      BY <3>1 DEF EmitsInOrder, EntriesIn
  <2>2. written <= written' /\ got'[c] = got[c]
    BY <1>1, <1>2, Types
  <2>3. \A s \in sends' : child'[s.w] = c =>
          \E t \in sends : child[t.w] = c /\ t.entry = s.entry
    BY <1>2
  <2> QED
    BY <2>1, <2>2, <2>3, NoneArrives DEF OrderInv
<1> QED
  BY <1>1, <1>2, <1>3, <1>4, <1>5, OneProcessOrder

LEMMA CloseOrder ==
  ASSUME TypeOK, TypeOK', NoneForked, OrderInv, NEW c \in Children, Close(c)
  PROVE  OrderInv'
  BY QuietOrder DEF Close

LEMMA CloseForkOrder ==
  ASSUME TypeOK, TypeOK', NoneForked, OrderInv, CloseFork
  PROVE  OrderInv'
<1>1. /\ inbox' = [c \in Children |->
                     IF proc[c] \in Up /\ \E w \in Workers : child[w] = c
                       THEN Append(inbox[c], Command("stop", 0)) ELSE inbox[c]]
      /\ UNCHANGED <<world, mode, child, forked, ready, sem, sends, writing, written, msgs,
                     owed, got>>
  BY DEF CloseFork, workers
<1>2. Calls' /\ FirstWrite' /\ \A d \in Children : WaitsInOrder(d)'
  BY <1>1, CallsAlone DEF OrderInv
<1>3. \A d \in Children : d > forked => inbox'[d] = inbox[d]
  <2>1. \A d \in Children : d > forked => proc[d] \notin Up
    BY DEF NoneForked, Up
  <2> QED
    BY <1>1, <2>1
<1>4. Numbers'
  BY <1>1, <1>3, NumbersKept DEF OrderInv
<1>5. ASSUME NEW d \in Children PROVE ArriveInOrder(d)'
  <2>1. ArriveInOrder(d) /\ inbox[d] \in Seq(Commands)
    BY Types DEF OrderInv
  <2>2. Command("stop", 0) \in Commands /\ Command("stop", 0) \notin Emits
    BY CommandTypes DEF Emits, Command
  <2>3. EmitsInOrder(inbox[d])
    BY <2>1 DEF ArriveInOrder
  <2>4. /\ EmitsInOrder(Append(inbox[d], Command("stop", 0)))
        /\ EntriesIn(Append(inbox[d], Command("stop", 0))) = EntriesIn(inbox[d])
    BY <2>1, <2>2, <2>3, EmitsAppend, EntriesOfAppend
  <2>5. EmitsInOrder(inbox'[d]) /\ EntriesIn(inbox'[d]) \subseteq EntriesIn(inbox[d])
    BY <1>1, <2>3, <2>4
  <2>6. written <= written' /\ got'[d] = got[d]
    BY <1>1, Types
  <2>7. \A s \in sends' : child'[s.w] = d =>
          \E t \in sends : child[t.w] = d /\ t.entry = s.entry
    BY <1>1
  <2> QED
    BY <2>1, <2>5, <2>6, <2>7, NoneArrives
<1> QED
  BY <1>2, <1>4, <1>5 DEF OrderInv

LEMMA EndWriteOrder ==
  ASSUME TypeOK, TypeOK', NoneForked, OrderInv, EndWrite
  PROVE  OrderInv'
<1>1. /\ writing # 0 /\ (\A s \in sends : s.entry # writing) /\ writing' = 0
      /\ UNCHANGED <<world, mode, child, forked, ready, sem, sends, written, inbox, msgs,
                     owed, got>>
  BY DEF EndWrite, workers
<1>2. Workers' = Workers /\ RestartedWorker' = RestartedWorker
  BY <1>1 DEF Workers, RestartedWorker
<1>3. Numbers'
  BY <1>1, NumbersKept DEF OrderInv
<1>4. \A s \in sends : /\ s.entry <= written /\ s.c \in ready /\ s.w # RestartedWorker
                       /\ s.c = s.w /\ s.entry # 0
  BY <1>1, CallFacts DEF OrderInv
<1>5. Calls'
  BY <1>1, <1>2, <1>4 DEF OrderInv, Calls, MayGo
<1>6. FirstWrite'
  <2>1. mode # "all" => sends = {}
    BY <1>1 DEF OrderInv, FirstWrite
  <2>2. writing = 1 => sends = {}
    <3>1. ASSUME writing = 1, NEW s \in sends PROVE FALSE
      <4>1. written = 1
        BY <3>1 DEF OrderInv, FirstWrite
      <4>2. s.entry \in Nat /\ s.entry # 0 /\ s.entry <= written
        BY CallFacts DEF OrderInv
      <4> QED
        BY <1>1, <3>1, <4>1, <4>2
    <3> QED
      BY <3>1
  <2> QED
    BY <1>1, <1>2, <2>1, <2>2 DEF OrderInv, FirstWrite
<1>7. ASSUME NEW c \in Children PROVE WaitsInOrder(c)' /\ ArriveInOrder(c)'
  BY <1>1 DEF OrderInv, WaitsInOrder, ArriveInOrder
<1> QED
  BY <1>3, <1>5, <1>6, <1>7 DEF OrderInv

LEMMA SendOrder ==
  ASSUME TypeOK, TypeOK', NoneForked, OrderInv, NEW s \in sends, Send(s)
  PROVE  OrderInv'
<1> DEFINE d == child[s.w]
           m == Command("emit", s.entry)
<1>1. /\ s.held /\ s.c \in ready /\ sends' = sends \ {s} /\ Post(d, m)
      /\ UNCHANGED <<world, mode, child, forked, ready, sem, writing, written, msgs, owed,
                     got>>
  BY DEF Send, MayGo, workers
<1>2. Workers' = Workers /\ RestartedWorker' = RestartedWorker
  BY <1>1 DEF Workers, RestartedWorker
<1>3. s.w \in Workers /\ s.entry \in Entries /\ s.entry \in Nat /\ s.entry <= written
  BY CallFacts DEF OrderInv
<1>4. d \in Children /\ d <= forked /\ d \in Nat /\ forked \in Nat
  BY <1>3, NumberFacts DEF OrderInv
<1>5. m \in Commands /\ m \in Emits /\ m.entry = s.entry
  BY <1>3, EmitFacts
<1>6. /\ \A c \in Children : c # d => inbox'[c] = inbox[c]
      /\ inbox'[d] = inbox[d] \/ inbox'[d] = Append(inbox[d], m)
  <2> HIDE DEF d, m
  <2> QED
    BY <1>1, <1>4, <1>5, Types DEF Post
<1> HIDE DEF m
<1>7. Numbers'
  <2>1. \A c \in Children : c > forked => c # d
    BY <1>4
  <2> HIDE DEF d
  <2> QED
    BY <1>1, <1>6, <2>1, NumbersKept DEF OrderInv
<1>8. Calls'
  BY <1>1, <1>2 DEF OrderInv, Calls, MayGo
<1>9. FirstWrite'
  <2>1. ASSUME NEW w \in Workers, mode = "all"
        PROVE  \/ w = RestartedWorker \/ w \in ready \/ written = 0
               \/ writing = 1 /\ \E t \in sends' : t.w = w
    <3>1. \/ w = RestartedWorker \/ w \in ready \/ written = 0
          \/ writing = 1 /\ \E t \in sends : t.w = w
      BY <2>1 DEF OrderInv, FirstWrite
    <3>2. s.w = w => w = RestartedWorker \/ w \in ready
      BY <1>1, CallFacts DEF OrderInv
    <3> QED
      BY <1>1, <3>1, <3>2
  <2>2. /\ written = 0 => \A c \in Children : sem[c].cur <= 0
        /\ writing = 1 => written = 1 /\ \A t \in sends : t.held
        /\ mode # "all" => \A t, u \in sends : t.entry = writing /\ t = u
    BY DEF OrderInv, FirstWrite
  <2> QED
    BY <1>1, <1>2, <2>1, <2>2 DEF FirstWrite
<1>10. ASSUME NEW c \in Children PROVE WaitsInOrder(c)'
  BY <1>1 DEF OrderInv, WaitsInOrder
(* The calls that are left for this worker come later.                     *)
<1>11. \A t \in sends' : t.w = s.w => s.entry < t.entry
  <2> SUFFICES ASSUME NEW t \in sends, t # s, t.w = s.w PROVE s.entry < t.entry
    BY <1>1
  <2>1. t.entry # s.entry /\ ~(MayGo(s) /\ MayGo(t))
    BY DEF OrderInv, Calls
  <2>2. /\ s.w # RestartedWorker => s.c = s.w /\ t.c = s.w
        /\ s.w = RestartedWorker => s.entry = writing /\ t.entry = writing
        /\ t.entry \in Nat /\ s.c \in Children
    BY CallFacts DEF OrderInv
  <2>3. t.c = s.c
    BY <2>1, <2>2
  <2>4. ~t.held
    BY <1>1, <2>1, <2>3 DEF MayGo
  <2> QED
    BY <1>1, <2>2, <2>3, <2>4 DEF OrderInv, WaitsInOrder
<1>12. \A t \in sends' : \A c \in Children : child[t.w] = d => t.w = s.w
  <2>1. \A t \in sends : t.w \in Workers
    BY CallFacts DEF OrderInv
  <2> QED
    BY <1>1, <1>3, <2>1, NumberFacts DEF OrderInv
<1>13. ASSUME NEW c \in Children PROVE ArriveInOrder(c)'
  <2>1. ArriveInOrder(c)
    BY DEF OrderInv
  <2>2. \A t \in sends' : child'[t.w] = c =>
          \E u \in sends : child[u.w] = c /\ u.entry = t.entry
    BY <1>1
  <2>3. CASE inbox'[c] = inbox[c]
    <3>1. EmitsInOrder(inbox'[c]) /\ written <= written' /\ got'[c] = got[c]
      BY <1>1, <2>1, <2>3, Types DEF ArriveInOrder
    <3> QED
      BY <2>1, <2>2, <2>3, <3>1, NoneArrives
  <2>4. CASE c = d /\ inbox'[c] = Append(inbox[c], m)
    <3>1. \A e \in Range(got[c]) \cup EntriesIn(inbox[c]) : e < s.entry
      BY <2>1, <2>4 DEF ArriveInOrder
    <3>2. inbox[c] \in Seq(Commands) /\ EmitsInOrder(inbox[c])
      BY <2>1, Types DEF ArriveInOrder
    <3> HIDE DEF d
    <3>3. EmitsInOrder(inbox'[c])
      BY <1>5, <2>4, <3>1, <3>2, EmitsAppend
    <3>4. EntriesIn(inbox'[c]) = EntriesIn(inbox[c]) \cup {s.entry}
      BY <1>5, <2>4, <3>2, EntriesOfAppend
    <3>5. \A e \in Range(got'[c]), f \in EntriesIn(inbox'[c]) : e < f
      BY <1>1, <2>1, <3>1, <3>4 DEF ArriveInOrder
    <3>6. ASSUME NEW e \in Range(got'[c]) \cup EntriesIn(inbox'[c])
          PROVE  e <= written' /\ \A t \in sends' : child'[t.w] = c => e < t.entry
      <4>1. CASE e = s.entry
        <5>1. \A t \in sends' : child[t.w] = c => e < t.entry
          BY <1>11, <1>12, <2>4, <4>1
        <5> QED
          BY <1>1, <1>3, <4>1, <5>1
      <4>2. CASE e # s.entry
        <5>1. e \in Range(got[c]) \cup EntriesIn(inbox[c])
          BY <1>1, <3>4, <3>6, <4>2
        <5> QED
          BY <1>1, <2>1, <5>1 DEF ArriveInOrder
      <4> QED
        BY <4>1, <4>2
    <3>7. Increasing(got'[c])
      BY <1>1, <2>1 DEF ArriveInOrder
    <3> QED
      BY <3>3, <3>5, <3>6, <3>7 DEF ArriveInOrder
  <2> QED
    BY <1>6, <2>3, <2>4
<1> QED
  BY <1>7, <1>8, <1>9, <1>10, <1>13 DEF OrderInv

LEMMA WriteOrder ==
  ASSUME TypeOK, TypeOK', NoneForked, OrderInv, NEW e \in Entries, Write(e)
  PROVE  OrderInv'
<1> DEFINE call(w) == [entry |-> e, w |-> w, c |-> child[w],
                       held |-> Available(sem[child[w]])]
<1>1. /\ (\A s \in sends : ~MayGo(s)) /\ writing = 0 /\ e = written + 1
      /\ written' = e /\ writing' = e
      /\ UNCHANGED <<world, mode, child, forked, ready, inbox, msgs, owed, got>>
  BY DEF Write, NoMicrotask, workers
<1>2. PICK T \in Targets : AskSlots(e, T)
  BY DEF Write
<1>3. /\ sem' = [c \in Children |->
                   IF c \in {child[w] : w \in T} THEN Take(sem[c], e) ELSE sem[c]]
      /\ sends' = sends \cup {call(w) : w \in T}
  BY <1>2 DEF AskSlots
<1>4. T \subseteq Workers /\ T # {}
  BY TargetsType
<1>5. Workers' = Workers /\ RestartedWorker' = RestartedWorker
  BY <1>1 DEF Workers, RestartedWorker
<1>6. /\ written \in Nat /\ forked \in Nat /\ e \in Nat
      /\ \A w \in Workers : /\ child[w] \in Children /\ child[w] \in Nat
                            /\ child[w] <= forked
                            /\ w # RestartedWorker => child[w] = w
      /\ child[RestartedWorker] >= RestartedWorker /\ RestartedWorker \in Nat
      /\ RestartedWorker \in Workers
      /\ \A v, w \in Workers : child[v] = child[w] => v = w
  BY NumberFacts, BoundsAssumption DEF OrderInv, Entries
<1>7. \A s \in sends : /\ s.w # RestartedWorker /\ s.c = s.w /\ s.c \in ready /\ ~s.held
                       /\ s.entry \in Nat /\ s.entry # 0 /\ s.entry <= written
                       /\ s.entry # e /\ s.entry < e
  BY <1>1, <1>6, CallFacts DEF OrderInv, MayGo
<1>8. \A w \in T : /\ call(w).entry = e /\ call(w).w = w /\ call(w).c = child[w]
                   /\ call(w).held = Available(sem[child[w]])
  OBVIOUS
<1>9. \A s \in sends' : s \in sends \/ \E w \in T : s = call(w)
  BY <1>3
<1>10. sends \subseteq sends' /\ \A w \in T : call(w) \in sends'
  BY <1>3
<1> HIDE DEF call
<1>11. Numbers'
  <2>1. \A c \in Children : c > forked => sem'[c] = sem[c]
    BY <1>3, <1>4, <1>6
  <2> QED
    BY <1>1, <2>1, NumbersKept DEF OrderInv
<1>12. Calls'
  <2>1. ASSUME NEW s \in sends'
        PROVE  /\ s.entry <= written'
               /\ IF s.w = RestartedWorker
                    THEN s.entry = writing' /\ s.c \in RestartedWorker..child[s.w]
                    ELSE s.c = s.w
               /\ s.entry # writing' => s.c \in ready
    <3>1. CASE s \in sends
      BY <1>1, <1>6, <1>7, <3>1
    <3>2. CASE \E w \in T : s = call(w)
      <4>1. PICK w \in T : s = call(w)
        BY <3>2
      <4>2. s.entry = e /\ s.w = w /\ s.c = child[w] /\ w \in Workers
        BY <1>4, <1>8, <4>1
      <4> QED
        BY <1>1, <1>6, <4>2
    <3> QED
      BY <1>9, <3>1, <3>2
  <2>2. ASSUME NEW s \in sends', NEW t \in sends', s.w = t.w,
               s.entry = t.entry \/ ((s.held /\ s.c \in ready) /\ (t.held /\ t.c \in ready))
        PROVE  s = t
    <3>1. CASE s \in sends /\ t \in sends
      <4>1. s.entry = t.entry
        BY <1>7, <2>2, <3>1
      <4> QED
        BY <2>2, <3>1, <4>1 DEF OrderInv, Calls
    <3>2. CASE s \in sends /\ \E w \in T : t = call(w)
      BY <1>7, <1>8, <2>2, <3>2
    <3>3. CASE t \in sends /\ \E w \in T : s = call(w)
      BY <1>7, <1>8, <2>2, <3>3
    <3>4. CASE (\E w \in T : s = call(w)) /\ (\E w \in T : t = call(w))
      BY <1>8, <2>2, <3>4
    <3> QED
      BY <1>9, <3>1, <3>2, <3>3, <3>4
  <2> QED
    BY <1>1, <1>5, <2>1, <2>2 DEF Calls, MayGo
<1>13. ASSUME NEW c \in Children
       PROVE  /\ sem[c].cap = world.hwm /\ sem[c].cap \in Nat \ {0} /\ sem[c].cur \in Int
              /\ sem[c].cur <= world.hwm /\ sem[c].wait \in Seq(Entries)
              /\ sem[c].wait # <<>> => sem[c].cur = world.hwm
              /\ sem[c] \in SemaphoreOf(Entries)
  <2>1. sem[c] \in SemaphoreOf(Entries) /\ world.hwm \in Nat \ {0}
    BY Types, WorldFacts
  <2> QED
    BY <2>1 DEF OrderInv, WaitsInOrder, SemaphoreOf
<1>14. FirstWrite'
  <2>1. written' # 0
    BY <1>1, <1>6
  <2>2. ASSUME e = 1, NEW s \in sends' PROVE s.held
    <3>1. s \notin sends
      BY <1>1, <1>6, <1>7, <2>2
    <3>2. PICK w \in T : s = call(w)
      BY <1>9, <3>1
    <3>3. child[w] \in Children /\ sem[child[w]].cur <= 0
      BY <1>1, <1>4, <1>6, <2>2 DEF OrderInv, FirstWrite
    <3>4. Available(sem[child[w]])
      BY <1>13, <3>3 DEF Available
    <3> QED
      BY <1>8, <3>2, <3>4
  <2>3. ASSUME mode # "all", NEW s \in sends', NEW t \in sends'
        PROVE  s.entry = writing' /\ s = t
    <3>1. sends = {}
      <4>1. \A u \in sends : u.entry = writing
        BY <2>3 DEF OrderInv, FirstWrite
      <4> QED
        BY <1>1, <1>7, <4>1
    <3>2. \A v, w \in T : v = w
      BY <2>3, Types DEF Targets, ModesOfFlows
    <3> QED
      BY <1>1, <1>8, <1>9, <2>3, <3>1, <3>2
  <2>4. ASSUME mode = "all", NEW w \in Workers
        PROVE  \/ w = RestartedWorker \/ w \in ready
               \/ writing' = 1 /\ \E s \in sends' : s.w = w
    <3>1. CASE e = 1
      <4>1. T = Workers
        BY <1>2, <2>4 DEF Targets
      <4> QED
        BY <1>1, <1>8, <1>10, <3>1, <4>1
    <3>2. CASE e # 1
      BY <1>1, <1>6, <2>4, <3>2 DEF OrderInv, FirstWrite
    <3> QED
      BY <3>1, <3>2
  <2> QED
    BY <1>1, <1>5, <2>1, <2>2, <2>3, <2>4 DEF FirstWrite
<1>15. ASSUME NEW c \in Children PROVE WaitsInOrder(c)'
  <2>1. /\ Increasing(sem[c].wait)
        /\ \A i \in Entries : i \in Range(sem[c].wait) <=>
             \E s \in sends : s.c = c /\ ~s.held /\ s.entry = i
        /\ \A s, t \in sends : s.c = c /\ t.c = c /\ s.held /\ ~t.held => s.entry < t.entry
    BY DEF OrderInv, WaitsInOrder
  <2>2. CASE ~\E w \in T : child[w] = c
    <3>1. sem'[c] = sem[c]
      BY <1>3, <2>2
    <3>2. \A s : s \in sends' /\ s.c = c <=> s \in sends /\ s.c = c
      BY <1>8, <1>9, <1>10, <2>2
    <3> QED
      BY <1>1, <1>13, <2>1, <3>1, <3>2 DEF WaitsInOrder
  <2>3. ASSUME NEW w \in T, child[w] = c
        PROVE  WaitsInOrder(c)'
    <3>1. sem'[c] = Take(sem[c], e)
      BY <1>3, <2>3
    <3>2. \A s : s \in sends' /\ s.c = c <=> (s \in sends /\ s.c = c) \/ s = call(w)
      <4>1. \A v \in T : child[v] = c => v = w
        BY <1>4, <1>6, <2>3
      <4> QED
        BY <1>8, <1>9, <1>10, <2>3, <4>1
    <3>3. call(w).entry = e /\ call(w).c = c /\ call(w).held = Available(sem[c])
      BY <1>8, <2>3
    <3>4. CASE Available(sem[c])
      <4>1. /\ sem'[c].cap = world.hwm /\ sem'[c].cur = sem[c].cur + 1
            /\ sem'[c].wait = sem[c].wait /\ sem[c].cur + 1 <= world.hwm
        BY <1>13, <3>1, <3>4, TakeProperties DEF Available
      <4>2. sem[c].wait = <<>>
        BY <1>13, <4>1
      <4>3. \A s \in sends : s.c = c => s.held
        <5>1. Range(sem[c].wait) = {}
          BY <4>2 DEF Range
        <5>2. \A s \in sends : s.entry \in Entries
          BY CallFacts DEF OrderInv
        <5> QED
          BY <2>1, <5>1, <5>2
      <4>4. \A s \in sends' : s.c = c => s.held
        BY <3>2, <3>3, <3>4, <4>3
      <4>5. \A i \in Entries : i \notin Range(sem'[c].wait)
        BY <4>1, <4>2 DEF Range
      <4> QED
        BY <1>1, <2>1, <4>1, <4>2, <4>4, <4>5 DEF WaitsInOrder
    <3>5. CASE ~Available(sem[c])
      <4>1. /\ sem'[c].cap = world.hwm /\ sem'[c].cur = sem[c].cur
            /\ sem'[c].wait = Append(sem[c].wait, e) /\ sem[c].cur = world.hwm
        <5>1. ~(sem[c].cur + 1 <= world.hwm)
          BY <1>13, <3>5 DEF Available
        <5>2. sem[c].cur = world.hwm
          BY <1>13, <5>1
        <5>3. /\ Take(sem[c], e).cap = sem[c].cap /\ Take(sem[c], e).cur = sem[c].cur
              /\ Take(sem[c], e).wait = Append(sem[c].wait, e)
          BY SMTT(30), <1>13, <3>5, TakeProperties
        <5> QED
          BY <1>13, <3>1, <5>2, <5>3
      <4>2. /\ Range(sem'[c].wait) = Range(sem[c].wait) \cup {e}
            /\ sem'[c].wait # <<>>
        BY <1>13, <4>1, AppendRange, AppendProperties
      <4>3. \A i \in Range(sem[c].wait) : i < e
        <5>1. Range(sem[c].wait) \subseteq Entries
          BY <1>13, RangeOfSeq
        <5> QED
          BY <1>7, <2>1, <5>1
      <4>4. Increasing(sem'[c].wait)
        <5>1. Entries \subseteq Nat
          BY BoundsAssumption DEF Entries
        <5>2. Increasing(Append(sem[c].wait, e))
          BY <1>13, <2>1, <4>3, <5>1, IncreasingAppend
        <5> QED
          BY <4>1, <5>2
      <4>5. \A i \in Entries : i \in Range(sem'[c].wait) <=>
              \E s \in sends' : s.c = c /\ ~s.held /\ s.entry = i
        BY <2>1, <3>2, <3>3, <3>5, <4>2
      <4>6. \A s, t \in sends' : s.c = c /\ t.c = c /\ s.held /\ ~t.held => s.entry < t.entry
        BY <1>7, <2>1, <3>2, <3>3, <3>5
      <4>7. sem'[c].cap = world'.hwm /\ sem'[c].cur = world'.hwm
        BY <1>1, <4>1
      <4>8. sem'[c].cur <= world'.hwm
        BY <1>1, <1>13, <4>7
      <4> QED
        BY <4>4, <4>5, <4>6, <4>7, <4>8 DEF WaitsInOrder
    <3> QED
      BY <3>4, <3>5
  <2> QED
    BY <2>2, <2>3
<1>16. ASSUME NEW c \in Children PROVE ArriveInOrder(c)'
  <2>1. ArriveInOrder(c)
    BY DEF OrderInv
  <2>2. /\ EmitsInOrder(inbox'[c]) /\ EntriesIn(inbox'[c]) \subseteq EntriesIn(inbox[c])
        /\ written <= written' /\ got'[c] = got[c]
    BY <1>1, <1>6, <2>1 DEF ArriveInOrder
  <2>3. \A s \in sends' : child'[s.w] = c =>
          s.entry > written \/ \E t \in sends : child[t.w] = c /\ t.entry = s.entry
    <3>1. \A w \in T : call(w).entry > written
      BY <1>1, <1>6, <1>8
    <3> QED
      BY <1>1, <1>9, <3>1
  <2> QED
    BY <2>1, <2>2, <2>3, NoneArrives
<1> QED
  BY <1>11, <1>12, <1>14, <1>15, <1>16 DEF OrderInv

(* What a leave() does to the calls: it grants the first that waits.       *)
LEMMA LeaveGrants ==
  ASSUME TypeOK, OrderInv, NEW c \in Children, LeaveSem(c)
  PROVE  \/ /\ sem[c].wait = <<>> /\ sem'[c].wait = <<>> /\ sends' = sends
            /\ sem'[c].cap = sem[c].cap /\ sem'[c].cur = sem[c].cur - 1
            /\ \A d \in Children : d # c => sem'[d] = sem[d]
         \/ \E r \in sends :
              /\ r.c = c /\ ~r.held /\ r.entry = Head(sem[c].wait)
              /\ sem[c].wait # <<>> /\ sem'[c].wait = Tail(sem[c].wait)
              /\ sem'[c].cap = sem[c].cap /\ sem'[c].cur = sem[c].cur
              /\ sends' = (sends \ {r}) \cup {[r EXCEPT !.held = TRUE]}
              /\ \A d \in Children : d # c => sem'[d] = sem[d]
<1>1. /\ sem[c] \in SemaphoreOf(Entries) /\ sem[c].wait \in Seq(Entries)
      /\ sem[c].cap = world.hwm /\ world.hwm \in Nat /\ sem[c].cur \in Int
      /\ sem[c].cur <= world.hwm
  <2>1. sem[c] \in SemaphoreOf(Entries) /\ world.hwm \in Nat
    BY Types, WorldFacts
  <2> QED
    BY <2>1 DEF OrderInv, WaitsInOrder, SemaphoreOf
<1>2. /\ sem'[c] = Leave(sem[c])
      /\ \A d \in Children : d # c => sem'[d] = sem[d]
      /\ sends' = {IF s.c = c /\ s.entry \in Woken(sem[c])
                     THEN [s EXCEPT !.held = TRUE] ELSE s : s \in sends}
  BY Types DEF LeaveSem
<1>3. CASE sem[c].wait = <<>>
  <2>1. ~HandsOver(sem[c])
    BY <1>3 DEF HandsOver
  <2>2. /\ Leave(sem[c]).cur = sem[c].cur - 1 /\ Leave(sem[c]).wait = sem[c].wait
        /\ Leave(sem[c]).cap = sem[c].cap /\ Woken(sem[c]) = {}
    BY <1>1, <2>1, LeaveProperties
  <2>3. sends' = sends
    BY <1>2, <2>2
  <2> QED
    BY <1>2, <1>3, <2>2, <2>3
<1>4. CASE sem[c].wait # <<>>
  <2> DEFINE e == Head(sem[c].wait)
  <2>1. HandsOver(sem[c])
    BY <1>1, <1>4 DEF HandsOver
  <2>2. /\ Leave(sem[c]).cur = sem[c].cur /\ Leave(sem[c]).wait = Tail(sem[c].wait)
        /\ Leave(sem[c]).cap = sem[c].cap /\ Woken(sem[c]) = {e}
    BY <1>1, <2>1, LeaveProperties DEF Woken
  <2>3. e \in Range(sem[c].wait) /\ e \in Entries
    BY <1>1, <1>4, TailRange
  <2>4. PICK r \in sends : r.c = c /\ ~r.held /\ r.entry = e
    BY <2>3 DEF OrderInv, WaitsInOrder
  <2>5. \A s \in sends : s.c = c /\ s.entry \in Woken(sem[c]) <=> s = r
    <3>1. \A s \in sends : s.c = c /\ s.entry = e => s.w = r.w
      BY <2>4, CallOfWorker DEF OrderInv
    <3>2. \A s \in sends : s.w = r.w /\ s.entry = r.entry => s = r
      BY DEF OrderInv, Calls
    <3> QED
      BY <2>2, <2>4, <3>1, <3>2
  <2>6. sends' = (sends \ {r}) \cup {[r EXCEPT !.held = TRUE]}
    <3>1. sends' = {IF s = r THEN [s EXCEPT !.held = TRUE] ELSE s : s \in sends}
      BY <1>2, <2>5
    <3> QED
      BY <3>1
  <2> QED
    BY <1>2, <1>4, <2>2, <2>4, <2>6
<1> QED
  BY <1>3, <1>4

LEMMA LeaveOrder ==
  ASSUME TypeOK, TypeOK', NoneForked, OrderInv, NEW c \in Children, c <= forked,
         LeaveSem(c), NoMicrotask, UNCHANGED <<world, mode, child, forked, ready, writing,
         written, inbox, owed, got>>, \A d \in Children : d > forked => msgs'[d] = msgs[d]
  PROVE  OrderInv'
<1>1. Workers' = Workers /\ RestartedWorker' = RestartedWorker
  BY DEF Workers, RestartedWorker
<1>2. /\ sem[c].cap = world.hwm /\ sem[c].cur <= world.hwm /\ sem[c].cur \in Int
      /\ world.hwm \in Nat /\ sem[c].wait \in Seq(Entries)
  <2>1. sem[c] \in SemaphoreOf(Entries) /\ world.hwm \in Nat
    BY Types, WorldFacts
  <2> QED
    BY <2>1 DEF OrderInv, WaitsInOrder, SemaphoreOf
<1>3. \A d \in Children : d # c => sem'[d] = sem[d]
  BY LeaveGrants
<1>4. Numbers'
  <2>1. \A d \in Children : d > forked => d # c
    BY NumberFacts DEF OrderInv, Children
  <2> QED
    BY <1>3, <2>1, NumbersKept DEF OrderInv
<1>5. CASE /\ sem[c].wait = <<>> /\ sem'[c].wait = <<>> /\ sends' = sends
           /\ sem'[c].cap = sem[c].cap /\ sem'[c].cur = sem[c].cur - 1
  <2>1. Calls' /\ \A d \in Children : ArriveInOrder(d)'
    BY <1>1, <1>5 DEF OrderInv, Calls, MayGo, ArriveInOrder
  <2>2. FirstWrite'
    <3>1. written = 0 => \A d \in Children : sem'[d].cur <= 0
      <4>1. written = 0 => \A d \in Children : sem[d].cur <= 0
        BY DEF OrderInv, FirstWrite
      <4> QED
        BY <1>2, <1>3, <1>5, <4>1
    <3> QED
      BY <1>1, <1>5, <3>1 DEF OrderInv, FirstWrite
  <2>3. \A d \in Children : WaitsInOrder(d)'
    <3>1. ASSUME NEW d \in Children, d # c PROVE WaitsInOrder(d)'
      BY <1>3, <1>5, <3>1 DEF OrderInv, WaitsInOrder
    <3>2. WaitsInOrder(c)'
      <4>1. sem'[c].cur <= world.hwm
        BY <1>2, <1>5
      <4> QED
        BY <1>2, <1>5, <4>1 DEF OrderInv, WaitsInOrder
    <3> QED
      BY <3>1, <3>2
  <2> QED
    BY <1>4, <2>1, <2>2, <2>3 DEF OrderInv
<1>6. ASSUME NEW r \in sends, r.c = c, ~r.held, r.entry = Head(sem[c].wait),
             sem[c].wait # <<>>, sem'[c].wait = Tail(sem[c].wait),
             sem'[c].cap = sem[c].cap, sem'[c].cur = sem[c].cur,
             sends' = (sends \ {r}) \cup {[r EXCEPT !.held = TRUE]}
      PROVE  OrderInv'
  <2> DEFINE g == [r EXCEPT !.held = TRUE]
  <2>1. g.entry = r.entry /\ g.w = r.w /\ g.c = c /\ g.held = TRUE
    BY <1>6, CallFacts DEF OrderInv
  <2>2. \A s \in sends' : s \in sends \/ s = g
    BY <1>6
  <2>3. sends \ {r} \subseteq sends' /\ g \in sends'
    BY <1>6
  <2>4. \A s \in sends' : s # g => s # r
    BY <1>6
  <2> HIDE DEF g
  <2>5. \A s \in sends : s.w = r.w /\ s.entry = r.entry => s = r
    BY DEF OrderInv, Calls
  <2>6. Calls'
    <3>1. ASSUME NEW s \in sends'
          PROVE  /\ s.entry <= written
                 /\ IF s.w = RestartedWorker
                      THEN s.entry = writing /\ s.c \in RestartedWorker..child[s.w]
                      ELSE s.c = s.w
                 /\ s.entry # writing => s.c \in ready
      BY <1>6, <2>1, <2>2 DEF OrderInv, Calls
    <3>2. ASSUME NEW s \in sends', NEW t \in sends', s.w = t.w,
                 s.entry = t.entry \/ (MayGo(s)' /\ MayGo(t)')
          PROVE  s = t
      <4>1. \A u \in sends' : u # g => u \in sends /\ u # r /\ ~MayGo(u)'
        BY <2>2, <2>4 DEF NoMicrotask, MayGo
      <4>2. \A u, v \in sends : u.w = v.w /\ u.entry = v.entry => u = v
        BY DEF OrderInv, Calls
      <4> QED
        BY <2>1, <2>5, <3>2, <4>1, <4>2
    <3> QED
      BY <1>1, <3>1, <3>2 DEF Calls
  <2>7. FirstWrite'
    <3>1. written = 0 => \A d \in Children : sem'[d].cur <= 0
      BY <1>3, <1>6 DEF OrderInv, FirstWrite
    <3>2. writing = 1 => written = 1 /\ \A s \in sends' : s.held
      BY <1>6 DEF OrderInv, FirstWrite
    <3>3. ASSUME mode # "all", NEW s \in sends', NEW t \in sends'
          PROVE  s.entry = writing /\ s = t
      <4>1. \A u, v \in sends : u.entry = writing /\ u = v
        BY <3>3 DEF OrderInv, FirstWrite
      <4>2. s = g /\ t = g
        BY <1>6, <2>2, <2>4, <4>1
      <4> QED
        BY <1>6, <2>1, <4>1, <4>2
    <3>4. \A w : (\E s \in sends : s.w = w) => \E s \in sends' : s.w = w
      BY <2>1, <2>3
    <3> QED
      BY <1>1, <3>1, <3>2, <3>3, <3>4 DEF OrderInv, FirstWrite
  <2>8. ASSUME NEW d \in Children, d # c PROVE WaitsInOrder(d)'
    <3>1. \A s : s \in sends' /\ s.c = d <=> s \in sends /\ s.c = d
      BY <1>6, <2>1, <2>2, <2>3, <2>8
    <3> QED
      BY <1>3, <2>8, <3>1 DEF OrderInv, WaitsInOrder
  <2>9. WaitsInOrder(c)'
    <3>1. /\ Increasing(sem[c].wait) /\ sem[c].cur = world.hwm
          /\ \A e \in Entries : e \in Range(sem[c].wait) <=>
               \E s \in sends : s.c = c /\ ~s.held /\ s.entry = e
          /\ \A s, t \in sends : s.c = c /\ t.c = c /\ s.held /\ ~t.held => s.entry < t.entry
      BY <1>6 DEF OrderInv, WaitsInOrder
    <3>2. Increasing(sem'[c].wait) /\ \A y \in Range(sem'[c].wait) : r.entry < y
      <4>1. Entries \subseteq Nat
        BY BoundsAssumption DEF Entries
      <4> QED
        BY <1>2, <1>6, <3>1, <4>1, IncreasingTail
    <3>3. Range(sem[c].wait) = Range(sem'[c].wait) \cup {r.entry}
      BY <1>2, <1>6, TailRange
    <3>4. r.entry \notin Range(sem'[c].wait)
      <4>1. r.entry \in Nat
        BY CallFacts DEF OrderInv
      <4> QED
        BY <3>2, <4>1
    <3>5. \A t \in sends : /\ t.c = c => (t.entry = r.entry <=> t = r)
                           /\ t.entry \in Entries
      BY <1>6, <2>5, CallOfWorker, CallFacts DEF OrderInv
    <3>6. ASSUME NEW e \in Entries
          PROVE  e \in Range(sem'[c].wait) <=> \E s \in sends' : s.c = c /\ ~s.held /\ s.entry = e
      <4>1. ASSUME e \in Range(sem'[c].wait)
            PROVE  \E s \in sends' : s.c = c /\ ~s.held /\ s.entry = e
        <5>1. PICK s \in sends : s.c = c /\ ~s.held /\ s.entry = e
          BY <3>1, <3>3, <4>1
        <5>2. s # r
          BY <3>4, <4>1, <5>1
        <5> QED
          BY <2>3, <5>1, <5>2
      <4>2. ASSUME NEW s \in sends', s.c = c, ~s.held, s.entry = e
            PROVE  e \in Range(sem'[c].wait)
        <5>1. s \in sends /\ s # r
          BY <2>1, <2>2, <2>4, <4>2
        <5> QED
          BY <3>1, <3>3, <3>5, <4>2, <5>1
      <4> QED
        BY <4>1, <4>2
    <3>7. ASSUME NEW s \in sends', NEW t \in sends', s.c = c, t.c = c, s.held, ~t.held
          PROVE  s.entry < t.entry
      <4>1. t \in sends /\ t # r
        BY <2>1, <2>2, <2>4, <3>7
      <4>2. CASE s = g
        <5>1. t.entry \in Range(sem'[c].wait)
          BY <3>1, <3>3, <3>5, <3>7, <4>1
        <5> QED
          BY <2>1, <3>2, <4>2, <5>1
      <4>3. CASE s # g
        BY <2>2, <3>1, <3>7, <4>1, <4>3
      <4> QED
        BY <4>2, <4>3
    <3>8. sem'[c].cap = world.hwm /\ sem'[c].cur <= world.hwm /\ sem'[c].cur = world.hwm
      BY <1>2, <1>6, <3>1
    <3> QED
      BY <3>2, <3>6, <3>7, <3>8 DEF WaitsInOrder
  <2>10. ASSUME NEW d \in Children PROVE ArriveInOrder(d)'
    <3>1. ArriveInOrder(d)
      BY DEF OrderInv
    <3>2. /\ EmitsInOrder(inbox'[d]) /\ EntriesIn(inbox'[d]) \subseteq EntriesIn(inbox[d])
          /\ written <= written' /\ got'[d] = got[d]
      BY <3>1, Types DEF ArriveInOrder
    <3>3. \A s \in sends' : child'[s.w] = d =>
            \E t \in sends : child[t.w] = d /\ t.entry = s.entry
      BY <2>1, <2>2
    <3> QED
      BY <3>1, <3>2, <3>3, NoneArrives
  <2> QED
    BY <1>4, <2>6, <2>7, <2>8, <2>9, <2>10 DEF OrderInv
<1> QED
  BY <1>5, <1>6, LeaveGrants

LEMMA ReceiveOrder ==
  ASSUME TypeOK, TypeOK', NoneForked, OrderInv, NEW c \in Children, Receive(c)
  PROVE  OrderInv'
<1> DEFINE m == Head(msgs[c])
<1>1. /\ NoMicrotask /\ msgs[c] # <<>> /\ msgs' = [msgs EXCEPT ![c] = Tail(msgs[c])]
      /\ UNCHANGED <<world, mode, child, forked, writing, written, owed, got>>
  BY DEF Receive, workers
<1>2. c <= forked /\ forked \in Nat /\ c \in Nat
  BY <1>1, Given, NumberFacts, BoundsAssumption DEF OrderInv, Children
<1>3. /\ \A d \in Children : d # c => msgs'[d] = msgs[d]
      /\ \A d \in Children : d > forked => d # c
  BY <1>1, <1>2, Types
<1>4. CASE c \in starters
  <2>1. HandleStart(c, m)
    BY <1>4 DEF Receive
  <2>2. UNCHANGED <<sem, sends>>
    BY <2>1 DEF HandleStart
  <2>3. /\ ready \subseteq ready' /\ ready' \subseteq ready \cup {c}
        /\ \A d \in Children : d # c => inbox'[d] = inbox[d]
        /\ inbox'[c] = inbox[c] \/ inbox'[c] = Append(inbox[c], Command("start", 0))
    <3>1. CASE m = "online"
      <4>1. Post(c, Command("start", 0)) /\ ready' = ready
        BY <2>1, <3>1 DEF HandleStart
      <4> QED
        BY <4>1, Types DEF Post
    <3>2. CASE m # "online"
      BY <2>1, <3>2 DEF HandleStart
    <3> QED
      BY <3>1, <3>2
  <2>4. Workers' = Workers /\ RestartedWorker' = RestartedWorker
    BY <1>1 DEF Workers, RestartedWorker
  <2>5. Numbers'
    BY <1>1, <1>3, <2>2, <2>3, NumbersKept DEF OrderInv
  <2>6. Calls'
    <3>1. ASSUME NEW s \in sends, NEW t \in sends, s.w = t.w, MayGo(s)', MayGo(t)'
          PROVE  s = t
      <4>1. ~MayGo(s) /\ ~MayGo(t)
        BY <1>1 DEF NoMicrotask
      <4>2. s.c = c /\ t.c = c /\ c \notin ready
        BY <2>3, <3>1, <4>1 DEF MayGo
      <4>3. s.entry = writing /\ t.entry = writing
        BY <4>2, CallFacts DEF OrderInv
      <4> QED
        BY <3>1, <4>3 DEF OrderInv, Calls
    <3>2. \A s, t \in sends : s.w = t.w /\ s.entry = t.entry => s = t
      BY DEF OrderInv, Calls
    <3>3. \A s \in sends :
            /\ s.entry <= written
            /\ IF s.w = RestartedWorker
                 THEN s.entry = writing /\ s.c \in RestartedWorker..child[s.w]
                 ELSE s.c = s.w
            /\ s.entry # writing => s.c \in ready'
      BY <2>3 DEF OrderInv, Calls
    <3> QED
      BY <1>1, <2>2, <2>4, <3>1, <3>2, <3>3 DEF Calls
  <2>7. FirstWrite'
    BY <1>1, <2>2, <2>3, <2>4 DEF OrderInv, FirstWrite
  <2>8. \A d \in Children : WaitsInOrder(d)'
    BY <1>1, <2>2 DEF OrderInv, WaitsInOrder
  <2>9. ASSUME NEW d \in Children PROVE ArriveInOrder(d)'
    <3>1. ArriveInOrder(d) /\ inbox[d] \in Seq(Commands)
      BY Types DEF OrderInv
    <3>2. Command("start", 0) \in Commands /\ Command("start", 0) \notin Emits
      BY CommandTypes DEF Emits, Command
    <3>3. EmitsInOrder(inbox[d])
      BY <3>1 DEF ArriveInOrder
    <3>4. /\ EmitsInOrder(Append(inbox[d], Command("start", 0)))
          /\ EntriesIn(Append(inbox[d], Command("start", 0))) = EntriesIn(inbox[d])
      BY <3>1, <3>2, <3>3, EmitsAppend, EntriesOfAppend
    <3>5. EmitsInOrder(inbox'[d]) /\ EntriesIn(inbox'[d]) \subseteq EntriesIn(inbox[d])
      BY <2>3, <3>3, <3>4
    <3>6. written <= written' /\ got'[d] = got[d]
      BY <1>1, Types
    <3>7. \A s \in sends' : child'[s.w] = d =>
            \E t \in sends : child[t.w] = d /\ t.entry = s.entry
      BY <1>1, <2>2
    <3> QED
      BY <3>1, <3>5, <3>6, <3>7, NoneArrives
  <2> QED
    BY <2>5, <2>6, <2>7, <2>8, <2>9 DEF OrderInv
<1>5. CASE c \notin starters
  <2>1. HandleWorker(c, m) /\ UNCHANGED <<ready, inbox>>
    BY <1>5 DEF Receive
  <2>2. CASE LeaveSem(c)
    BY <1>1, <1>2, <1>3, <2>1, <2>2, LeaveOrder
  <2>3. CASE UNCHANGED <<sem, sends>>
    <3>1. Calls' /\ FirstWrite' /\ \A d \in Children : WaitsInOrder(d)'
      BY <1>1, <2>1, <2>3, CallsAlone DEF OrderInv
    <3>2. Numbers'
      BY <1>1, <1>3, <2>1, <2>3, NumbersKept DEF OrderInv
    <3>3. \A d \in Children : ArriveInOrder(d)'
      BY <1>1, <2>1, <2>3 DEF OrderInv, ArriveInOrder
    <3> QED
      BY <3>1, <3>2, <3>3 DEF OrderInv
  <2> QED
    BY <2>1, <2>2, <2>3 DEF HandleWorker
<1> QED
  BY <1>4, <1>5

LEMMA RestartOrder ==
  ASSUME TypeOK, TypeOK', NoneForked, OrderInv, Restart
  PROVE  OrderInv'
<1> DEFINE R == RestartedWorker
           old == child[R]
           new == forked + 1
           rejected == {s \in sends : s.c = old /\ ~s.held}
<1>1. /\ new \in Children /\ forked' = new
      /\ child' = [child EXCEPT ![R] = new]
      /\ sem' = [sem EXCEPT ![old] = Sem(world.hwm)]
      /\ sends' = sends \ rejected
      /\ writing' = IF writing \in {s.entry : s \in rejected} THEN 0 ELSE writing
      /\ msgs' = [msgs EXCEPT ![new] = <<"online">>]
      /\ UNCHANGED <<world, mode, ready, written, owed, got, inbox>>
  BY DEF Restart, Rejected
<1>2. Workers' = Workers /\ RestartedWorker' = R
  BY <1>1 DEF Workers, RestartedWorker
<1>3. /\ R \in Workers /\ R \in Nat \ {0} /\ forked \in Nat /\ old \in Children
      /\ old \in Nat /\ old <= forked /\ old >= R
      /\ \A w \in Workers : w # R => child[w] = w /\ w \in Nat /\ w < R
  BY NumberFacts DEF OrderInv
<1>4. /\ child'[R] = new /\ (\A w \in Workers : w # R => child'[w] = child[w])
      /\ sem'[old] = Sem(world.hwm)
      /\ (\A d \in Children : d # old => sem'[d] = sem[d])
      /\ (\A d \in Children : d # new => msgs'[d] = msgs[d])
  BY <1>1, <1>3, Types
<1>5. \A s \in sends : /\ s.entry \in Nat /\ s.entry # 0 /\ s.entry <= written
                       /\ s.w \in Workers /\ s.c \in Nat /\ s.c <= forked /\ s.c \in Children
                       /\ s.w # R => s.c = s.w
                       /\ s.w = R => s.entry = writing /\ s.c \in R..old
                       /\ s.entry # writing => s.c \in ready
  BY CallFacts DEF OrderInv
<1>6. \A s \in rejected : s.w = R /\ s.entry = writing
  BY <1>3, <1>5
<1>7. \A s \in sends' : s \in sends /\ s \notin rejected
  BY <1>1
<1>8. \A s \in sends : s.c = old /\ ~s.held => s \in rejected
  OBVIOUS
<1>9. rejected \subseteq sends /\ \A s \in rejected : s.c = old /\ ~s.held
  OBVIOUS
<1> HIDE DEF rejected
(* A write ends without the calls of the other workers after the first.    *)
<1>10. ASSUME NEW r \in rejected, NEW s \in sends', s.entry = writing
       PROVE  s.w # R /\ s.c \in ready
  <2>1. s \in sends /\ r \in sends /\ r.entry = writing /\ r.w = R /\ s # r /\ ~r.held
    BY <1>6, <1>7, <1>9, <1>10
  <2>2. s.w # R
    BY <1>10, <2>1 DEF OrderInv, Calls
  <2>3. mode = "all"
    BY <2>1 DEF OrderInv, FirstWrite
  <2>4. writing # 1
    BY <2>1 DEF OrderInv, FirstWrite
  <2>5. written # 0
    BY <1>5, <2>1, NumberFacts DEF OrderInv
  <2>6. s.w \in ready
    BY <1>5, <2>1, <2>2, <2>3, <2>4, <2>5 DEF OrderInv, FirstWrite
  <2> QED
    BY <1>5, <2>1, <2>2, <2>6
<1>11. \/ writing' = writing
       \/ /\ writing' = 0 /\ \E r \in rejected : TRUE
  BY <1>1
<1>12. Numbers'
  <2>1. \A w \in Workers : w # R => child'[w] = w
    BY <1>3, <1>4
  <2>2. child'[R] \in R..forked'
    BY <1>1, <1>3, <1>4
  <2>3. ASSUME NEW d \in Children, d > forked'
        PROVE  /\ sem'[d] = Sem(world.hwm)
               /\ inbox'[d] = <<>> /\ msgs'[d] = <<>> /\ owed'[d] = 0 /\ got'[d] = <<>>
    <3>1. d > forked /\ d # new /\ d # old
      BY <1>1, <1>3, <2>3, BoundsAssumption DEF Children
    <3> QED
      BY <1>1, <1>4, <3>1 DEF OrderInv, Numbers
  <2> QED
    BY <1>1, <1>2, <2>1, <2>2, <2>3 DEF Numbers
<1>13. Calls'
  <2>1. ASSUME NEW s \in sends'
        PROVE  /\ s.entry <= written
               /\ IF s.w = R THEN s.entry = writing' /\ s.c \in R..child'[s.w] ELSE s.c = s.w
               /\ s.entry # writing' => s.c \in ready
    <3>1. s \in sends
      BY <1>7
    <3>2. s.w = R => s.entry = writing'
      BY <1>5, <1>10, <1>11, <3>1
    <3>3. s.w = R => s.c \in R..child'[s.w]
      BY <1>1, <1>3, <1>4, <1>5, <3>1
    <3>4. s.entry # writing' => s.c \in ready
      BY <1>5, <1>10, <1>11, <3>1
    <3> QED
      BY <1>5, <3>1, <3>2, <3>3, <3>4
  <2>2. \A s, t \in sends :
          s.w = t.w /\ (s.entry = t.entry \/ (MayGo(s) /\ MayGo(t))) => s = t
    BY DEF OrderInv, Calls
  <2> QED
    BY <1>1, <1>2, <1>7, <2>1, <2>2 DEF Calls, MayGo
<1>14. FirstWrite'
  <2>1. written = 0 => \A d \in Children : sem'[d].cur <= 0
    <3>1. Sem(world.hwm).cur <= 0
      BY DEF Sem
    <3> QED
      BY <1>4, <3>1 DEF OrderInv, FirstWrite
  <2>2. writing' = 1 => written = 1 /\ \A s \in sends' : s.held
    BY <1>7, <1>11 DEF OrderInv, FirstWrite
  <2>3. ASSUME mode # "all", NEW s \in sends', NEW t \in sends'
        PROVE  s.entry = writing' /\ s = t
    <3>1. \A u, v \in sends : u.entry = writing /\ u = v
      BY <2>3 DEF OrderInv, FirstWrite
    <3>2. rejected = {}
      BY <1>7, <1>9, <2>3, <3>1
    <3> QED
      BY <1>7, <1>11, <2>3, <3>1, <3>2
  <2>4. ASSUME mode = "all", NEW w \in Workers
        PROVE  \/ w = R \/ w \in ready \/ written = 0
               \/ writing' = 1 /\ \E s \in sends' : s.w = w
    <3>1. CASE writing = 1
      <4>1. rejected = {}
        BY <1>9, <3>1 DEF OrderInv, FirstWrite
      <4>2. sends' = sends /\ writing' = writing
        BY <1>1, <1>11, <4>1
      <4> QED
        BY <2>4, <4>2 DEF OrderInv, FirstWrite
    <3>2. CASE writing # 1
      BY <2>4, <3>2 DEF OrderInv, FirstWrite
    <3> QED
      BY <3>1, <3>2
  <2> QED
    BY <1>1, <1>2, <2>1, <2>2, <2>3, <2>4 DEF FirstWrite
<1>15. ASSUME NEW d \in Children PROVE WaitsInOrder(d)'
  <2>1. CASE d = old
    <3>1. world.hwm \in Nat
      BY Types, WorldFacts
    <3>2. sem'[d].cap = world.hwm /\ sem'[d].cur = 0 /\ sem'[d].wait = <<>>
      BY <1>4, <2>1 DEF Sem
    <3>3. Range(sem'[d].wait) = {} /\ Increasing(sem'[d].wait)
      BY <3>2 DEF Range, Increasing
    <3>4. \A s \in sends' : s.c = d => s.held
      BY <1>7, <1>8, <2>1
    <3> QED
      BY <1>1, <3>1, <3>2, <3>3, <3>4 DEF WaitsInOrder
  <2>2. CASE d # old
    <3>1. \A s : s \in sends' /\ s.c = d <=> s \in sends /\ s.c = d
      BY <1>1, <1>9, <2>2
    <3> QED
      BY <1>1, <1>4, <2>2, <3>1 DEF OrderInv, WaitsInOrder
  <2> QED
    BY <2>1, <2>2
<1>16. ASSUME NEW d \in Children PROVE ArriveInOrder(d)'
  <2>1. ArriveInOrder(d)
    BY DEF OrderInv
  <2>2. CASE d = new
    <3>1. d > forked
      BY <1>3, <2>2
    <3>2. got'[d] = <<>> /\ inbox'[d] = <<>>
      BY <1>1, <3>1 DEF OrderInv, Numbers
    <3>3. Range(got'[d]) = {} /\ EntriesIn(inbox'[d]) = {}
      BY <3>2 DEF Range, EntriesIn
    <3> QED
      BY <3>2, <3>3 DEF ArriveInOrder, Increasing, EmitsInOrder
  <2>3. CASE d # new
    <3>1. /\ EmitsInOrder(inbox'[d]) /\ EntriesIn(inbox'[d]) \subseteq EntriesIn(inbox[d])
          /\ written <= written' /\ got'[d] = got[d]
      BY <1>1, <2>1, Types DEF ArriveInOrder
    <3>2. \A s \in sends' : child'[s.w] = d =>
            \E t \in sends : child[t.w] = d /\ t.entry = s.entry
      BY <1>4, <1>5, <1>7, <2>3
    <3> HIDE DEF new
    <3> QED
      BY <2>1, <3>1, <3>2, NoneArrives
  <2> QED
    BY <2>2, <2>3
<1> QED
  BY <1>12, <1>13, <1>14, <1>15, <1>16 DEF OrderInv

LEMMA InitOrder == Init => OrderInv
<1> SUFFICES ASSUME Init PROVE OrderInv
  OBVIOUS
<1>1. /\ child = [w \in Workers |-> w] /\ forked = world.cores
      /\ sem = [c \in Children |-> Sem(world.hwm)]
      /\ sends = {} /\ writing = 0 /\ written = 0
      /\ inbox = [c \in Children |-> <<>>]
      /\ msgs = [c \in Children |-> IF c <= world.cores THEN <<"online">> ELSE <<>>]
      /\ owed = [c \in Children |-> 0] /\ got = [c \in Children |-> <<>>]
  BY DEF Init
<1>2. /\ world.cores \in Nat \ {0} /\ world.cores \in Workers /\ world.hwm \in Nat
  BY WorldFacts DEF Init
<1>3. Numbers
  <2>1. ASSUME NEW c \in Children, c > world.cores PROVE ~(c <= world.cores)
    BY <1>2, <2>1, BoundsAssumption DEF Children
  <2> QED
    BY <1>1, <1>2, <2>1 DEF Numbers, RestartedWorker
<1>4. Calls
  BY <1>1 DEF Calls
<1>5. FirstWrite
  BY <1>1 DEF FirstWrite, Sem
<1>6. ASSUME NEW c \in Children PROVE WaitsInOrder(c) /\ ArriveInOrder(c)
  <2>1. sem[c].cap = world.hwm /\ sem[c].cur = 0 /\ sem[c].wait = <<>>
    BY <1>1 DEF Sem
  <2>2. got[c] = <<>> /\ inbox[c] = <<>>
    BY <1>1
  <2>3. Range(sem[c].wait) = {} /\ Range(got[c]) = {} /\ Range(inbox[c]) = {}
    BY <2>1, <2>2 DEF Range
  <2> QED
    BY <1>1, <1>2, <2>1, <2>2, <2>3
       DEF WaitsInOrder, ArriveInOrder, Increasing, EmitsInOrder, EntriesIn
<1> QED
  BY <1>3, <1>4, <1>5, <1>6 DEF OrderInv

LEMMA NextOrder == IInv /\ OrderInv /\ [Next]_vars => OrderInv'
<1> SUFFICES ASSUME IInv, OrderInv, [Next]_vars PROVE OrderInv'
  OBVIOUS
<1>1. TypeOK /\ NoneForked /\ TypeOK'
  BY NextInvariant DEF IInv
<1>2. ASSUME NEW e \in Entries, Write(e) PROVE OrderInv'
  BY <1>1, <1>2, WriteOrder
<1>3. ASSUME NEW s \in sends, Send(s) PROVE OrderInv'
  BY <1>1, <1>3, SendOrder
<1>4. CASE EndWrite
  BY <1>1, <1>4, EndWriteOrder
<1>5. ASSUME NEW c \in Children, Receive(c) PROVE OrderInv'
  BY <1>1, <1>5, ReceiveOrder
<1>6. ASSUME NEW c \in Children, Close(c) PROVE OrderInv'
  BY <1>1, <1>6, CloseOrder
<1>7. CASE Restart
  BY <1>1, <1>7, RestartOrder
<1>8. CASE CloseFork
  BY <1>1, <1>8, CloseForkOrder
<1>9. ASSUME NEW c \in Children, WorkerTakes(c) PROVE OrderInv'
  BY <1>1, <1>9, WorkerTakesOrder
<1>10. ASSUME NEW c \in Children, Started(c) \/ FailStart(c) \/ SendStats(c) \/ Ack(c)
       PROVE  OrderInv'
  BY <1>1, <1>10, SaysOrder
<1>11. ASSUME NEW c \in Children, Exit(c) \/ Crash(c) PROVE OrderInv'
  <2>1. Die(c) /\ proc[c] \in Up
    BY <1>11 DEF Exit, Crash, Up
  <2> QED
    BY <1>1, <2>1, DieOrder
<1>12. CASE UNCHANGED vars
  <2>1. UNCHANGED <<inbox, msgs, got, owed, world, mode, child, forked, ready, sem, sends,
                    writing, written>>
    BY <1>12 DEF vars, master, workers
  <2> QED
    BY <1>1, <2>1, QuietOrder
<1> QED
  BY <1>2, <1>3, <1>4, <1>5, <1>6, <1>7, <1>8, <1>9, <1>10, <1>11, <1>12
     DEF Next, MasterStep, WorkerStep

(* The order of what is on its way to a process is inductive: the calls of *)
(* a worker, the waiters of its slots, its channel and what it took.       *)
THEOREM OrderInvariance == Spec => []OrderInv
<1>1. Init => OrderInv
  BY InitOrder
<1>2. IInv /\ OrderInv /\ [Next]_vars => OrderInv'
  BY NextOrder
<1> QED
  BY <1>1, <1>2, Invariance, PTL DEF Spec

(* A process takes its entries in the order they were written, each once   *)
(* (flow-master.js:122-173), whatever ends and is restarted meanwhile.     *)
THEOREM ProcessesKeepOrder == Spec => []ChildOrder
<1>1. OrderInv => ChildOrder
  BY DEF OrderInv, ArriveInOrder, ChildOrder
<1> QED
  BY <1>1, OrderInvariance, PTL

(***************************************************************************)
(* Counting what is in a sequence.                                         *)
(***************************************************************************)

LEMMA CountIsOccurs == \A seq, S : CountOf(seq, S) = Occurs(seq, S)
  BY DEF CountOf, Occurs

LEMMA CountType ==
  ASSUME NEW T, NEW seq \in Seq(T), NEW S
  PROVE  CountOf(seq, S) \in Nat
  BY CountIsOccurs, OccursType

LEMMA CountEmpty ==
  ASSUME NEW S
  PROVE  CountOf(<<>>, S) = 0
  BY CountIsOccurs, OccursEmpty

LEMMA CountAppend ==
  ASSUME NEW T, NEW seq \in Seq(T), NEW x \in T, NEW S
  PROVE  CountOf(Append(seq, x), S) = CountOf(seq, S) + (IF x \in S THEN 1 ELSE 0)
  BY CountIsOccurs, OccursAppend

LEMMA CountTail ==
  ASSUME NEW T, NEW seq \in Seq(T), seq # <<>>, NEW S
  PROVE  CountOf(seq, S) = CountOf(Tail(seq), S) + (IF Head(seq) \in S THEN 1 ELSE 0)
  BY CountIsOccurs, OccursTail

(***************************************************************************)
(* The slots of a worker: steps that leave them alone.                     *)
(***************************************************************************)

LEMMA UnackedParts ==
  ASSUME TypeOK, NEW c \in Children
  PROVE  /\ CountOf(inbox[c], Emits) \in Nat /\ owed[c] \in Nat
         /\ CountOf(msgs[c], {"ack", "error"}) \in Nat
         /\ Unacked(c) = CountOf(inbox[c], Emits) + owed[c]
                         + CountOf(msgs[c], {"ack", "error"})
         /\ Unacked(c) \in Nat
<1>1. inbox[c] \in Seq(Commands) /\ msgs[c] \in Seq(Message) /\ owed[c] \in Nat
  BY Types
<1>2. CountOf(inbox[c], Emits) \in Nat
  BY <1>1, CountType
<1>3. CountOf(msgs[c], {"ack", "error"}) \in Nat
  BY <1>1, CountType
<1>4. Unacked(c) = CountOf(inbox[c], Emits) + owed[c] + CountOf(msgs[c], {"ack", "error"})
  BY DEF Unacked
<1> QED
  BY <1>1, <1>2, <1>3, <1>4

LEMMA UnackedSame ==
  ASSUME NEW c, inbox'[c] = inbox[c], owed'[c] = owed[c], msgs'[c] = msgs[c]
  PROVE  Unacked(c)' = Unacked(c)
  BY DEF Unacked

LEMMA HeldType ==
  ASSUME IsFiniteSet(sends), NEW c
  PROVE  /\ IsFiniteSet({s \in sends : s.c = c /\ s.held})
         /\ Held(c) = Cardinality({s \in sends : s.c = c /\ s.held}) /\ Held(c) \in Nat
<1>1. IsFiniteSet({s \in sends : s.c = c /\ s.held})
  BY FS_Subset
<1> QED
  BY <1>1, FS_CardinalityType DEF Held

LEMMA HeldSame ==
  ASSUME NEW c, \A s : s \in sends' /\ s.c = c /\ s.held <=> s \in sends /\ s.c = c /\ s.held
  PROVE  Held(c)' = Held(c)
<1>1. {s \in sends' : s.c = c /\ s.held} = {s \in sends : s.c = c /\ s.held}
  OBVIOUS
<1> QED
  BY <1>1 DEF Held

LEMMA SlotsKept ==
  ASSUME NEW c, SlotsOf(c), Unacked(c)' = Unacked(c), Held(c)' = Held(c),
         sem'[c].cur = sem[c].cur, world' = world, stopped => stopped',
         Current(c)' => Current(c), c \in ready' \cup starters' => c \in ready \cup starters,
         c \in ready => c \in ready', c \in strays => c \in strays',
         proc'[c] \in Up => proc[c] \in Up
  PROVE  SlotsOf(c)'
  BY DEF SlotsOf

(* A step of a process that keeps the number of its entries.               *)
LEMMA ProcessSlots ==
  ASSUME SlotInv, UNCHANGED master, NEW c \in Children,
         \A d \in Children : d # c => /\ inbox'[d] = inbox[d] /\ msgs'[d] = msgs[d]
                                      /\ owed'[d] = owed[d] /\ proc'[d] = proc[d],
         Unacked(c)' = Unacked(c), proc[c] \in Up
  PROVE  \A d \in Children : SlotsOf(d)'
<1>1. UNCHANGED <<world, child, ready, starters, sem, sends, stopped, strays>>
  BY DEF master
<1>2. ASSUME NEW d \in Children PROVE SlotsOf(d)'
  <2>1. Current(d)' <=> Current(d)
    BY <1>1 DEF Current, Workers
  <2>2. Held(d)' = Held(d)
    BY <1>1, HeldSame
  <2>3. Unacked(d)' = Unacked(d)
    BY UnackedSame
  <2> QED
    BY <1>1, <2>1, <2>2, <2>3, SlotsKept DEF SlotInv
<1> QED
  BY <1>2

(* One entry more in a channel, or one less.                               *)
LEMMA UnackedPost ==
  ASSUME TypeOK, NEW c \in Children, NEW m \in Commands,
         inbox'[c] = Append(inbox[c], m), owed'[c] = owed[c], msgs'[c] = msgs[c]
  PROVE  Unacked(c)' = Unacked(c) + (IF m \in Emits THEN 1 ELSE 0)
<1>1. inbox[c] \in Seq(Commands)
  BY Types
<1>2. CountOf(inbox'[c], Emits) = CountOf(inbox[c], Emits) + (IF m \in Emits THEN 1 ELSE 0)
  BY <1>1, CountAppend
<1>3. Unacked(c)' = CountOf(inbox'[c], Emits) + owed'[c] + CountOf(msgs'[c], {"ack", "error"})
  BY DEF Unacked
<1> QED
  BY <1>2, <1>3, UnackedParts

LEMMA UnackedSay ==
  ASSUME TypeOK, NEW c \in Children, NEW m \in Message, Say(c, m),
         inbox'[c] = inbox[c], owed'[c] = owed[c]
  PROVE  Unacked(c)' = Unacked(c) + (IF m \in {"ack", "error"} THEN 1 ELSE 0)
<1>1. msgs[c] \in Seq(Message) /\ msgs'[c] = Append(msgs[c], m)
  BY Types DEF Say
<1>2. CountOf(msgs'[c], {"ack", "error"}) =
        CountOf(msgs[c], {"ack", "error"}) + (IF m \in {"ack", "error"} THEN 1 ELSE 0)
  BY <1>1, CountAppend
<1>3. Unacked(c)' = CountOf(inbox'[c], Emits) + owed'[c] + CountOf(msgs'[c], {"ack", "error"})
  BY DEF Unacked
<1> QED
  BY <1>2, <1>3, UnackedParts

LEMMA UnackedHeard ==
  ASSUME TypeOK, NEW c \in Children, msgs[c] # <<>>, msgs'[c] = Tail(msgs[c]),
         inbox'[c] = inbox[c], owed'[c] = owed[c]
  PROVE  /\ Unacked(c) = Unacked(c)' + (IF Head(msgs[c]) \in {"ack", "error"} THEN 1 ELSE 0)
         /\ Unacked(c)' \in Nat
<1>1. msgs[c] \in Seq(Message) /\ msgs'[c] \in Seq(Message)
  BY Types
<1>2. CountOf(msgs[c], {"ack", "error"}) =
        CountOf(msgs'[c], {"ack", "error"}) + (IF Head(msgs[c]) \in {"ack", "error"} THEN 1 ELSE 0)
  BY <1>1, CountTail
<1>3. CountOf(msgs'[c], {"ack", "error"}) \in Nat
  BY <1>1, CountType
<1>4. Unacked(c)' = CountOf(inbox'[c], Emits) + owed'[c] + CountOf(msgs'[c], {"ack", "error"})
  BY DEF Unacked
<1> QED
  BY <1>2, <1>3, <1>4, UnackedParts

LEMMA WorkerTakesSlots ==
  ASSUME TypeOK, TypeOK', SlotInv, NEW c \in Children, WorkerTakes(c)
  PROVE  \A d \in Children : SlotsOf(d)'
<1> DEFINE m == Head(inbox[c])
           Answers == {"ack", "error"}
<1>1. /\ proc[c] \in Up /\ inbox[c] # <<>> /\ inbox' = [inbox EXCEPT ![c] = Tail(inbox[c])]
      /\ UNCHANGED master
  BY DEF WorkerTakes
<1>2. /\ inbox'[c] = Tail(inbox[c]) /\ inbox[c] \in Seq(Commands)
      /\ \A d \in Children : d # c => inbox'[d] = inbox[d]
  BY <1>1, Types
<1>3. CountOf(inbox[c], Emits) = CountOf(inbox'[c], Emits) + (IF m \in Emits THEN 1 ELSE 0)
  BY <1>1, <1>2, CountTail
<1>4. /\ CountOf(inbox'[c], Emits) \in Nat
      /\ Unacked(c)' = CountOf(inbox'[c], Emits) + owed'[c] + CountOf(msgs'[c], Answers)
  <2>1. inbox'[c] \in Seq(Commands)
    BY <1>1, <1>2
  <2> QED
    BY <2>1, CountType DEF Unacked
<1>5. /\ m.cmd = "emit" <=> m \in Emits
  <2>1. m \in Commands
    BY <1>1, <1>2
  <2> QED
    BY <2>1 DEF Commands, Emits, Command
<1>6. msgs[c] \in Seq(Message) /\ "success" \in Message /\ "error" \in Message
  BY Types DEF Message
<1>7. \A d \in Children : d # c => /\ msgs'[d] = msgs[d] /\ owed'[d] = owed[d]
                                   /\ proc'[d] = proc[d]
  BY Types DEF WorkerTakes, TakeStart, TakeStop, TakeEntry, Say
<1>8. /\ CountOf(inbox[c], Emits) \in Nat /\ owed[c] \in Nat /\ CountOf(msgs[c], Answers) \in Nat
      /\ Unacked(c) = CountOf(inbox[c], Emits) + owed[c] + CountOf(msgs[c], Answers)
  BY UnackedParts
<1>9. Unacked(c)' = Unacked(c)
  <2>1. CASE TakeStart(c)
    <3>1. m \notin Emits /\ UNCHANGED <<owed, msgs>>
      BY <1>5, <2>1 DEF TakeStart
    <3> HIDE DEF m, Answers
    <3> QED
      BY <1>3, <1>4, <1>8, <3>1
  <2>2. CASE TakeStop(c)
    <3>1. m \notin Emits /\ Say(c, "success") /\ owed' = owed
      BY <1>5, <2>2 DEF TakeStop
    <3>2. msgs'[c] = Append(msgs[c], "success")
      BY <3>1, Types DEF Say
    <3>3. CountOf(msgs'[c], Answers) = CountOf(msgs[c], Answers)
      <4>1. CountOf(msgs'[c], Answers) = CountOf(msgs[c], Answers) + 0
        BY <1>6, <3>2, CountAppend
      <4>2. CountOf(msgs[c], Answers) \in Nat
        BY UnackedParts
      <4> HIDE DEF Answers
      <4> QED
        BY <4>1, <4>2
    <3> HIDE DEF m, Answers
    <3> QED
      BY <1>3, <1>4, <1>8, <3>1, <3>3
  <2>3. CASE TakeEntry(c)
    <3>1. m \in Emits
      BY <1>5, <2>3 DEF TakeEntry
    <3>2. CASE owed' = [owed EXCEPT ![c] = owed[c] + 1] /\ UNCHANGED msgs
      <4>1. owed'[c] = owed[c] + 1
        BY <3>2, Types
      <4> HIDE DEF m, Answers
      <4> QED
        BY <1>3, <1>4, <1>8, <3>1, <3>2, <4>1
    <3>3. CASE Say(c, "error") /\ UNCHANGED owed
      <4>1. msgs'[c] = Append(msgs[c], "error")
        BY <3>3, Types DEF Say
      <4>2. CountOf(msgs'[c], Answers) = CountOf(msgs[c], Answers) + 1
        BY <1>6, <4>1, CountAppend
      <4> HIDE DEF m, Answers
      <4> QED
        BY <1>3, <1>4, <1>8, <3>1, <3>3, <4>2
    <3> QED
      BY <2>3, <3>2, <3>3 DEF TakeEntry
  <2> QED
    BY <2>1, <2>2, <2>3 DEF WorkerTakes
<1> QED
  BY <1>1, <1>2, <1>7, <1>9, ProcessSlots

LEMMA SaysSlots ==
  ASSUME TypeOK, TypeOK', SlotInv, NEW c \in Children,
         Started(c) \/ FailStart(c) \/ SendStats(c) \/ Ack(c)
  PROVE  \A d \in Children : SlotsOf(d)'
<1>1. /\ proc[c] \in Up /\ UNCHANGED <<master, inbox>>
      /\ proc' = proc \/ \E v : proc' = [proc EXCEPT ![c] = v]
      /\ \/ \E m \in {"success", "failed", "stats"} : Say(c, m) /\ owed' = owed
         \/ Say(c, "ack") /\ owed[c] > 0 /\ owed' = [owed EXCEPT ![c] = owed[c] - 1]
  BY DEF Started, FailStart, SendStats, Ack, Up, workers
<1>2. \A d \in Children : d # c => /\ msgs'[d] = msgs[d] /\ owed'[d] = owed[d]
                                   /\ proc'[d] = proc[d]
  BY <1>1, Types DEF Say
<1>3. Unacked(c)' = Unacked(c)
  <2>1. ASSUME NEW m \in {"success", "failed", "stats"}, Say(c, m), owed' = owed
        PROVE  Unacked(c)' = Unacked(c)
    <3>1. m \in Message /\ m \notin {"ack", "error"}
      BY DEF Message
    <3>2. Unacked(c)' = Unacked(c) + 0
      BY <1>1, <2>1, <3>1, UnackedSay
    <3> QED
      BY <3>2, UnackedParts
  <2>2. CASE Say(c, "ack") /\ owed[c] > 0 /\ owed' = [owed EXCEPT ![c] = owed[c] - 1]
    <3>1. /\ msgs[c] \in Seq(Message) /\ msgs'[c] = Append(msgs[c], "ack") /\ "ack" \in Message
          /\ owed'[c] = owed[c] - 1
      BY <2>2, Types DEF Say, Message
    <3>2. CountOf(msgs'[c], {"ack", "error"}) = CountOf(msgs[c], {"ack", "error"}) + 1
      BY <3>1, CountAppend
    <3>3. Unacked(c)' = CountOf(inbox[c], Emits) + owed'[c] + CountOf(msgs'[c], {"ack", "error"})
      BY <1>1 DEF Unacked
    <3>4. owed'[c] = owed[c] - 1
      BY <3>1
    <3> QED
      BY <3>2, <3>3, <3>4, UnackedParts
  <2> QED
    BY <1>1, <2>1, <2>2
<1> QED
  BY <1>1, <1>2, <1>3, ProcessSlots

LEMMA DieSlots ==
  ASSUME TypeOK, TypeOK', SlotInv, NEW c \in Children, Die(c), proc[c] \in Up
  PROVE  \A d \in Children : SlotsOf(d)'
<1>1. /\ proc' = [proc EXCEPT ![c] = "dead"] /\ inbox' = [inbox EXCEPT ![c] = <<>>]
      /\ owed' = [owed EXCEPT ![c] = 0] /\ UNCHANGED <<msgs, world, child, ready, starters,
                                                       sem, sends, stopped, strays>>
  BY DEF Die, master
<1>2. /\ proc'[c] = "dead" /\ inbox'[c] = <<>> /\ owed'[c] = 0
      /\ \A d \in Children : d # c => /\ inbox'[d] = inbox[d] /\ owed'[d] = owed[d]
                                      /\ proc'[d] = proc[d]
  BY <1>1, Types
<1>3. ASSUME NEW d \in Children, d # c PROVE SlotsOf(d)'
  <2>1. Current(d)' <=> Current(d)
    BY <1>1 DEF Current, Workers
  <2>2. Held(d)' = Held(d)
    BY <1>1, HeldSame
  <2>3. Unacked(d)' = Unacked(d)
    BY <1>1, <1>2, <1>3, UnackedSame
  <2> QED
    BY <1>1, <1>2, <1>3, <2>1, <2>2, <2>3, SlotsKept DEF SlotInv
<1>4. SlotsOf(c)'
  <2>1. ASSUME c \notin ready, c \notin strays PROVE Unacked(c)' = 0
    <3>1. Unacked(c) = 0
      BY <2>1 DEF SlotInv, SlotsOf
    <3>2. CountOf(inbox'[c], Emits) = 0
      BY <1>2, CountEmpty
    <3>3. Unacked(c)' = CountOf(inbox'[c], Emits) + owed'[c] + CountOf(msgs[c], {"ack", "error"})
      BY <1>1 DEF Unacked
    <3>4. CountOf(msgs[c], {"ack", "error"}) = 0
      BY <3>1, UnackedParts
    <3> QED
      BY <1>2, <3>2, <3>3, <3>4
  <2>2. proc'[c] \notin Up
    BY <1>2 DEF Up
  <2> QED
    BY <1>1, <2>1, <2>2 DEF SlotsOf
<1> QED
  BY <1>3, <1>4

(***************************************************************************)
(* The slots of a worker: steps of the master.                             *)
(***************************************************************************)

LEMMA QuietSlots ==
  ASSUME SlotInv, UNCHANGED <<world, child, ready, starters, sem, sends, strays>>,
         UNCHANGED <<inbox, msgs, owed>>, stopped => stopped',
         \A c \in Children : proc'[c] \in Up => proc[c] \in Up
  PROVE  \A c \in Children : SlotsOf(c)'
<1>1. ASSUME NEW c \in Children PROVE SlotsOf(c)'
  <2>1. Current(c)' <=> Current(c)
    BY DEF Current, Workers
  <2>2. Held(c)' = Held(c)
    BY HeldSame
  <2>3. Unacked(c)' = Unacked(c)
    BY UnackedSame
  <2> QED
    BY <2>1, <2>2, <2>3, SlotsKept DEF SlotInv
<1> QED
  BY <1>1

LEMMA CloseForkSlots ==
  ASSUME TypeOK, TypeOK', SlotInv, CloseFork
  PROVE  \A c \in Children : SlotsOf(c)'
<1>1. /\ stopped' = TRUE
      /\ inbox' = [c \in Children |->
                     IF proc[c] \in Up /\ \E w \in Workers : child[w] = c
                       THEN Append(inbox[c], Command("stop", 0)) ELSE inbox[c]]
      /\ UNCHANGED <<world, child, ready, starters, sem, sends, strays, msgs, owed, proc>>
  BY DEF CloseFork, workers
<1>2. ASSUME NEW c \in Children PROVE SlotsOf(c)'
  <2>1. Current(c)' <=> Current(c)
    BY <1>1 DEF Current, Workers
  <2>2. Held(c)' = Held(c)
    BY <1>1, HeldSame
  <2>3. Unacked(c)' = Unacked(c)
    <3>1. Command("stop", 0) \in Commands /\ Command("stop", 0) \notin Emits
      BY CommandTypes DEF Emits, Command
    <3>2. CASE inbox'[c] = Append(inbox[c], Command("stop", 0))
      <4>1. Unacked(c)' = Unacked(c) + 0
        BY <1>1, <3>1, <3>2, UnackedPost
      <4> QED
        BY <4>1, UnackedParts
    <3>3. CASE inbox'[c] = inbox[c]
      BY <1>1, <3>3, UnackedSame
    <3> QED
      BY <1>1, <3>2, <3>3
  <2> QED
    BY <1>1, <2>1, <2>2, <2>3, SlotsKept DEF SlotInv
<1> QED
  BY <1>2

LEMMA WriteSlots ==
  ASSUME TypeOK, TypeOK', NoneForked, OrderInv, SlotInv, NEW e \in Entries, Write(e)
  PROVE  IsFiniteSet(sends') /\ \A c \in Children : SlotsOf(c)'
<1> DEFINE call(w) == [entry |-> e, w |-> w, c |-> child[w],
                       held |-> Available(sem[child[w]])]
           held(c) == {s \in sends : s.c = c /\ s.held}
           heldNow(c) == {s \in sends' : s.c = c /\ s.held}
<1>1. /\ e = written + 1
      /\ UNCHANGED <<world, child, ready, starters, stopped, strays, inbox, msgs, owed, proc>>
  BY DEF Write, workers
<1>2. PICK T \in Targets : AskSlots(e, T)
  BY DEF Write
<1>3. /\ sem' = [c \in Children |->
                   IF c \in {child[w] : w \in T} THEN Take(sem[c], e) ELSE sem[c]]
      /\ sends' = sends \cup {call(w) : w \in T}
  BY <1>2 DEF AskSlots
<1>4. T \subseteq Workers /\ T # {} /\ IsFiniteSet(Workers) /\ IsFiniteSet(T)
  <2>1. T \subseteq Workers /\ T # {} /\ IsFiniteSet(Workers)
    BY TargetsType, Types, WorldFacts
  <2> QED
    BY <2>1, FS_Subset
<1>5. \A w \in T : /\ call(w).entry = e /\ call(w).w = w /\ call(w).c = child[w]
                   /\ call(w).held = Available(sem[child[w]])
  OBVIOUS
<1>6. \A s \in sends : s.entry # e
  <2>1. written \in Nat
    BY Types
  <2> QED
    BY <1>1, <2>1, CallFacts DEF OrderInv
<1>7. \A s \in sends' : s \in sends \/ \E w \in T : s = call(w)
  BY <1>3
<1>8. sends \subseteq sends' /\ \A w \in T : call(w) \in sends'
  BY <1>3
<1>9. IsFiniteSet(sends')
  <2>1. IsFiniteSet({call(w) : w \in T})
    <3> DEFINE f == [w \in T |-> call(w)]
               calls == {call(w) : w \in T}
    <3> HIDE DEF call
    <3>1. f \in Surjection(T, calls)
      BY DEF Surjection
    <3> HIDE DEF f, calls
    <3>2. IsFiniteSet(calls)
      BY <1>4, <3>1, FS_Surjection
    <3> QED
      BY <3>2 DEF calls
  <2>2. IsFiniteSet(sends)
    BY DEF SlotInv
  <2> HIDE DEF call
  <2> QED
    BY <1>3, <2>1, <2>2, FS_Union
<1> HIDE DEF call
<1>10. ASSUME NEW c \in Children PROVE SlotsOf(c)'
  <2>1. (Current(c)' <=> Current(c)) /\ Unacked(c)' = Unacked(c)
    BY <1>1, UnackedSame DEF Current, Workers
  <2>2. SlotsOf(c)
    BY DEF SlotInv
  <2>3. CASE ~\E w \in T : child[w] = c
    <3>1. sem'[c] = sem[c]
      BY <1>3, <2>3
    <3>2. Held(c)' = Held(c)
      BY <1>5, <1>7, <1>8, <2>3, HeldSame
    <3> QED
      BY <1>1, <2>1, <2>2, <3>1, <3>2, SlotsKept
  <2>4. ASSUME NEW w \in T, child[w] = c PROVE SlotsOf(c)'
    <3>1. sem'[c] = Take(sem[c], e) /\ sem[c] \in SemaphoreOf(Entries)
      BY <1>3, <2>4, Types
    <3>2. \A v \in T : child[v] = c => v = w
      BY <1>4, <2>4, NumberFacts DEF OrderInv
    <3>3. CASE ~Available(sem[c])
      <4>1. sem'[c].cur = sem[c].cur
        BY <3>1, <3>3, TakeProperties
      <4>2. Held(c)' = Held(c)
        BY <1>5, <1>7, <1>8, <2>4, <3>2, <3>3, HeldSame
      <4> QED
        BY <1>1, <2>1, <2>2, <4>1, <4>2, SlotsKept
    <3>4. CASE Available(sem[c])
      <4>1. sem'[c].cur = sem[c].cur + 1
        BY <3>1, <3>4, TakeProperties
      <4>2. heldNow(c) = held(c) \cup {call(w)} /\ call(w) \notin held(c)
        BY <1>5, <1>6, <1>7, <1>8, <2>4, <3>2, <3>4
      <4>3. IsFiniteSet(held(c)) /\ Held(c) = Cardinality(held(c)) /\ Held(c) \in Nat
        BY HeldType DEF SlotInv
      <4>4. Held(c)' = Cardinality(heldNow(c))
        BY DEF Held
      <4> HIDE DEF held, heldNow
      <4>5. Held(c)' = Held(c) + 1
        BY <4>2, <4>3, <4>4, FS_AddElement
      <4>6. sem[c].cur \in Int
        BY <3>1 DEF SemaphoreOf
      <4> QED
        BY <1>1, <2>1, <2>2, <4>1, <4>3, <4>5, <4>6, UnackedParts DEF SlotsOf
    <3> QED
      BY <3>3, <3>4
  <2> QED
    BY <2>3, <2>4
<1> QED
  BY <1>9, <1>10

LEMMA SendSlots ==
  ASSUME TypeOK, TypeOK', NoneForked, OrderInv, SlotInv, NEW s \in sends, Send(s)
  PROVE  IsFiniteSet(sends') /\ \A c \in Children : SlotsOf(c)'
<1> DEFINE d == child[s.w]
           m == Command("emit", s.entry)
<1>1. /\ s.held /\ s.c \in ready /\ sends' = sends \ {s} /\ Post(d, m)
      /\ strays' = IF s.c = d THEN strays ELSE strays \cup {d}
      /\ UNCHANGED <<world, child, ready, starters, stopped, sem, msgs, owed, proc>>
  BY DEF Send, MayGo, workers
<1>2. /\ s.w \in Workers /\ s.c \in Children /\ d \in Children
      /\ m \in Commands /\ m \in Emits
  BY CallFacts, NumberFacts, EmitFacts DEF OrderInv
<1>3. /\ \A c \in Children : c # d => inbox'[c] = inbox[c]
      /\ proc[d] \in Up => inbox'[d] = Append(inbox[d], m)
      /\ proc[d] \notin Up => inbox'[d] = inbox[d]
  <2> HIDE DEF d, m
  <2> QED
    BY <1>1, <1>2, Types DEF Post
<1>4. IsFiniteSet(sends')
  BY <1>1, FS_Subset DEF SlotInv
<1>5. ASSUME NEW c \in Children PROVE SlotsOf(c)'
  <2>1. SlotsOf(c) /\ (Current(c)' <=> Current(c))
    BY <1>1 DEF SlotInv, Current, Workers
  <2>2. CASE c # d /\ c # s.c
    <3>1. Unacked(c)' = Unacked(c)
      BY <1>1, <1>3, <2>2, UnackedSame
    <3>2. Held(c)' = Held(c)
      BY <1>1, <2>2, HeldSame
    <3> HIDE DEF d, m
    <3> QED
      BY <1>1, <2>1, <3>1, <3>2, SlotsKept
  <2>3. CASE c = s.c /\ s.c # d
    <3>1. ~Current(c)
      <4>1. \A w \in Workers : child[w] = s.c => s.w = w
        BY CallOfWorker DEF OrderInv
      <4> QED
        BY <2>3, <4>1 DEF Current
    <3> QED
      BY <1>1, <2>1, <2>3, <3>1 DEF SlotsOf
  <2>4. CASE c = d /\ s.c # d
    BY <1>1, <2>4 DEF SlotsOf
  <2>5. CASE c = d /\ s.c = d
    <3> DEFINE held == {t \in sends : t.c = c /\ t.held}
    <3>1. {t \in sends' : t.c = c /\ t.held} = held \ {s} /\ s \in held
      BY <1>1, <2>5
    <3>2. IsFiniteSet(held) /\ Held(c) = Cardinality(held) /\ Held(c) \in Nat
      BY HeldType DEF SlotInv
    <3>3. Held(c)' = Cardinality({t \in sends' : t.c = c /\ t.held})
      BY DEF Held
    <3> HIDE DEF held, m, d
    <3>4. Held(c)' = Held(c) - 1
      BY <3>1, <3>2, <3>3, FS_RemoveElement
    <3>5. CASE proc[c] \in Up
      <4>1. Unacked(c)' = Unacked(c) + 1
        BY <1>1, <1>2, <1>3, <2>5, <3>5, UnackedPost
      <4>2. Unacked(c)' + Held(c)' = Unacked(c) + Held(c)
        BY <3>2, <3>4, <4>1, UnackedParts
      <4>3. c \in ready
        BY <1>1, <2>5
      <4> QED
        BY <1>1, <2>1, <4>2, <4>3 DEF SlotsOf
    <3>6. CASE proc[c] \notin Up
      <4>1. c \in ready /\ proc'[c] \notin Up
        BY <1>1, <2>5, <3>6
      <4> QED
        BY <1>1, <4>1 DEF SlotsOf
    <3> QED
      BY <3>5, <3>6
  <2> QED
    BY <2>2, <2>3, <2>4, <2>5
<1> QED
  BY <1>4, <1>5

LEMMA RestartSlots ==
  ASSUME TypeOK, TypeOK', NoneForked, OrderInv, SlotInv, Restart
  PROVE  IsFiniteSet(sends') /\ \A c \in Children : SlotsOf(c)'
<1> DEFINE R == RestartedWorker
           old == child[R]
           new == forked + 1
<1>1. /\ new \in Children /\ forked' = new
      /\ child' = [child EXCEPT ![R] = new]
      /\ sem' = [sem EXCEPT ![old] = Sem(world.hwm)]
      /\ sends' = sends \ Rejected(old)
      /\ proc' = [proc EXCEPT ![new] = "forked"]
      /\ starters' = starters \cup {new}
      /\ msgs' = [msgs EXCEPT ![new] = <<"online">>]
      /\ UNCHANGED <<world, ready, strays, stopped, owed, inbox>>
  BY DEF Restart
<1>2. /\ R \in Workers /\ R \in Nat \ {0} /\ forked \in Nat /\ old \in Children
      /\ old \in Nat /\ old <= forked /\ old >= R
      /\ \A w \in Workers : w # R => child[w] = w /\ w \in Nat /\ w < R
  BY NumberFacts DEF OrderInv
<1>3. /\ child'[R] = new /\ (\A w \in Workers : w # R => child'[w] = child[w])
      /\ (\A c \in Children : c # old => sem'[c] = sem[c])
      /\ (\A c \in Children : c # new => msgs'[c] = msgs[c] /\ proc'[c] = proc[c])
      /\ msgs'[new] = <<"online">>
  BY <1>1, <1>2, Types
<1>4. IsFiniteSet(sends')
  BY <1>1, FS_Subset DEF SlotInv
<1>5. ASSUME NEW c \in Children PROVE SlotsOf(c)'
  <2>1. SlotsOf(c)
    BY DEF SlotInv
  <2>2. CASE c = new
    <3>1. c > forked /\ c # old
      BY <1>2, <2>2
    <3>2. inbox'[c] = <<>> /\ owed'[c] = 0 /\ sem'[c].cur = 0
      BY <1>1, <1>3, <3>1 DEF OrderInv, Numbers, Sem
    <3>3. CountOf(inbox'[c], Emits) = 0
      BY <3>2, CountEmpty
    <3>4. CountOf(msgs'[c], {"ack", "error"}) = 0
      <4>1. msgs'[c] = <<"online">> /\ Len(<<"online">>) = 1
        BY <1>3, <2>2
      <4>2. {i \in 1..Len(msgs'[c]) : msgs'[c][i] \in {"ack", "error"}} = {}
        BY <4>1
      <4> QED
        BY <4>2, FS_EmptySet DEF CountOf
    <3>5. Unacked(c)' = 0
      <4>1. Unacked(c)' = CountOf(inbox'[c], Emits) + owed'[c] + CountOf(msgs'[c], {"ack", "error"})
        BY DEF Unacked
      <4> QED
        BY <3>2, <3>3, <3>4, <4>1
    <3>6. Held(c)' = 0
      <4>1. \A s \in sends : s.c # c
        BY <1>2, <3>1, CallFacts, BoundsAssumption DEF OrderInv, Children
      <4>2. {s \in sends' : s.c = c /\ s.held} = {}
        BY <1>1, <4>1
      <4> QED
        BY <4>2, FS_EmptySet DEF Held
    <3> QED
      BY <3>2, <3>5, <3>6 DEF SlotsOf
  <2>3. CASE c = old
    <3>1. ~Current(c)'
      <4>1. Workers' = Workers
        BY <1>1 DEF Workers
      <4>2. \A w \in Workers : child'[w] # old
        <5> SUFFICES ASSUME NEW w \in Workers
                     PROVE  child'[w] # old
          OBVIOUS
        <5>1. CASE w = R
          BY <1>1, <1>2, <1>3, <5>1
        <5>2. CASE w # R
          <6>1. child'[w] = w /\ w \in Nat /\ w < R
            BY <1>2, <1>3, <5>2
          <6> QED
            BY <1>2, <6>1
        <5> QED
          BY <5>1, <5>2
      <4> QED
        BY <2>3, <4>1, <4>2 DEF Current
    <3>2. Unacked(c)' = Unacked(c)
      <4>1. c # new
        BY <1>2, <2>3
      <4> QED
        BY <1>1, <1>3, <4>1, UnackedSame
    <3> QED
      BY <1>1, <2>1, <3>1, <3>2 DEF SlotsOf
  <2>4. CASE c # old /\ c # new
    <3>1. Current(c)' => Current(c)
      BY <1>1, <1>2, <1>3, <2>4 DEF Current, Workers
    <3>2. Unacked(c)' = Unacked(c)
      BY <1>1, <1>3, <2>4, UnackedSame
    <3>3. Held(c)' = Held(c)
      BY <1>1, <2>4, HeldSame DEF Rejected
    <3>4. /\ sem'[c].cur = sem[c].cur /\ proc'[c] = proc[c]
          /\ c \in ready' \cup starters' => c \in ready \cup starters
      BY <1>1, <1>3, <2>4
    <3> QED
      BY <1>1, <2>1, <3>1, <3>2, <3>3, <3>4, SlotsKept
  <2> QED
    BY <2>2, <2>3, <2>4
<1> QED
  BY <1>4, <1>5

(* An answer leaves a slot, which the first call that waits takes over.    *)
LEMMA LeaveHeld ==
  ASSUME TypeOK, NoneForked, OrderInv, SlotInv, NEW c \in Children, LeaveSem(c)
  PROVE  /\ IsFiniteSet(sends')
         /\ \A d \in Children : d # c => sem'[d] = sem[d] /\ Held(d)' = Held(d)
         /\ Held(c)' \in Nat /\ sem'[c].cur \in Int
         /\ sem'[c].cur - Held(c)' = sem[c].cur - Held(c) - 1
<1>1. sem[c].cur \in Int /\ IsFiniteSet(sends)
  <2>1. sem[c] \in SemaphoreOf(Entries)
    BY Types
  <2> QED
    BY <2>1 DEF SemaphoreOf, SlotInv
<1>2. /\ IsFiniteSet({s \in sends : s.c = c /\ s.held})
      /\ Held(c) = Cardinality({s \in sends : s.c = c /\ s.held}) /\ Held(c) \in Nat
  BY <1>1, HeldType
<1>3. CASE /\ sends' = sends /\ sem'[c].cur = sem[c].cur - 1
           /\ \A d \in Children : d # c => sem'[d] = sem[d]
  <2>1. \A d \in Children : Held(d)' = Held(d)
    BY <1>3, HeldSame
  <2> QED
    BY <1>1, <1>2, <1>3, <2>1
<1>4. ASSUME NEW r \in sends, r.c = c, ~r.held, sem'[c].cur = sem[c].cur,
             sends' = (sends \ {r}) \cup {[r EXCEPT !.held = TRUE]},
             \A d \in Children : d # c => sem'[d] = sem[d]
      PROVE  /\ IsFiniteSet(sends')
             /\ \A d \in Children : d # c => sem'[d] = sem[d] /\ Held(d)' = Held(d)
             /\ Held(c)' \in Nat /\ sem'[c].cur \in Int
             /\ sem'[c].cur - Held(c)' = sem[c].cur - Held(c) - 1
  <2> DEFINE g == [r EXCEPT !.held = TRUE]
             held == {s \in sends : s.c = c /\ s.held}
             heldNow == {s \in sends' : s.c = c /\ s.held}
  <2>1. r = [entry |-> r.entry, w |-> r.w, c |-> r.c, held |-> r.held]
    BY CallFacts DEF OrderInv
  <2>2. g.c = c /\ g.held /\ g.entry = r.entry /\ g.w = r.w
    BY <1>4, <2>1
  <2>3. g \notin sends
    <3>1. g.held # r.held
      BY <1>4, <2>2
    <3>2. g \in sends => g = r
      BY <2>2 DEF OrderInv, Calls
    <3> HIDE DEF g
    <3> QED
      BY <3>1, <3>2
  <2> HIDE DEF g
  <2>4. sends' = (sends \ {r}) \cup {g}
    BY <1>4 DEF g
  <2>5. IsFiniteSet(sends \ {r})
    BY <1>1, FS_Subset
  <2>6. IsFiniteSet(sends')
    BY <2>4, <2>5, FS_AddElement
  <2>7. \A d \in Children : d # c => Held(d)' = Held(d)
    BY <1>4, <2>2, <2>4, HeldSame
  <2>8. heldNow = held \cup {g} /\ g \notin held
    BY <1>4, <2>2, <2>3, <2>4
  <2>9. Held(c)' = Cardinality(heldNow)
    BY DEF Held
  <2>10. IsFiniteSet(held) /\ Held(c) = Cardinality(held) /\ Held(c) \in Nat
    BY <1>2
  <2> HIDE DEF held, heldNow
  <2>11. Held(c)' = Held(c) + 1
    BY <2>8, <2>9, <2>10, FS_AddElement
  <2> QED
    BY <1>1, <1>4, <2>6, <2>7, <2>10, <2>11
<1> QED
  BY <1>3, <1>4, LeaveGrants

LEMMA ReceiveSlots ==
  ASSUME TypeOK, TypeOK', NoneForked, OrderInv, SlotInv, NEW c \in Children, Receive(c)
  PROVE  IsFiniteSet(sends') /\ \A d \in Children : SlotsOf(d)'
<1> DEFINE m == Head(msgs[c])
           Answers == {"ack", "error"}
<1>1. /\ msgs[c] # <<>> /\ msgs' = [msgs EXCEPT ![c] = Tail(msgs[c])]
      /\ IF c \in starters THEN HandleStart(c, m)
         ELSE HandleWorker(c, m) /\ UNCHANGED <<starters, ready, inbox>>
      /\ UNCHANGED <<world, child, stopped, strays, owed, proc>>
  BY DEF Receive, workers
<1>2. /\ \A d \in Children : d # c => msgs'[d] = msgs[d]
      /\ msgs'[c] = Tail(msgs[c]) /\ msgs[c] \in Seq(Message)
  BY <1>1, Types
<1>3. \A d \in Children : Current(d)' <=> Current(d)
  BY <1>1 DEF Current, Workers
<1>4. /\ CountOf(msgs[c], Answers) = CountOf(msgs'[c], Answers) + (IF m \in Answers THEN 1 ELSE 0)
      /\ CountOf(msgs'[c], Answers) \in Nat
  <2>1. msgs'[c] \in Seq(Message)
    BY <1>1, <1>2
  <2> QED
    BY ZenonT(30), <1>1, <1>2, <2>1, CountTail, CountType
<1>5. /\ \A d \in Children : SlotsOf(d)
      /\ IsFiniteSet(sends) /\ ready \cap starters = {}
  BY DEF SlotInv, StartInv
<1>6. CASE c \in starters
  <2>1. UNCHANGED <<sem, sends>> /\ HandleStart(c, m)
    BY <1>1, <1>6 DEF HandleStart
  <2>2. /\ ready \subseteq ready' /\ ready' \subseteq ready \cup {c} /\ starters' \subseteq starters
        /\ \A d \in Children : d # c => inbox'[d] = inbox[d]
        /\ inbox'[c] = inbox[c] \/ inbox'[c] = Append(inbox[c], Command("start", 0))
    <3>1. CASE m = "online"
      <4>1. Post(c, Command("start", 0)) /\ ready' = ready /\ starters' = starters
        BY <2>1, <3>1 DEF HandleStart
      <4> QED
        BY <4>1, Types DEF Post
    <3>2. CASE m # "online"
      BY <2>1, <3>2 DEF HandleStart
    <3> QED
      BY <3>1, <3>2
  <2>3. ASSUME NEW d \in Children PROVE Held(d)' = Held(d)
    BY <2>1, HeldSame
  <2>4. ASSUME NEW d \in Children, d # c PROVE SlotsOf(d)'
    <3>1. Unacked(d)' = Unacked(d)
      BY <1>1, <1>2, <2>2, <2>4, UnackedSame
    <3>2. (d \in ready' \cup starters' => d \in ready \cup starters) /\ (d \in ready => d \in ready')
      BY <2>2, <2>4
    <3> QED
      BY <1>1, <1>3, <1>5, <2>1, <2>3, <3>1, <3>2, SlotsKept
  <2>5. CASE c \in strays
    <3>1. SlotsOf(c)'
      BY <1>1, <2>5 DEF SlotsOf
    <3> QED
      BY <1>5, <2>1, <2>4, <3>1
  <2>6. CASE c \notin strays
    <3>1. Unacked(c) = 0
      BY <1>5, <1>6, <2>6 DEF SlotsOf
    <3>2. CountOf(inbox'[c], Emits) = CountOf(inbox[c], Emits)
      <4>1. inbox[c] \in Seq(Commands) /\ Command("start", 0) \in Commands
        BY CommandTypes, Types
      <4>2. Command("start", 0) \notin Emits
        BY DEF Emits, Command
      <4>3. CountOf(Append(inbox[c], Command("start", 0)), Emits) = CountOf(inbox[c], Emits) + 0
        BY <4>1, <4>2, CountAppend
      <4>4. CountOf(inbox[c], Emits) \in Nat
        BY UnackedParts
      <4>5. CASE inbox'[c] = inbox[c]
        BY <4>5
      <4>6. CASE inbox'[c] = Append(inbox[c], Command("start", 0))
        <5>1. CountOf(inbox'[c], Emits) = CountOf(inbox[c], Emits) + 0
          BY <4>3, <4>6
        <5> QED
          BY <4>4, <5>1
      <4> QED
        BY <2>2, <4>5, <4>6
    <3>3. Unacked(c)' = CountOf(inbox'[c], Emits) + owed[c] + CountOf(msgs'[c], Answers)
      BY <1>1 DEF Unacked
    <3> HIDE DEF m, Answers
    <3>4. CountOf(inbox[c], Emits) = 0 /\ owed[c] = 0 /\ CountOf(msgs[c], Answers) = 0
      BY <3>1, UnackedParts DEF Answers
    <3>5. Unacked(c)' = 0
      BY <1>4, <3>2, <3>3, <3>4
    <3>6. SlotsOf(c)'
      BY <1>1, <1>3, <1>5, <1>6, <2>1, <2>2, <2>3, <3>1, <3>5, SlotsKept
    <3> QED
      BY <1>5, <2>1, <2>4, <3>6
  <2> QED
    BY <2>5, <2>6
<1>7. CASE c \notin starters
  <2>1. HandleWorker(c, m) /\ UNCHANGED <<starters, ready, inbox>>
    BY <1>1, <1>7
  <2>2. ASSUME NEW d \in Children, d # c, sem'[d] = sem[d], Held(d)' = Held(d)
        PROVE  SlotsOf(d)'
    <3>1. Unacked(d)' = Unacked(d)
      BY <1>1, <1>2, <2>1, <2>2, UnackedSame
    <3> QED
      BY <1>1, <1>3, <1>5, <2>1, <2>2, <3>1, SlotsKept
  <2>3. /\ Unacked(c) = Unacked(c)' + (IF m \in Answers THEN 1 ELSE 0)
        /\ Unacked(c)' \in Nat
    BY <1>1, <1>2, <2>1, UnackedHeard
  <2>4. CASE UNCHANGED <<sem, sends>> /\ m \notin Answers
    <3>1. \A d \in Children : Held(d)' = Held(d)
      BY <2>4, HeldSame
    <3>2. SlotsOf(c)'
      <4> HIDE DEF m, Answers
      <4>1. Unacked(c)' = Unacked(c)
        BY <2>3, <2>4
      <4> QED
        BY <1>1, <1>3, <1>5, <2>1, <2>4, <3>1, <4>1, SlotsKept
    <3> QED
      BY <1>5, <2>2, <2>4, <3>1, <3>2
  <2>5. CASE LeaveSem(c)
    <3>1. /\ IsFiniteSet(sends')
          /\ \A d \in Children : d # c => sem'[d] = sem[d] /\ Held(d)' = Held(d)
          /\ Held(c)' \in Nat /\ sem'[c].cur \in Int
          /\ sem'[c].cur - Held(c)' = sem[c].cur - Held(c) - 1
      BY <2>5, LeaveHeld
    <3>2. Held(c) \in Nat /\ sem[c].cur \in Int
      <4>1. sem[c] \in SemaphoreOf(Entries)
        BY Types
      <4> QED
        BY <1>5, <4>1, HeldType DEF SemaphoreOf
    <3>3. c \notin ready /\ c \notin strays => Unacked(c)' = 0
      <4>1. c \notin ready /\ c \notin strays => Unacked(c) = 0
        BY <1>5 DEF SlotsOf
      <4> HIDE DEF m, Answers
      <4> QED
        BY <2>3, <4>1
    <3>4. CASE m \in Answers
      <4> HIDE DEF m, Answers
      <4>1. Unacked(c) = Unacked(c)' + 1
        BY <2>3, <3>4
      <4>2. sem[c].cur = Unacked(c) + Held(c) => sem'[c].cur = Unacked(c)' + Held(c)'
        BY <2>3, <3>1, <3>2, <4>1
      <4>3. SlotsOf(c)'
        BY <1>1, <1>3, <1>5, <2>1, <3>3, <4>2 DEF SlotsOf
      <4> QED
        BY <2>2, <3>1, <4>3
    <3>5. CASE m = "failed"
      <4>1. Says(c, "failed")
        <5>1. Range(msgs[c]) = Range(Tail(msgs[c])) \cup {m}
          BY <1>1, Heard
        <5> QED
          BY <3>5, <5>1 DEF Says
      <4>2. world.fails
        BY <4>1 DEF SlotInv, StartInv
      <4>3. ~stopped => c \notin ready \cup starters
        BY <1>7, <4>1 DEF SlotInv, StartInv, StartsOnce
      <4>4. SlotsOf(c)'
        BY <1>1, <2>1, <3>3, <4>2, <4>3 DEF SlotsOf
      <4> QED
        BY <2>2, <3>1, <4>4
    <3>6. CASE m \notin Answers /\ m # "failed"
      <4>1. UNCHANGED sends /\ UNCHANGED sem
        BY <2>1, <3>6 DEF HandleWorker
      <4> QED
        BY <2>4, <3>6, <4>1
    <3> QED
      BY <3>4, <3>5, <3>6
  <2>6. LeaveSem(c) \/ (UNCHANGED <<sem, sends>> /\ m \notin Answers)
    BY <2>1 DEF HandleWorker
  <2> QED
    BY <2>4, <2>5, <2>6
<1> QED
  BY <1>6, <1>7

(***************************************************************************)
(* A process starts once.                                                  *)
(***************************************************************************)

LEMMA EmptyRange == Range(<<>>) = {} /\ Len(<<>>) = 0
<1>1. <<>> \in Seq({}) /\ Len(<<>>) = 0
  BY EmptySeq
<1>2. Range(<<>>) = {<<>>[i] : i \in 1..Len(<<>>)}
  BY <1>1, RangeEquality
<1> QED
  BY <1>1, <1>2

LEMMA OneProcessStarts ==
  ASSUME StartInv, NEW c \in Children,
         UNCHANGED <<world, forked, ready, starters, stopped>>,
         \A d \in Children : d # c => /\ inbox'[d] = inbox[d] /\ msgs'[d] = msgs[d]
                                      /\ proc'[d] = proc[d],
         ~stopped => StartsOnce(c)', ~world.fails => ~Says(c, "failed")'
  PROVE  StartInv'
<1>1. ASSUME NEW d \in Children, d # c, ~stopped PROVE StartsOnce(d)'
  BY <1>1 DEF StartInv, StartsOnce, Says, Told
<1>2. ASSUME NEW d \in Children, d # c, ~world.fails PROVE ~Says(d, "failed")'
  BY <1>2 DEF StartInv, Says
<1> QED
  BY <1>1, <1>2 DEF StartInv

LEMMA QuietStarts ==
  ASSUME StartInv, UNCHANGED <<world, forked, ready, starters, inbox, msgs, proc>>,
         stopped => stopped'
  PROVE  StartInv'
  BY DEF StartInv, StartsOnce, Says, Told

LEMMA StartCommand ==
  ASSUME NEW m \in Commands, m.cmd = "start"
  PROVE  m = Command("start", 0)
  BY DEF Commands, Emits, Command

LEMMA WorkerTakesStarts ==
  ASSUME TypeOK, TypeOK', StartInv, NEW c \in Children, WorkerTakes(c)
  PROVE  StartInv'
<1> DEFINE m == Head(inbox[c])
           start == Command("start", 0)
<1>1. /\ proc[c] \in Up /\ inbox[c] # <<>> /\ inbox' = [inbox EXCEPT ![c] = Tail(inbox[c])]
      /\ UNCHANGED <<world, forked, ready, starters, stopped>>
  BY DEF WorkerTakes, master
<1>2. /\ inbox'[c] = Tail(inbox[c]) /\ inbox[c] \in Seq(Commands)
      /\ \A d \in Children : d # c => inbox'[d] = inbox[d]
  BY <1>1, Types
<1>3. /\ Range(inbox[c]) = Range(inbox'[c]) \cup {m}
      /\ Once(inbox[c], start) => /\ Once(inbox'[c], start)
                                  /\ m = start => start \notin Range(inbox'[c])
  BY <1>1, <1>2, TailRange, TailOnce
<1>4. m \in Commands /\ Range(inbox'[c]) \subseteq Commands
  <2>1. m \in Commands
    BY <1>1, <1>2
  <2>2. inbox'[c] \in Seq(Commands)
    BY <1>1, <1>2
  <2>3. Range(inbox'[c]) = {inbox'[c][i] : i \in 1..Len(inbox'[c])}
    BY <2>2, RangeEquality
  <2> QED
    BY <2>1, <2>2, <2>3
<1>5. \A d \in Children : d # c => msgs'[d] = msgs[d] /\ proc'[d] = proc[d]
  BY Types DEF WorkerTakes, TakeStart, TakeStop, TakeEntry, Say
<1>6. ASSUME ~stopped PROVE StartsOnce(c)' /\ (Says(c, "failed")' => Says(c, "failed"))
  <2>1. StartsOnce(c)
    BY <1>6 DEF StartInv
  <2>2. CASE TakeStart(c)
    <3>1. m = start /\ msgs' = msgs /\ proc'[c] = "starting"
      BY <1>4, <2>2, Types, StartCommand DEF TakeStart
    <3>2. Told(c, "start") /\ start.cmd = "start"
      BY <1>3, <3>1 DEF Told, Command
    <3>3. ~Told(c, "start")'
      BY <1>3, <1>4, <2>1, <3>1, StartCommand DEF StartsOnce, Told
    <3>4. ~Told(c, "stop")'
      BY <1>3, <2>1 DEF StartsOnce, Told
    <3> QED
      BY <1>1, <1>3, <2>1, <3>1, <3>2, <3>3, <3>4 DEF StartsOnce, Says
  <2>3. CASE TakeStop(c)
    BY <1>3, <2>1, <2>3 DEF TakeStop, StartsOnce, Told
  <2>4. CASE TakeEntry(c)
    <3>1. /\ proc' = proc /\ Once(inbox'[c], start)
          /\ Told(c, "start")' => Told(c, "start")
          /\ ~Told(c, "stop")'
      BY <1>3, <2>1, <2>4 DEF TakeEntry, StartsOnce, Told
    <3>2. CASE msgs' = msgs
      BY <1>1, <2>1, <3>1, <3>2 DEF StartsOnce, Says
    <3>3. CASE Say(c, "error")
      <4>1. "error" \in Message
        BY DEF Message
      <4>2. Range(msgs'[c]) = Range(msgs[c]) \cup {"error"} /\ Once(msgs'[c], "online")
        BY <2>1, <3>3, <4>1, SayRange DEF StartsOnce
      <4> QED
        BY <1>1, <2>1, <3>1, <4>2 DEF StartsOnce, Says
    <3> QED
      BY <2>4, <3>2, <3>3 DEF TakeEntry
  <2> QED
    BY <2>2, <2>3, <2>4 DEF WorkerTakes
<1>7. Says(c, "failed")' => Says(c, "failed")
  <2>1. CASE msgs' = msgs
    BY <2>1 DEF Says
  <2>2. ASSUME NEW a \in {"error", "success"}, Say(c, a)
        PROVE  Says(c, "failed")' => Says(c, "failed")
    <3>1. a \in Message /\ a # "failed"
      BY DEF Message
    <3>2. Range(msgs'[c]) = Range(msgs[c]) \cup {a}
      BY <2>2, <3>1, SayRange
    <3> QED
      BY <3>1, <3>2 DEF Says
  <2> QED
    BY <2>1, <2>2 DEF WorkerTakes, TakeStart, TakeStop, TakeEntry
<1>8. ~world.fails => ~Says(c, "failed")'
  BY <1>7 DEF StartInv
<1> QED
  BY <1>1, <1>2, <1>5, <1>6, <1>8, OneProcessStarts

LEMMA SaysStarts ==
  ASSUME TypeOK, TypeOK', StartInv, NEW c \in Children,
         Started(c) \/ FailStart(c) \/ SendStats(c) \/ Ack(c)
  PROVE  StartInv'
<1>1. UNCHANGED <<world, forked, ready, starters, stopped, inbox>>
  BY DEF Started, FailStart, SendStats, Ack, master
<1>2. \/ proc[c] = "starting" /\ proc' = [proc EXCEPT ![c] = "running"] /\ Say(c, "success")
      \/ /\ proc[c] = "starting" /\ Say(c, "failed") /\ world.fails
         /\ \E p \in {"forked", "failed"} : proc' = [proc EXCEPT ![c] = p]
      \/ proc' = proc /\ Say(c, "stats")
      \/ proc' = proc /\ Say(c, "ack")
  BY DEF Started, FailStart, SendStats, Ack, workers
<1>3. \A d \in Children : d # c => msgs'[d] = msgs[d] /\ proc'[d] = proc[d]
  BY <1>2, Types DEF Say
<1>4. PICK m \in {"success", "failed", "stats", "ack"} : Say(c, m)
  BY <1>2
<1>5. m \in Message /\ m # "online"
  BY DEF Message
<1>6. /\ Range(msgs'[c]) = Range(msgs[c]) \cup {m}
      /\ Once(msgs[c], "online") => Once(msgs'[c], "online")
  BY <1>4, <1>5, SayRange
<1>7. CASE proc[c] = "starting" /\ proc' = [proc EXCEPT ![c] = "running"] /\ Say(c, "success")
  <2>1. proc'[c] = "running"
    BY <1>7, Types
  <2>2. Range(msgs'[c]) = Range(msgs[c]) \cup {"success"}
    BY <1>7, SayRange DEF Message
  <2>3. ~stopped => StartsOnce(c)'
    BY <1>1, <1>6, <1>7, <2>1, <2>2 DEF StartInv, StartsOnce, Says, Told, Up
  <2>4. ~world.fails => ~Says(c, "failed")'
    BY <2>2 DEF StartInv, Says
  <2> QED
    BY <1>1, <1>3, <2>3, <2>4, OneProcessStarts
<1>8. ASSUME NEW p \in {"forked", "failed"}, proc' = [proc EXCEPT ![c] = p],
             proc[c] = "starting", Say(c, "failed"), world.fails
      PROVE  StartInv'
  <2>1. proc'[c] = p
    BY <1>8, Types
  <2>2. Range(msgs'[c]) = Range(msgs[c]) \cup {"failed"}
    BY <1>8, SayRange DEF Message
  <2>3. ~stopped => StartsOnce(c)'
    BY <1>1, <1>6, <1>8, <2>1, <2>2 DEF StartInv, StartsOnce, Says, Told, Up
  <2> QED
    BY <1>1, <1>3, <1>8, <2>3, OneProcessStarts
<1>9. ASSUME NEW a \in {"stats", "ack"}, proc' = proc, Say(c, a) PROVE StartInv'
  <2>1. a \in Message
    BY DEF Message
  <2>2. Range(msgs'[c]) = Range(msgs[c]) \cup {a}
    BY <1>9, <2>1, SayRange
  <2>3. ~stopped => StartsOnce(c)'
    BY <1>1, <1>6, <1>9, <2>2 DEF StartInv, StartsOnce, Says, Told
  <2>4. ~world.fails => ~Says(c, "failed")'
    BY <2>2 DEF StartInv, Says
  <2> QED
    BY <1>1, <1>3, <2>3, <2>4, OneProcessStarts
<1> QED
  BY <1>2, <1>7, <1>8, <1>9

LEMMA EndStarts ==
  ASSUME TypeOK, TypeOK', StartInv, NEW c \in Children,
         (Die(c) /\ proc[c] \in Up) \/ Close(c)
  PROVE  StartInv'
<1>1. /\ UNCHANGED <<world, forked, ready, starters, stopped, msgs>>
      /\ inbox' = [inbox EXCEPT ![c] = <<>>] \/ inbox' = inbox
      /\ \/ proc' = [proc EXCEPT ![c] = "dead"] /\ inbox' = [inbox EXCEPT ![c] = <<>>]
         \/ proc' = [proc EXCEPT ![c] = "closed"] /\ inbox' = inbox /\ proc[c] = "dead"
  BY DEF Die, Close, master
<1>2. /\ \A d \in Children : d # c => inbox'[d] = inbox[d] /\ proc'[d] = proc[d]
      /\ \/ proc'[c] = "dead" /\ inbox'[c] = <<>>
         \/ proc'[c] = "closed" /\ inbox'[c] = inbox[c] /\ proc[c] = "dead"
  BY <1>1, Types
<1>3. ~stopped => StartsOnce(c)'
  <2>1. CASE proc'[c] = "dead" /\ inbox'[c] = <<>>
    <3>1. Once(inbox'[c], Command("start", 0)) /\ ~Told(c, "start")' /\ ~Told(c, "stop")'
      <4>1. Range(inbox'[c]) = {} /\ Len(inbox'[c]) = 0
        BY <2>1, EmptyRange
      <4> QED
        BY <4>1 DEF Once, Told
    <3> QED
      BY <1>1, <2>1, <3>1 DEF StartInv, StartsOnce, Says, Up
  <2>2. CASE proc'[c] = "closed" /\ inbox'[c] = inbox[c] /\ proc[c] = "dead"
    BY <1>1, <2>2 DEF StartInv, StartsOnce, Says, Told, Up
  <2> QED
    BY <1>2, <2>1, <2>2
<1>4. ~world.fails => ~Says(c, "failed")'
  BY <1>1 DEF StartInv, Says
<1> QED
  BY <1>1, <1>2, <1>3, <1>4, OneProcessStarts

LEMMA SendStarts ==
  ASSUME TypeOK, TypeOK', NoneForked, OrderInv, StartInv, NEW s \in sends, Send(s)
  PROVE  StartInv'
<1> DEFINE m == Command("emit", s.entry)
<1>1. child[s.w] \in Children
  BY CallFacts, NumberFacts DEF OrderInv
<1>2. PICK d \in Children : d = child[s.w]
  BY <1>1
<1>3. /\ Post(d, m)
      /\ UNCHANGED <<world, forked, ready, starters, stopped, msgs, proc>>
  BY <1>2 DEF Send, workers
<1>4. /\ m \in Commands /\ m.cmd = "emit"
  BY CallFacts, EmitFacts DEF OrderInv
<1>5. /\ \A c \in Children : c # d => inbox'[c] = inbox[c]
      /\ \/ inbox'[d] = inbox[d]
         \/ inbox'[d] = Append(inbox[d], m) /\ Range(inbox'[d]) = Range(inbox[d]) \cup {m}
  <2> HIDE DEF m
  <2>1. CASE proc[d] \in Up
    BY <1>3, <1>4, <2>1, PostRange
  <2>2. CASE proc[d] \notin Up
    BY <1>3, <2>2 DEF Post
  <2> QED
    BY <2>1, <2>2
<1>6. ASSUME ~stopped PROVE StartsOnce(d)'
  <2>1. StartsOnce(d) /\ inbox[d] \in Seq(Commands)
    BY <1>4, <1>6, Types DEF StartInv
  <2>2. CASE inbox'[d] = inbox[d]
    BY <1>3, <2>1, <2>2 DEF StartsOnce, Says, Told
  <2>3. CASE inbox'[d] = Append(inbox[d], m) /\ Range(inbox'[d]) = Range(inbox[d]) \cup {m}
    <3>1. m # Command("start", 0)
      BY DEF Command
    <3> HIDE DEF m
    <3>2. Once(inbox'[d], Command("start", 0))
      BY <1>4, <2>1, <2>3, <3>1, AppendOnce DEF StartsOnce
    <3>3. (Told(d, "start")' => Told(d, "start")) /\ ~Told(d, "stop")'
      BY <1>4, <2>1, <2>3 DEF Told, StartsOnce
    <3> QED
      BY <1>3, <2>1, <3>2, <3>3 DEF StartsOnce, Says
  <2> QED
    BY <1>5, <2>2, <2>3
<1>7. ~world.fails => ~Says(d, "failed")'
  BY <1>3, <1>4 DEF StartInv, Says
<1> QED
  BY <1>3, <1>4, <1>5, <1>6, <1>7, OneProcessStarts

LEMMA ReceiveStarts ==
  ASSUME TypeOK, TypeOK', StartInv, NEW c \in Children, Receive(c)
  PROVE  StartInv'
<1> DEFINE m == Head(msgs[c])
           start == Command("start", 0)
<1>1. /\ msgs[c] # <<>> /\ msgs' = [msgs EXCEPT ![c] = Tail(msgs[c])]
      /\ IF c \in starters THEN HandleStart(c, m)
         ELSE HandleWorker(c, m) /\ UNCHANGED <<starters, ready, inbox>>
      /\ UNCHANGED <<world, forked, stopped, proc>>
  BY DEF Receive, workers
<1>2. /\ \A d \in Children : d # c => msgs'[d] = msgs[d]
      /\ msgs'[c] = Tail(msgs[c])
  BY <1>1, Types
<1>3. /\ Range(msgs[c]) = Range(msgs'[c]) \cup {m}
      /\ Once(msgs[c], "online") => /\ Once(msgs'[c], "online")
                                    /\ m = "online" => "online" \notin Range(msgs'[c])
  BY <1>1, <1>2, Heard
<1>4. /\ Says(c, m)
      /\ \A x : Says(c, x)' => Says(c, x)
  BY <1>3 DEF Says
<1>5. ~world.fails => \A d \in Children : ~Says(d, "failed")'
  BY <1>1, <1>2, <1>4 DEF StartInv, Says
<1>6. CASE UNCHANGED <<inbox, starters, ready>>
  <2>1. ~stopped => StartsOnce(c)'
    BY <1>1, <1>3, <1>4, <1>6 DEF StartInv, StartsOnce, Told
  <2> QED
    BY <1>1, <1>2, <1>5, <1>6, <2>1, OneProcessStarts
<1>7. CASE c \in starters /\ m = "online"
  <2>1. Post(c, start) /\ UNCHANGED <<starters, ready>>
    BY <1>1, <1>7 DEF HandleStart
  <2>2. start \in Commands /\ start.cmd = "start"
    BY CommandTypes DEF Command
  <2>3. \A d \in Children : d # c => inbox'[d] = inbox[d]
    BY <2>1, Types DEF Post
  <2>4. ASSUME ~stopped PROVE StartsOnce(c)'
    <3>1. StartsOnce(c) /\ inbox[c] \in Seq(Commands)
      BY <2>4, Types DEF StartInv
    <3>2. CASE proc[c] \in Up
      <4>1. inbox'[c] = Append(inbox[c], start) /\ Range(inbox'[c]) = Range(inbox[c]) \cup {start}
        BY <2>1, <2>2, <3>2, PostRange
      <4>2. proc[c] = "forked" /\ ~Told(c, "start")
        BY <1>4, <1>7, <3>1, <3>2 DEF StartsOnce
      <4>3. start \notin Range(inbox[c])
        BY <2>2, <4>2 DEF Told
      <4>4. Once(inbox'[c], start)
        BY <2>2, <3>1, <4>1, <4>3, AppendOnce DEF StartsOnce
      <4>5. ~Told(c, "stop")'
        BY <2>2, <3>1, <4>1 DEF StartsOnce, Told
      <4>6. ~Says(c, "online")'
        BY <1>3, <1>7, <3>1 DEF StartsOnce, Says
      <4>7. ~Says(c, "success")' /\ ~Says(c, "failed")' /\ c \notin ready
        BY <1>4, <1>7, <3>1 DEF StartsOnce
      <4>8. Once(msgs'[c], "online")
        BY <1>3, <3>1 DEF StartsOnce
      <4> QED
        BY <1>1, <2>1, <4>2, <4>4, <4>5, <4>6, <4>7, <4>8 DEF StartsOnce
    <3>3. CASE proc[c] \notin Up
      <4>1. inbox' = inbox
        BY <2>1, <3>3 DEF Post
      <4> QED
        BY <1>1, <1>3, <1>4, <2>1, <3>1, <4>1 DEF StartsOnce, Told
    <3> QED
      BY <3>2, <3>3
  <2> QED
    BY <1>1, <1>2, <1>5, <2>1, <2>3, <2>4, OneProcessStarts
<1>8. CASE c \in starters /\ m # "online"
  <2>1. /\ starters' = starters \ {c} /\ inbox' = inbox
        /\ ready' = IF m = "success" THEN ready \cup {c} ELSE ready
    BY <1>1, <1>8 DEF HandleStart
  <2>2. \A d \in Children : d # c => (d \in ready' <=> d \in ready)
    BY <2>1
  <2>3. ready' \cap starters' = {} /\ \A d \in ready' \cup starters' : d <= forked'
    BY <1>1, <1>8, <2>1 DEF StartInv
  <2>4. ASSUME NEW d \in Children, ~stopped PROVE StartsOnce(d)'
    <3>1. StartsOnce(d)
      BY <2>4 DEF StartInv
    <3>2. CASE d # c
      BY <1>1, <1>2, <2>1, <2>2, <3>1, <3>2 DEF StartsOnce, Says, Told
    <3>3. CASE d = c /\ m # "success"
      BY <1>1, <1>3, <1>4, <2>1, <3>1, <3>3 DEF StartsOnce, Told
    <3>4. CASE d = c /\ m = "success"
      <4>1. /\ ~Says(c, "online") /\ ~Told(c, "start") /\ proc[c] # "starting"
            /\ ~Says(c, "failed")
        BY <1>4, <3>1, <3>4 DEF StartsOnce
      <4>2. /\ ~Says(c, "online")' /\ ~Told(c, "start")' /\ proc'[c] # "starting"
            /\ ~Says(c, "failed")' /\ ~Told(c, "stop")'
        BY <1>1, <1>4, <2>1, <3>1, <3>4, <4>1 DEF Told, StartsOnce
      <4>3. Once(msgs'[c], "online") /\ Once(inbox'[c], start)
        BY <1>3, <2>1, <3>1, <3>4 DEF StartsOnce
      <4> QED
        BY <3>4, <4>2, <4>3 DEF StartsOnce
    <3> QED
      BY <3>2, <3>3, <3>4
  <2> QED
    BY <1>1, <1>5, <2>3, <2>4 DEF StartInv
<1> QED
  BY <1>1, <1>6, <1>7, <1>8

LEMMA RestartStarts ==
  ASSUME TypeOK, TypeOK', NoneForked, OrderInv, StartInv, Restart
  PROVE  StartInv'
<1> DEFINE new == forked + 1
<1>1. /\ new \in Children /\ forked' = new
      /\ proc' = [proc EXCEPT ![new] = "forked"]
      /\ starters' = starters \cup {new}
      /\ msgs' = [msgs EXCEPT ![new] = <<"online">>]
      /\ UNCHANGED <<world, ready, stopped, inbox>>
  BY DEF Restart
<1>2. forked \in Nat /\ ready \subseteq Children /\ starters \subseteq Children
  BY NumberFacts, Types DEF OrderInv
<1>3. /\ \A c \in Children : c # new => msgs'[c] = msgs[c] /\ proc'[c] = proc[c]
      /\ msgs'[new] = <<"online">> /\ proc'[new] = "forked" /\ inbox'[new] = <<>>
  <2>1. inbox[new] = <<>>
    BY <1>1, <1>2 DEF OrderInv, Numbers
  <2> QED
    BY <1>1, <2>1, Types
<1>4. new \notin ready /\ new \notin starters
  BY <1>2 DEF StartInv
<1>5. ready' \cap starters' = {} /\ \A c \in ready' \cup starters' : c <= forked'
  BY <1>1, <1>2, <1>4, BoundsAssumption DEF StartInv, Children
<1>6. Range(<<"online">>) = {"online"} /\ Once(<<"online">>, "online")
  <2>1. <<"online">> \in Seq(Message) /\ Len(<<"online">>) = 1 /\ <<"online">>[1] = "online"
    BY DEF Message
  <2>2. Range(<<"online">>) = {<<"online">>[i] : i \in 1..1}
    BY <2>1, RangeEquality
  <2>3. \A i, j \in 1..1 : i = j
    OBVIOUS
  <2> QED
    BY <2>1, <2>2, <2>3 DEF Once
<1>7. ASSUME NEW c \in Children PROVE /\ ~stopped => StartsOnce(c)'
                                      /\ ~world.fails => ~Says(c, "failed")'
  <2>1. CASE c # new
    <3>1. ~stopped => StartsOnce(c)'
      BY <1>1, <1>3, <2>1 DEF StartInv, StartsOnce, Says, Told
    <3>2. ~world.fails => ~Says(c, "failed")'
      BY <1>1, <1>3, <2>1 DEF StartInv, Says
    <3> QED
      BY <3>1, <3>2
  <2>2. CASE c = new
    <3>1. Range(inbox'[new]) = {} /\ Len(inbox'[new]) = 0
      BY <1>3, EmptyRange
    <3>2. Once(inbox'[c], Command("start", 0)) /\ ~Told(c, "start")' /\ ~Told(c, "stop")'
      BY <2>2, <3>1 DEF Once, Told
    <3>3. /\ ~Says(c, "success")' /\ ~Says(c, "failed")' /\ Once(msgs'[c], "online")
          /\ proc'[c] = "forked" /\ c \notin ready'
      BY <1>1, <1>3, <1>4, <1>6, <2>2 DEF Says
    <3> QED
      BY <3>2, <3>3 DEF StartsOnce, Up
  <2> QED
    BY <2>1, <2>2
<1> QED
  BY <1>1, <1>5, <1>7 DEF StartInv

LEMMA CloseForkStarts ==
  ASSUME StartInv, CloseFork
  PROVE  StartInv'
<1>1. stopped' = TRUE /\ UNCHANGED <<world, forked, ready, starters, msgs>>
  BY DEF CloseFork
<1> QED
  BY <1>1 DEF StartInv, Says

(***************************************************************************)
(* The slots of a worker are the entries it has not acked.                 *)
(***************************************************************************)

LEMMA InitSlots == Init => SlotInv
<1> SUFFICES ASSUME Init PROVE SlotInv
  OBVIOUS
<1>1. /\ ready = {} /\ starters = Workers /\ forked = world.cores /\ sends = {}
      /\ world.cores \in Nat
      /\ \A c \in Children :
           /\ proc[c] \in {"forked", "none"} /\ sem[c] = Sem(world.hwm)
           /\ inbox[c] = <<>> /\ owed[c] = 0
           /\ msgs[c] = <<"online">> \/ msgs[c] = <<>>
  BY WorldFacts DEF Init
<1>2. ready \cap starters = {} /\ \A c \in ready \cup starters : c <= forked
  BY <1>1 DEF Workers
<1>3. ASSUME NEW c \in Children PROVE StartsOnce(c) /\ ~Says(c, "failed")
  <2>1. Range(inbox[c]) = {} /\ Len(inbox[c]) = 0
    BY <1>1, EmptyRange
  <2>2. Range(msgs[c]) \subseteq {"online"} /\ Len(msgs[c]) \in {0, 1}
    <3>1. CASE msgs[c] = <<>>
      BY <3>1, EmptyRange
    <3>2. CASE msgs[c] = <<"online">>
      <4>1. msgs[c] \in Seq(Message) /\ Len(msgs[c]) = 1 /\ msgs[c][1] = "online"
        BY <3>2 DEF Message
      <4>2. Range(msgs[c]) = {msgs[c][i] : i \in 1..1}
        BY <4>1, RangeEquality
      <4> QED
        BY <4>1, <4>2
    <3> QED
      BY <1>1, <3>1, <3>2
  <2>3. Once(msgs[c], "online") /\ Once(inbox[c], Command("start", 0))
    BY <2>1, <2>2 DEF Once
  <2>4. proc[c] # "starting" /\ proc[c] \notin Up \ {"forked"} /\ c \notin ready
    BY <1>1 DEF Up
  <2> QED
    BY <2>1, <2>2, <2>3, <2>4 DEF StartsOnce, Says, Told
<1>4. ASSUME NEW c \in Children PROVE SlotsOf(c)
  <2>1. CountOf(inbox[c], Emits) = 0
    BY <1>1, CountEmpty
  <2>2. CountOf(msgs[c], {"ack", "error"}) = 0
    <3>1. CASE msgs[c] = <<>>
      BY <3>1, CountEmpty
    <3>2. CASE msgs[c] = <<"online">>
      <4>1. {i \in 1..Len(msgs[c]) : msgs[c][i] \in {"ack", "error"}} = {}
        BY <3>2
      <4> QED
        BY <4>1, FS_EmptySet DEF CountOf
    <3> QED
      BY <1>1, <3>1, <3>2
  <2>3. Unacked(c) = 0
    BY <1>1, <2>1, <2>2 DEF Unacked
  <2>4. Held(c) = 0
    <3>1. {s \in sends : s.c = c /\ s.held} = {}
      BY <1>1
    <3> QED
      BY <3>1, FS_EmptySet DEF Held
  <2> QED
    BY <1>1, <2>3, <2>4 DEF SlotsOf, Sem
<1>5. IsFiniteSet(sends)
  BY <1>1, FS_EmptySet
<1> QED
  BY <1>2, <1>3, <1>4, <1>5 DEF SlotInv, StartInv

LEMMA NextSlots == IInv /\ OrderInv /\ SlotInv /\ [Next]_vars => SlotInv'
<1> SUFFICES ASSUME IInv, OrderInv, SlotInv, [Next]_vars PROVE SlotInv'
  OBVIOUS
<1>1. TypeOK /\ NoneForked /\ TypeOK' /\ StartInv /\ IsFiniteSet(sends)
  BY NextInvariant DEF IInv, SlotInv
<1>2. ASSUME NEW e \in Entries, Write(e) PROVE SlotInv'
  <2>1. StartInv'
    <3>1. UNCHANGED <<world, forked, ready, starters, inbox, msgs, proc, stopped>>
      BY <1>2 DEF Write, workers
    <3> QED
      BY <1>1, <3>1, QuietStarts
  <2> QED
    BY <1>1, <1>2, <2>1, WriteSlots DEF SlotInv
<1>3. ASSUME NEW s \in sends, Send(s) PROVE SlotInv'
  BY <1>1, <1>3, SendSlots, SendStarts DEF SlotInv
<1>4. CASE EndWrite \/ UNCHANGED vars
  <2>1. UNCHANGED <<world, forked, child, ready, starters, sem, sends, strays, inbox, msgs,
                    owed, proc, stopped>>
    BY <1>4 DEF EndWrite, vars, master, workers
  <2>2. StartInv'
    BY <1>1, <2>1, QuietStarts
  <2>3. \A c \in Children : SlotsOf(c)'
    BY <2>1, QuietSlots
  <2> QED
    BY <1>1, <2>1, <2>2, <2>3 DEF SlotInv
<1>5. ASSUME NEW c \in Children, Receive(c) PROVE SlotInv'
  BY <1>1, <1>5, ReceiveSlots, ReceiveStarts DEF SlotInv
<1>6. ASSUME NEW c \in Children, Close(c) PROVE SlotInv'
  <2>1. /\ UNCHANGED <<world, child, ready, starters, sem, sends, strays, inbox, msgs, owed,
                       stopped>>
        /\ proc' = [proc EXCEPT ![c] = "closed"]
    BY <1>6 DEF Close
  <2>2. \A d \in Children : proc'[d] \in Up => proc[d] \in Up
    BY <1>1, <2>1, Types DEF Up
  <2>3. \A d \in Children : SlotsOf(d)'
    BY <2>1, <2>2, QuietSlots
  <2> QED
    BY <1>1, <1>6, <2>1, <2>3, EndStarts DEF SlotInv
<1>7. CASE Restart
  BY <1>1, <1>7, RestartSlots, RestartStarts DEF SlotInv
<1>8. CASE CloseFork
  <2>1. sends' = sends
    BY <1>8 DEF CloseFork
  <2> QED
    BY <1>1, <1>8, <2>1, CloseForkSlots, CloseForkStarts DEF SlotInv
<1>9. ASSUME NEW c \in Children, WorkerTakes(c) PROVE SlotInv'
  <2>1. sends' = sends
    BY <1>9 DEF WorkerTakes, master
  <2> QED
    BY <1>1, <1>9, <2>1, WorkerTakesSlots, WorkerTakesStarts DEF SlotInv
<1>10. ASSUME NEW c \in Children, Started(c) \/ FailStart(c) \/ SendStats(c) \/ Ack(c)
       PROVE  SlotInv'
  <2>1. sends' = sends
    BY <1>10 DEF Started, FailStart, SendStats, Ack, master
  <2> QED
    BY <1>1, <1>10, <2>1, SaysSlots, SaysStarts DEF SlotInv
<1>11. ASSUME NEW c \in Children, Exit(c) \/ Crash(c) PROVE SlotInv'
  <2>1. Die(c) /\ proc[c] \in Up
    BY <1>11 DEF Exit, Crash, Up
  <2>2. sends' = sends
    BY <2>1 DEF Die, master
  <2> QED
    BY <1>1, <2>1, <2>2, DieSlots, EndStarts DEF SlotInv
<1> QED
  BY <1>2, <1>3, <1>4, <1>5, <1>6, <1>7, <1>8, <1>9, <1>10, <1>11
     DEF Next, MasterStep, WorkerStep

(* So are the slots of a worker, with the starts of its process.           *)
THEOREM SlotInvariance == Spec => []SlotInv
<1>1. Init => SlotInv
  BY InitSlots
<1>2. IInv /\ OrderInv /\ SlotInv /\ [Next]_vars => SlotInv'
  BY NextSlots
<1> QED
  BY <1>1, <1>2, Invariance, OrderInvariance, PTL DEF Spec

(* Neither a restart nor a late ack of an earlier process lets a slot of a *)
(* worker go astray (flow-master.js:48, 69-74, 91-101, 195-203).           *)
THEOREM SlotsAreUnacked == Spec => []SlotsMatchUnacked
<1>1. SlotInv => SlotsMatchUnacked
  BY DEF SlotInv, SlotsOf, SlotsMatchUnacked
<1> QED
  BY <1>1, SlotInvariance, PTL

(***************************************************************************)
(* Messages.                                                               *)
(***************************************************************************)

(* The fields of a write; a write is neither a subscription nor a snapshot.*)
LEMMA WriteFields ==
  ASSUME NEW m \in Writes
  PROVE  /\ m.cmd \in {"set", "hset", "hpush"} /\ m.val \in Values
         /\ m.cmd = "hpush" => m.list \in Lists
         /\ m.cmd # "hpush" => m.keys \subseteq Keys
         /\ m # Subscribe /\ m.cmd # "snapshot"
         /\ m \in ToMaster /\ m \in ToChild
<1>1. CASE m \in Assigns
  BY <1>1 DEF Assigns, Subscribe, ToMaster, ToChild
<1>2. CASE m \in Pushes
  BY <1>2 DEF Pushes, Subscribe, ToMaster, ToChild
<1> QED
  BY <1>1, <1>2 DEF Writes

(* A subscription changes nothing.                                         *)
LEMMA SubscribeFields ==
  /\ Subscribe \in ToMaster /\ Subscribe.cmd = "subscribe"
  /\ \A k : ~Sets(Subscribe, k)
  /\ \A l : Adds(Subscribe, l) = {}
  BY DEF Subscribe, ToMaster, Sets, Adds

(* The fields of a snapshot.                                               *)
LEMMA SnapshotFields ==
  ASSUME NEW m \in Snapshots
  PROVE  /\ m.cmd = "snapshot" /\ m \in ToChild
         /\ m.vals \in [Keys -> Values]
         /\ m.lists \in [Lists -> Seq(Values)]
  BY DEF Snapshots, ToChild

(* The snapshot of a well-typed memory is one.                             *)
LEMMA SnapshotType ==
  ASSUME ShmTypeOK
  PROVE  Snapshot \in Snapshots
<1>1. Master \in Procs
  BY DEF Procs
<1> QED
  BY <1>1 DEF ShmTypeOK, Snapshot, Snapshots

(* What a process may write is a write of the next value to its own keys.  *)
LEMMA NewWrite ==
  ASSUME ShmTypeOK, NEW p \in Procs, NEW m \in NewWrites(p), writes < MaxWrites
  PROVE  /\ m \in Writes /\ m.val = writes + 1
         /\ \A k \in Keys : Sets(m, k) => p \in Writers[k]
<1>1. writes + 1 \in Values /\ OwnKeys(p) \subseteq Keys
  BY ShmBoundsAssumption DEF ShmTypeOK, Values, OwnKeys
<1>2. CASE \E P \in Parents : P \subseteq OwnKeys(p) /\ m = Set(P, writes + 1)
  <2>1. PICK P \in Parents : P \subseteq OwnKeys(p) /\ m = Set(P, writes + 1)
    BY <1>2
  <2>2. m = [cmd |-> "set", keys |-> P, val |-> writes + 1]
    BY <2>1 DEF Set
  <2>3. P \in SUBSET Keys
    BY <1>1, <2>1
  <2> QED
    BY <1>1, <2>1, <2>2, <2>3 DEF Writes, Assigns, Sets, OwnKeys
<1>3. CASE \E k \in OwnKeys(p) : m = HSet(k, writes + 1)
  <2>1. PICK k \in OwnKeys(p) : m = HSet(k, writes + 1)
    BY <1>3
  <2>2. m = [cmd |-> "hset", keys |-> {k}, val |-> writes + 1]
    BY <2>1 DEF HSet
  <2>3. {k} \in SUBSET Keys
    BY <1>1
  <2> QED
    BY <1>1, <2>1, <2>2, <2>3 DEF Writes, Assigns, Sets, OwnKeys
<1>4. CASE \E l \in Lists : m = HPush(l, writes + 1)
  <2>1. PICK l \in Lists : m = HPush(l, writes + 1)
    BY <1>4
  <2>2. m = [cmd |-> "hpush", list |-> l, val |-> writes + 1]
    BY <2>1 DEF HPush
  <2> QED
    BY <1>1, <2>2 DEF Writes, Pushes, Sets
<1> QED
  BY <1>2, <1>3, <1>4 DEF NewWrites

(***************************************************************************)
(* What applying and forwarding a write change.                            *)
(***************************************************************************)

(* Apply changes the copy of p only, and there what the write says.        *)
LEMMA ApplyEffect ==
  ASSUME ShmTypeOK, NEW p \in Procs, NEW m \in Writes, Apply(p, m)
  PROVE  /\ vals' \in [Procs -> [Keys -> Values]]
         /\ lists' \in [Procs -> [Lists -> Seq(Values)]]
         /\ \A r \in Procs \ {p} : vals'[r] = vals[r] /\ lists'[r] = lists[r]
         /\ \A k \in Keys : vals'[p][k] = IF Sets(m, k) THEN Brings(m, k)
                                                      ELSE vals[p][k]
         /\ \A l \in Lists : lists'[p][l] =
              IF m.cmd = "hpush" /\ m.list = l THEN Append(lists[p][l], m.val)
                                               ELSE lists[p][l]
<1>0. /\ m.cmd \in {"set", "hset", "hpush"} /\ m.val \in Values
      /\ m.cmd = "hpush" => m.list \in Lists
      /\ m.cmd # "hpush" => m.keys \subseteq Keys
  BY WriteFields
<1>1. CASE m.cmd = "hpush"
  <2>1. /\ lists' = [lists EXCEPT ![p][m.list] = Append(lists[p][m.list], m.val)]
        /\ vals' = vals
    BY <1>1 DEF Apply
  <2>2. lists[p] \in [Lists -> Seq(Values)] /\ lists[p][m.list] \in Seq(Values)
    BY <1>0, <1>1 DEF ShmTypeOK
  <2>3. Append(lists[p][m.list], m.val) \in Seq(Values)
    BY <1>0, <2>2
  <2>4. lists' \in [Procs -> [Lists -> Seq(Values)]]
    BY <1>0, <1>1, <2>1, <2>3 DEF ShmTypeOK
  <2>5. \A k \in Keys : ~Sets(m, k)
    BY <1>1 DEF Sets
  <2> QED
    BY <1>0, <1>1, <2>1, <2>2, <2>4, <2>5 DEF ShmTypeOK
<1>2. CASE m.cmd # "hpush"
  <2>1. /\ vals' = [vals EXCEPT ![p] =
                      [k \in Keys |-> IF k \in m.keys THEN m.val ELSE vals[p][k]]]
        /\ lists' = lists
    BY <1>2 DEF Apply
  <2>2. [k \in Keys |-> IF k \in m.keys THEN m.val ELSE vals[p][k]] \in [Keys -> Values]
    BY <1>0 DEF ShmTypeOK
  <2>3. vals' \in [Procs -> [Keys -> Values]]
    BY <2>1, <2>2 DEF ShmTypeOK
  <2>4. \A k \in Keys : /\ Sets(m, k) <=> k \in m.keys
                        /\ Brings(m, k) = m.val
    BY <1>0, <1>2 DEF Sets, Brings
  <2> QED
    BY <1>2, <2>1, <2>3, <2>4 DEF ShmTypeOK
<1> QED
  BY <1>1, <1>2

(* Forward appends the write to the channels of the live listeners but the *)
(* origin, and keeps them all listed.                                      *)
LEMMA ForwardEffect ==
  ASSUME ShmTypeOK, NEW o, NEW m \in Writes, Forward(m, o)
  PROVE  /\ down' \in [Slaves -> Seq(ToChild)]
         /\ listeners' \in SUBSET Slaves /\ listeners' \subseteq listeners
         /\ \A c \in Slaves : Alive(c) => (c \in listeners' <=> c \in listeners)
         /\ \A c \in Slaves : down'[c] =
              IF c \in listeners /\ c # o /\ Alive(c) THEN Append(down[c], m)
                                                      ELSE down[c]
<1>1. m \in ToChild
  BY WriteFields
<1>2. \A c \in Slaves : down[c] \in Seq(ToChild) /\ Append(down[c], m) \in Seq(ToChild)
  BY <1>1 DEF ShmTypeOK
<1>3. down' = [c \in Slaves |-> IF c \in listeners \ {o} /\ Alive(c)
                                  THEN Append(down[c], m) ELSE down[c]]
  BY DEF Forward
<1>4. PICK failed \in SUBSET {c \in listeners \ {o} : ~Alive(c)} :
        listeners' = listeners \ failed
  BY DEF Forward
<1> QED
  BY <1>2, <1>3, <1>4 DEF ShmTypeOK

(***************************************************************************)
(* Channels.                                                               *)
(***************************************************************************)

(* A channel with one message.                                             *)
LEMMA Singleton ==
  ASSUME NEW S, NEW x \in S
  PROVE  Append(<<>>, x) = <<x>> /\ Tail(<<x>>) = <<>> /\ Head(<<x>>) = x
<1>1. /\ <<>> \in Seq(S) /\ Len(<<>>) = 0 /\ <<x>> \in Seq(S)
      /\ Len(<<x>>) = 1 /\ <<x>>[1] = x
  BY EmptySeq
<1>2. Append(<<>>, x) = <<x>>
  BY <1>1, AppendProperties, SeqEqual
<1>3. Tail(<<x>>) \in Seq(S) /\ Len(Tail(<<x>>)) = 0
  BY <1>1, HeadTailProperties
<1>4. Tail(<<x>>) = <<>>
  BY <1>3, EmptySeq
<1> QED
  BY <1>1, <1>2, <1>4

(* A message sent last is the one a copy ends with, if it sets the key.    *)
LEMMA EndsAppend ==
  ASSUME NEW S, NEW q \in Seq(S), NEW m \in S, NEW k, NEW x, NEW v,
         EndsWith(q, k, x, v)
  PROVE  EndsWith(Append(q, m), k, x, IF Sets(m, k) THEN Brings(m, k) ELSE v)
<1> DEFINE r == Append(q, m)
           n == Len(q)
<1>1. /\ n \in Nat /\ Len(r) = n + 1 /\ r[n + 1] = m
      /\ \A i \in 1..n : r[i] = q[i]
  BY AppendProperties
<1> HIDE DEF r, n
<1>2. CASE Sets(m, k)
  <2>1. /\ n + 1 \in 1..Len(r) /\ Sets(r[n + 1], k) /\ Brings(r[n + 1], k) = Brings(m, k)
        /\ \A j \in (n + 1 + 1)..Len(r) : ~Sets(r[j], k)
    BY <1>1, <1>2
  <2> QED
    BY <1>2, <2>1 DEF EndsWith, r
<1>3. CASE ~Sets(m, k) /\ x = v /\ \A i \in 1..n : ~Sets(q[i], k)
  <2>1. \A i \in 1..Len(r) : ~Sets(r[i], k)
    <3> TAKE i \in 1..Len(r)
    <3>1. i \in 1..n \/ i = n + 1
      BY <1>1
    <3> QED
      BY <1>1, <1>3, <3>1
  <2> QED
    BY <1>3, <2>1 DEF EndsWith, r
<1>4. CASE ~Sets(m, k) /\ \E i \in 1..n : /\ Sets(q[i], k) /\ Brings(q[i], k) = v
                                         /\ \A j \in (i + 1)..n : ~Sets(q[j], k)
  <2>1. PICK i \in 1..n : /\ Sets(q[i], k) /\ Brings(q[i], k) = v
                          /\ \A j \in (i + 1)..n : ~Sets(q[j], k)
    BY <1>4
  <2>2. i \in 1..Len(r) /\ r[i] = q[i]
    BY <1>1
  <2>3. \A j \in (i + 1)..Len(r) : ~Sets(r[j], k)
    <3> TAKE j \in (i + 1)..Len(r)
    <3>1. (j \in (i + 1)..n /\ j \in 1..n) \/ j = n + 1
      BY <1>1, <2>1
    <3> QED
      BY <1>1, <1>4, <2>1, <3>1
  <2> QED
    BY <1>4, <2>1, <2>2, <2>3 DEF EndsWith, r
<1> QED
  BY <1>2, <1>3, <1>4 DEF EndsWith, n

(* A copy that applies the head of a channel ends with the same value.     *)
LEMMA EndsTail ==
  ASSUME NEW S, NEW q \in Seq(S), q # <<>>, NEW k, NEW x, NEW v,
         EndsWith(q, k, x, v)
  PROVE  EndsWith(Tail(q), k, IF Sets(Head(q), k) THEN Brings(Head(q), k) ELSE x, v)
<1> DEFINE r == Tail(q)
           n == Len(q)
<1>1. /\ n \in Nat \ {0} /\ Len(r) = n - 1 /\ Head(q) = q[1]
      /\ \A i \in 1..(n - 1) : r[i] = q[i + 1]
  BY HeadTailProperties, EmptySeq
<1> HIDE DEF r, n
<1>2. \A i \in 1..Len(r) : i + 1 \in 1..n /\ r[i] = q[i + 1]
  BY <1>1
<1>3. CASE x = v /\ \A i \in 1..n : ~Sets(q[i], k)
  <2>1. ~Sets(Head(q), k) /\ \A i \in 1..Len(r) : ~Sets(r[i], k)
    BY <1>1, <1>2, <1>3
  <2> QED
    BY <1>3, <2>1 DEF EndsWith, r
<1>4. CASE \E i \in 1..n : /\ Sets(q[i], k) /\ Brings(q[i], k) = v
                           /\ \A j \in (i + 1)..n : ~Sets(q[j], k)
  <2>1. PICK i \in 1..n : /\ Sets(q[i], k) /\ Brings(q[i], k) = v
                          /\ \A j \in (i + 1)..n : ~Sets(q[j], k)
    BY <1>4
  <2>2. CASE i = 1
    <3>1. \A j \in 1..Len(r) : ~Sets(r[j], k)
      BY <1>1, <1>2, <2>1, <2>2
    <3> QED
      BY <1>1, <2>1, <2>2, <3>1 DEF EndsWith, r
  <2>3. CASE i # 1
    <3>1. i - 1 \in 1..Len(r) /\ r[i - 1] = q[i]
      BY <1>1, <2>1, <2>3
    <3>2. \A j \in ((i - 1) + 1)..Len(r) : ~Sets(r[j], k)
      BY <1>1, <1>2, <2>1, <2>3
    <3> QED
      BY <2>1, <3>1, <3>2 DEF EndsWith, r
  <2> QED
    BY <2>2, <2>3
<1> QED
  BY <1>3, <1>4 DEF EndsWith, n

(* An empty channel leaves a copy as it is.                                *)
LEMMA EndsEmpty == \A k, x : EndsWith(<<>>, k, x, x)
  BY EmptySeq DEF EndsWith

(* A channel whose only message is a snapshot ends with its values.        *)
LEMMA EndsSnapshot ==
  ASSUME NEW m \in Snapshots, NEW k, NEW x
  PROVE  EndsWith(<<m>>, k, x, m.vals[k])
<1>1. Len(<<m>>) = 1 /\ <<m>>[1] = m /\ Sets(m, k) /\ Brings(m, k) = m.vals[k]
  BY SnapshotFields DEF Sets, Brings
<1> QED
  BY <1>1 DEF EndsWith

(* What a channel adds to a list, as messages are sent and received.       *)
LEMMA ComingAppend ==
  ASSUME NEW S, NEW q \in Seq(S), NEW m \in S, NEW l
  PROVE  Coming(Append(q, m), l) = Coming(q, l) \cup Adds(m, l)
<1> DEFINE r == Append(q, m)
           n == Len(q)
<1>1. /\ n \in Nat /\ Len(r) = n + 1 /\ r[n + 1] = m
      /\ \A i \in 1..n : r[i] = q[i]
  BY AppendProperties
<1> HIDE DEF r, n
<1>2. 1..(n + 1) = (1..n) \cup {n + 1}
  BY <1>1
<1>3. \A z : (\E i \in 1..Len(r) : z \in Adds(r[i], l))
              <=> z \in Adds(m, l) \/ \E i \in 1..n : z \in Adds(q[i], l)
  BY <1>1, <1>2
<1> QED
  BY <1>3 DEF Coming, r, n

LEMMA ComingTail ==
  ASSUME NEW S, NEW q \in Seq(S), q # <<>>, NEW l
  PROVE  Coming(q, l) = Adds(Head(q), l) \cup Coming(Tail(q), l)
<1> DEFINE r == Tail(q)
           n == Len(q)
<1>1. /\ n \in Nat \ {0} /\ Len(r) = n - 1 /\ Head(q) = q[1]
      /\ \A i \in 1..(n - 1) : r[i] = q[i + 1]
  BY HeadTailProperties, EmptySeq
<1> HIDE DEF r, n
<1>2. \A z : (\E i \in 1..n : z \in Adds(q[i], l))
              <=> z \in Adds(q[1], l) \/ \E i \in 1..Len(r) : z \in Adds(r[i], l)
  <2> TAKE z
  <2>1. ASSUME NEW i \in 1..n, z \in Adds(q[i], l)
        PROVE  z \in Adds(q[1], l) \/ \E j \in 1..Len(r) : z \in Adds(r[j], l)
    <3>1. CASE i = 1
      BY <2>1, <3>1
    <3>2. CASE i # 1
      <4>1. i - 1 \in 1..Len(r) /\ r[i - 1] = q[i]
        BY <1>1, <3>2
      <4> QED
        BY <2>1, <4>1
    <3> QED
      BY <3>1, <3>2
  <2>2. ASSUME NEW i \in 1..Len(r), z \in Adds(r[i], l)
        PROVE  \E j \in 1..n : z \in Adds(q[j], l)
    <3>1. i + 1 \in 1..n /\ r[i] = q[i + 1]
      BY <1>1
    <3> QED
      BY <2>2, <3>1
  <2>3. 1 \in 1..n
    BY <1>1
  <2> QED
    BY <2>1, <2>2, <2>3
<1> QED
  BY <1>1, <1>2 DEF Coming, r, n

LEMMA ComingEmpty == \A l : Coming(<<>>, l) = {}
  BY EmptySeq DEF Coming

(***************************************************************************)
(* Types.                                                                  *)
(***************************************************************************)

(* The head of a channel to the master is a subscription or a write, that  *)
(* of a channel to a child a snapshot or a write.                          *)
LEMMA HeadTypes ==
  ASSUME ShmTypeOK, NEW c \in Slaves
  PROVE  /\ up[c] # <<>> =>
              /\ Head(up[c]) \in ToMaster /\ Tail(up[c]) \in Seq(ToMaster)
              /\ Head(up[c]) \in Writes \/ Head(up[c]) = Subscribe
         /\ down[c] # <<>> =>
              /\ Head(down[c]) \in ToChild /\ Tail(down[c]) \in Seq(ToChild)
              /\ \/ Head(down[c]) \in Snapshots /\ Head(down[c]).cmd = "snapshot"
                 \/ Head(down[c]) \in Writes /\ Head(down[c]).cmd # "snapshot"
<1>1. up[c] \in Seq(ToMaster) /\ down[c] \in Seq(ToChild)
  BY DEF ShmTypeOK
<1>2. up[c] # <<>> => Head(up[c]) \in ToMaster /\ Tail(up[c]) \in Seq(ToMaster)
  BY <1>1
<1>3. down[c] # <<>> => Head(down[c]) \in ToChild /\ Tail(down[c]) \in Seq(ToChild)
  BY <1>1
<1> QED
  BY <1>2, <1>3, WriteFields, SnapshotFields DEF ToMaster, ToChild

(* A step keeps the types.                                                 *)
LEMMA TypeStep ==
  ASSUME ShmTypeOK, [ShmNext]_shmVars
  PROVE  ShmTypeOK'
<1>m. Master \in Procs /\ \A c \in Slaves : c \in Procs
  BY DEF Procs
<1>1. ASSUME NEW m \in NewWrites(Master), MasterWrite(m)
      PROVE  ShmTypeOK'
  <2>1. m \in Writes
    BY <1>1, <1>m, NewWrite DEF MasterWrite
  <2>2. /\ vals' \in [Procs -> [Keys -> Values]]
        /\ lists' \in [Procs -> [Lists -> Seq(Values)]]
    BY <1>1, <1>m, <2>1, ApplyEffect DEF MasterWrite
  <2>3. down' \in [Slaves -> Seq(ToChild)] /\ listeners' \in SUBSET Slaves
    BY <1>1, <2>1, ForwardEffect DEF MasterWrite
  <2> QED
    BY <1>1, <2>2, <2>3, ShmBoundsAssumption DEF MasterWrite, ShmTypeOK
<1>2. ASSUME NEW c \in Slaves, NEW m \in NewWrites(c), ChildWrite(c, m)
      PROVE  ShmTypeOK'
  <2>1. m \in Writes /\ m \in ToMaster
    BY <1>2, <1>m, NewWrite, WriteFields DEF ChildWrite
  <2>2. /\ vals' \in [Procs -> [Keys -> Values]]
        /\ lists' \in [Procs -> [Lists -> Seq(Values)]]
    BY <1>2, <1>m, <2>1, ApplyEffect DEF ChildWrite
  <2>3. Append(up[c], m) \in Seq(ToMaster)
    BY <2>1 DEF ShmTypeOK
  <2> QED
    BY <1>2, <2>2, <2>3, ShmBoundsAssumption DEF ChildWrite, ShmTypeOK
<1>3. ASSUME NEW c \in Slaves, Fork(c)
      PROVE  ShmTypeOK'
  <2>1. Append(up[c], Subscribe) \in Seq(ToMaster)
    BY SubscribeFields DEF ShmTypeOK
  <2> QED
    BY <1>3, <2>1 DEF Fork, ShmTypeOK
<1>4. ASSUME NEW c \in Slaves, MasterSubscribe(c)
      PROVE  ShmTypeOK'
  <2>1. Tail(up[c]) \in Seq(ToMaster)
    BY <1>4, HeadTypes DEF MasterSubscribe
  <2>2. Append(down[c], Snapshot) \in Seq(ToChild)
    BY SnapshotType, SnapshotFields DEF ShmTypeOK
  <2>3. down' \in [Slaves -> Seq(ToChild)]
    BY <1>4, <2>2 DEF MasterSubscribe, ShmTypeOK
  <2> QED
    BY <1>4, <2>1, <2>3 DEF MasterSubscribe, ShmTypeOK
<1>5. ASSUME NEW c \in Slaves, MasterApply(c)
      PROVE  ShmTypeOK'
  <2>1. Tail(up[c]) \in Seq(ToMaster) /\ Head(up[c]) \in Writes
    BY <1>5, HeadTypes DEF MasterApply
  <2>2. /\ vals' \in [Procs -> [Keys -> Values]]
        /\ lists' \in [Procs -> [Lists -> Seq(Values)]]
    BY <1>5, <1>m, <2>1, ApplyEffect DEF MasterApply
  <2>3. down' \in [Slaves -> Seq(ToChild)] /\ listeners' \in SUBSET Slaves
    BY <1>5, <2>1, ForwardEffect DEF MasterApply
  <2> QED
    BY <1>5, <2>1, <2>2, <2>3 DEF MasterApply, ShmTypeOK
<1>6. ASSUME NEW c \in Slaves, ChildInit(c)
      PROVE  ShmTypeOK'
  <2>1. Tail(down[c]) \in Seq(ToChild) /\ Head(down[c]) \in Snapshots
    BY <1>6, HeadTypes DEF ChildInit
  <2>2. /\ Head(down[c]).vals \in [Keys -> Values]
        /\ Head(down[c]).lists \in [Lists -> Seq(Values)]
    BY <2>1, SnapshotFields
  <2> QED
    BY <1>6, <1>m, <2>1, <2>2 DEF ChildInit, ShmTypeOK
<1>7. ASSUME NEW c \in Slaves, ChildApply(c)
      PROVE  ShmTypeOK'
  <2>1. Tail(down[c]) \in Seq(ToChild) /\ Head(down[c]) \in Writes
    BY <1>7, HeadTypes DEF ChildApply
  <2>2. /\ vals' \in [Procs -> [Keys -> Values]]
        /\ lists' \in [Procs -> [Lists -> Seq(Values)]]
    BY <1>7, <1>m, <2>1, ApplyEffect DEF ChildApply
  <2> QED
    BY <1>7, <2>1, <2>2 DEF ChildApply, ShmTypeOK
<1>8. ASSUME NEW c \in Slaves, Dies(c)
      PROVE  ShmTypeOK'
  BY <1>8 DEF Dies, ShmTypeOK
<1>9. CASE UNCHANGED shmVars
  BY <1>9 DEF shmVars, ShmTypeOK
<1> QED
  BY <1>1, <1>2, <1>3, <1>4, <1>5, <1>6, <1>7, <1>8, <1>9 DEF ShmNext

(***************************************************************************)
(* The order in which a child joins.                                       *)
(***************************************************************************)

(* A write that is forwarded comes after the snapshot.                     *)
LEMMA ForwardOrder ==
  ASSUME ShmTypeOK, SnapshotFirst, NEW o, NEW m \in Writes, Forward(m, o),
         NEW c \in Slaves
  PROVE  /\ life[c] = "new" => down'[c] = <<>> /\ c \notin listeners'
         /\ life[c] = "joining" /\ c \notin listeners
              => down'[c] = down[c] /\ c \notin listeners'
         /\ life[c] = "joining" /\ c \in listeners
              => /\ c \in listeners' /\ down'[c] # <<>>
                 /\ \A i \in 1..Len(down'[c]) : down'[c][i].cmd = "snapshot" <=> i = 1
         /\ life[c] = "up"
              => /\ c \in listeners'
                 /\ \A i \in 1..Len(down'[c]) : down'[c][i].cmd # "snapshot"
<1> DEFINE q == down[c]
           r == Append(q, m)
<1>1. q \in Seq(ToChild) /\ m \in ToChild /\ m.cmd # "snapshot"
  BY WriteFields DEF ShmTypeOK
<1>2. /\ Len(q) \in Nat /\ Len(r) = Len(q) + 1 /\ r[Len(q) + 1] = m
      /\ \A i \in 1..Len(q) : r[i] = q[i]
  BY <1>1, AppendProperties
<1>3. /\ listeners' \subseteq listeners
      /\ Alive(c) => (c \in listeners' <=> c \in listeners)
      /\ down'[c] = q \/ down'[c] = r
      /\ c \notin listeners \/ ~Alive(c) => down'[c] = q
  BY ForwardEffect
<1>4. q # <<>> => Len(q) >= 1
  BY <1>1, EmptySeq
<1>5. r # <<>>
  BY <1>2, EmptySeq
<1> HIDE DEF r
<1>6. (\A i \in 1..Len(q) : q[i].cmd # "snapshot")
        => \A i \in 1..Len(r) : r[i].cmd # "snapshot"
  <2> SUFFICES ASSUME \A i \in 1..Len(q) : q[i].cmd # "snapshot",
                      NEW i \in 1..Len(r)
               PROVE  r[i].cmd # "snapshot"
    OBVIOUS
  <2>1. i \in 1..Len(q) \/ i = Len(q) + 1
    BY <1>2
  <2> QED
    BY <1>1, <1>2, <2>1
<1>7. (q # <<>> /\ \A i \in 1..Len(q) : q[i].cmd = "snapshot" <=> i = 1)
        => \A i \in 1..Len(r) : r[i].cmd = "snapshot" <=> i = 1
  <2> SUFFICES ASSUME q # <<>>,
                      \A i \in 1..Len(q) : q[i].cmd = "snapshot" <=> i = 1,
                      NEW i \in 1..Len(r)
               PROVE  r[i].cmd = "snapshot" <=> i = 1
    OBVIOUS
  <2>1. i \in 1..Len(q) \/ (i = Len(q) + 1 /\ i # 1)
    BY <1>2, <1>4
  <2> QED
    BY <1>1, <1>2, <2>1
<1> HIDE DEF q
<1>8. CASE life[c] = "new"
  BY <1>3, <1>8 DEF SnapshotFirst, InOrder, Alive, q
<1>9. CASE life[c] = "joining"
  <2>1. c \in listeners => /\ q # <<>>
                           /\ \A i \in 1..Len(q) : q[i].cmd = "snapshot" <=> i = 1
    BY <1>9 DEF SnapshotFirst, InOrder, q
  <2> QED
    BY <1>3, <1>5, <1>7, <1>9, <2>1 DEF Alive, q
<1>10. CASE life[c] = "up"
  <2>1. c \in listeners /\ \A i \in 1..Len(q) : q[i].cmd # "snapshot"
    BY <1>10 DEF SnapshotFirst, InOrder, q
  <2> QED
    BY <1>3, <1>6, <1>10, <2>1 DEF Alive
<1> QED
  BY <1>8, <1>9, <1>10

(* A step keeps the order.                                                 *)
LEMMA SnapshotStep ==
  ASSUME ShmTypeOK, SnapshotFirst, [ShmNext]_shmVars
  PROVE  SnapshotFirst'
<1>m. Master \in Procs /\ \A c \in Slaves : c \in Procs
  BY DEF Procs
<1>t. \A c \in Slaves : up[c] \in Seq(ToMaster) /\ down[c] \in Seq(ToChild)
  BY DEF ShmTypeOK
<1>1. ASSUME NEW m \in NewWrites(Master), MasterWrite(m)
      PROVE  SnapshotFirst'
  <2>1. m \in Writes /\ Forward(m, Master)
    BY <1>1, <1>m, NewWrite DEF MasterWrite
  <2>2. UNCHANGED <<life, up>>
    BY <1>1 DEF MasterWrite
  <2> SUFFICES ASSUME NEW d \in Slaves
               PROVE  InOrder(d)'
    BY DEF SnapshotFirst
  <2>o. InOrder(d)
    BY DEF SnapshotFirst
  <2> QED
    BY <2>o, <2>1, <2>2, ForwardOrder DEF InOrder
<1>2. ASSUME NEW c \in Slaves, NEW m \in NewWrites(c), ChildWrite(c, m)
      PROVE  SnapshotFirst'
  <2>1. m \in Writes /\ m # Subscribe /\ m \in ToMaster
    BY <1>2, <1>m, NewWrite, WriteFields DEF ChildWrite
  <2>2. /\ UNCHANGED <<life, listeners, down>> /\ life[c] = "up"
        /\ up' = [up EXCEPT ![c] = Append(up[c], m)]
    BY <1>2 DEF ChildWrite
  <2>3. up'[c] = Append(up[c], m) /\ \A d \in Slaves \ {c} : up'[d] = up[d]
    BY <2>2 DEF ShmTypeOK
  <2>4. \A i \in 1..Len(up'[c]) : \/ i \in 1..Len(up[c]) /\ up'[c][i] = up[c][i]
                                \/ up'[c][i] = m
    BY <1>t, <2>1, <2>3
  <2>5. \A i \in 1..Len(up'[c]) : up'[c][i] # Subscribe
    BY <2>1, <2>2, <2>4 DEF SnapshotFirst, InOrder
  <2> SUFFICES ASSUME NEW d \in Slaves
               PROVE  InOrder(d)'
    BY DEF SnapshotFirst
  <2>o. InOrder(d)
    BY DEF SnapshotFirst
  <2>c. CASE d = c
    BY <2>o, <2>c, <2>2, <2>5 DEF InOrder
  <2>d. CASE d # c
    BY <2>o, <2>d, <2>2, <2>3 DEF InOrder
  <2> QED
    BY <2>c, <2>d
<1>3. ASSUME NEW c \in Slaves, Fork(c)
      PROVE  SnapshotFirst'
  <2>1. /\ life[c] = "new" /\ life'[c] = "joining"
        /\ up'[c] = Append(up[c], Subscribe)
        /\ \A d \in Slaves \ {c} : life'[d] = life[d] /\ up'[d] = up[d]
        /\ UNCHANGED <<listeners, down>>
    BY <1>3 DEF Fork, ShmTypeOK
  <2>2. up'[c] = <<Subscribe>> /\ down'[c] = <<>> /\ c \notin listeners'
    BY <2>1, SubscribeFields, Singleton DEF SnapshotFirst, InOrder
  <2> SUFFICES ASSUME NEW d \in Slaves
               PROVE  InOrder(d)'
    BY DEF SnapshotFirst
  <2>o. InOrder(d)
    BY DEF SnapshotFirst
  <2>c. CASE d = c
    BY <2>o, <2>c, <2>1, <2>2 DEF InOrder
  <2>d. CASE d # c
    BY <2>o, <2>d, <2>1 DEF InOrder
  <2> QED
    BY <2>c, <2>d
<1>4. ASSUME NEW c \in Slaves, MasterSubscribe(c)
      PROVE  SnapshotFirst'
  <2>1. /\ up[c] # <<>> /\ Head(up[c]) = Subscribe /\ up'[c] = Tail(up[c])
        /\ \A d \in Slaves \ {c} : up'[d] = up[d] /\ down'[d] = down[d]
        /\ Alive(c) => down'[c] = Append(down[c], Snapshot)
        /\ listeners' = listeners \cup {c} /\ life' = life
    BY <1>4 DEF MasterSubscribe, ShmTypeOK
  <2>2. up[c][1] = Subscribe /\ 1 \in 1..Len(up[c])
    BY <1>t, <2>1, HeadTailProperties, EmptySeq
  <2>3. life[c] \in {"joining", "dead"}
    BY <2>1, <2>2 DEF SnapshotFirst, InOrder, ShmTypeOK
  <2>4. life[c] = "joining" => up[c] = <<Subscribe>> /\ down[c] = <<>>
    BY <2>1 DEF SnapshotFirst, InOrder
  <2>5. life[c] = "joining" => up'[c] = <<>> /\ down'[c] = <<Snapshot>>
    BY <2>1, <2>4, SubscribeFields, SnapshotType, Singleton DEF Alive
  <2>6. Snapshot.cmd = "snapshot"
    BY SnapshotType, SnapshotFields
  <2>8. /\ Len(<<Snapshot>>) = 1 /\ <<Snapshot>> # <<>>
        /\ \A i \in 1..1 : <<Snapshot>>[i] = Snapshot
    OBVIOUS
  <2>7. ASSUME life[c] = "joining"
        PROVE  /\ up'[c] = <<>> /\ c \in listeners' /\ down'[c] # <<>>
               /\ \A i \in 1..Len(down'[c]) : down'[c][i].cmd = "snapshot" <=> i = 1
    <3>1. up'[c] = <<>> /\ down'[c] = <<Snapshot>> /\ c \in listeners'
      BY <2>1, <2>5, <2>7
    <3>2. Len(down'[c]) = 1 /\ down'[c] # <<>> /\ down'[c][1].cmd = "snapshot"
      BY <2>6, <2>8, <3>1
    <3>3. \A i \in 1..1 : i = 1
      OBVIOUS
    <3> QED
      BY <3>1, <3>2, <3>3
  <2> SUFFICES ASSUME NEW d \in Slaves
               PROVE  InOrder(d)'
    BY DEF SnapshotFirst
  <2>o. InOrder(d)
    BY DEF SnapshotFirst
  <2>c. CASE d = c
    BY <2>o, <2>c, <2>1, <2>3, <2>7 DEF InOrder
  <2>d. CASE d # c
    BY <2>o, <2>d, <2>1 DEF InOrder
  <2> QED
    BY <2>c, <2>d
<1>5. ASSUME NEW c \in Slaves, MasterApply(c)
      PROVE  SnapshotFirst'
  <2>1. Head(up[c]) \in Writes /\ Forward(Head(up[c]), c) /\ Tail(up[c]) \in Seq(ToMaster)
    BY <1>5, HeadTypes DEF MasterApply
  <2>2. /\ up[c] # <<>> /\ Head(up[c]) # Subscribe /\ life' = life
        /\ up'[c] = Tail(up[c]) /\ \A d \in Slaves \ {c} : up'[d] = up[d]
    BY <1>5 DEF MasterApply, ShmTypeOK
  <2>3. life[c] \in {"up", "dead"}
    BY <2>2 DEF SnapshotFirst, InOrder, ShmTypeOK
  <2>4. \A i \in 1..Len(up'[c]) : i + 1 \in 1..Len(up[c]) /\ up'[c][i] = up[c][i + 1]
    BY <1>t, <2>2, HeadTailProperties
  <2>5. life[c] = "up" => \A i \in 1..Len(up'[c]) : up'[c][i] # Subscribe
    BY <2>4 DEF SnapshotFirst, InOrder
  <2> SUFFICES ASSUME NEW d \in Slaves
               PROVE  InOrder(d)'
    BY DEF SnapshotFirst
  <2>o. InOrder(d)
    BY DEF SnapshotFirst
  <2>c. CASE d = c
    BY <2>o, <2>c, <2>1, <2>2, <2>3, <2>5, ForwardOrder DEF InOrder
  <2>d. CASE d # c
    BY <2>o, <2>d, <2>1, <2>2, ForwardOrder DEF InOrder
  <2> QED
    BY <2>c, <2>d
<1>6. ASSUME NEW c \in Slaves, ChildInit(c)
      PROVE  SnapshotFirst'
  <2>1. /\ Alive(c) /\ down[c] # <<>> /\ Head(down[c]).cmd = "snapshot"
        /\ down'[c] = Tail(down[c]) /\ life'[c] = "up"
        /\ \A d \in Slaves \ {c} : down'[d] = down[d] /\ life'[d] = life[d]
        /\ UNCHANGED <<listeners, up>>
    BY <1>6 DEF ChildInit, ShmTypeOK
  <2>2. Head(down[c]) = down[c][1] /\ 1 \in 1..Len(down[c])
    BY <1>t, <2>1, HeadTailProperties, EmptySeq
  <2>3. life[c] = "joining"
    BY <2>1, <2>2 DEF Alive, SnapshotFirst, InOrder
  <2>4. /\ up[c] = <<>> /\ c \in listeners
        /\ \A i \in 1..Len(down[c]) : down[c][i].cmd = "snapshot" <=> i = 1
    BY <2>1, <2>3 DEF SnapshotFirst, InOrder
  <2>5. \A i \in 1..Len(down'[c]) : /\ i + 1 \in 1..Len(down[c]) /\ i + 1 # 1
                                  /\ down'[c][i] = down[c][i + 1]
    BY <1>t, <2>1, HeadTailProperties
  <2>6. \A i \in 1..Len(up'[c]) : up'[c][i] # Subscribe
    BY <2>1, <2>4
  <2> SUFFICES ASSUME NEW d \in Slaves
               PROVE  InOrder(d)'
    BY DEF SnapshotFirst
  <2>o. InOrder(d)
    BY DEF SnapshotFirst
  <2>c. CASE d = c
    BY <2>o, <2>c, <2>1, <2>4, <2>5, <2>6 DEF InOrder
  <2>d. CASE d # c
    BY <2>o, <2>d, <2>1 DEF InOrder
  <2> QED
    BY <2>c, <2>d
<1>7. ASSUME NEW c \in Slaves, ChildApply(c)
      PROVE  SnapshotFirst'
  <2>1. /\ Alive(c) /\ down[c] # <<>> /\ Head(down[c]).cmd # "snapshot"
        /\ down'[c] = Tail(down[c])
        /\ \A d \in Slaves \ {c} : down'[d] = down[d]
        /\ UNCHANGED <<life, listeners, up>>
    BY <1>7 DEF ChildApply, ShmTypeOK
  <2>2. Head(down[c]) = down[c][1] /\ 1 \in 1..Len(down[c])
    BY <1>t, <2>1, HeadTailProperties, EmptySeq
  <2>3. life[c] = "up"
    BY <2>1, <2>2 DEF Alive, SnapshotFirst, InOrder
  <2>5. \A i \in 1..Len(down'[c]) : /\ i + 1 \in 1..Len(down[c])
                                  /\ down'[c][i] = down[c][i + 1]
    BY <1>t, <2>1, HeadTailProperties
  <2> SUFFICES ASSUME NEW d \in Slaves
               PROVE  InOrder(d)'
    BY DEF SnapshotFirst
  <2>o. InOrder(d)
    BY DEF SnapshotFirst
  <2>c. CASE d = c
    BY <2>o, <2>c, <2>1, <2>3, <2>5 DEF InOrder
  <2>d. CASE d # c
    BY <2>o, <2>d, <2>1 DEF InOrder
  <2> QED
    BY <2>c, <2>d
<1>8. ASSUME NEW c \in Slaves, Dies(c)
      PROVE  SnapshotFirst'
  <2>1. /\ life'[c] = "dead" /\ UNCHANGED <<listeners, up>>
        /\ \A d \in Slaves \ {c} : down'[d] = down[d] /\ life'[d] = life[d]
    BY <1>8 DEF Dies, ShmTypeOK
  <2> SUFFICES ASSUME NEW d \in Slaves
               PROVE  InOrder(d)'
    BY DEF SnapshotFirst
  <2>o. InOrder(d)
    BY DEF SnapshotFirst
  <2>c. CASE d = c
    BY <2>o, <2>c, <2>1 DEF InOrder
  <2>d. CASE d # c
    BY <2>o, <2>d, <2>1 DEF InOrder
  <2> QED
    BY <2>c, <2>d
<1>9. CASE UNCHANGED shmVars
  BY <1>9 DEF shmVars, SnapshotFirst, InOrder
<1> QED
  BY <1>1, <1>2, <1>3, <1>4, <1>5, <1>6, <1>7, <1>8, <1>9 DEF ShmNext

(***************************************************************************)
(* Copies catch up.                                                        *)
(***************************************************************************)

(* A child has sent no write to the key of another.                        *)
LEMMA HeadOwn ==
  ASSUME ShmTypeOK, OwnWrites, NEW c \in Slaves, up[c] # <<>>,
         NEW k \in Keys, Sets(Head(up[c]), k)
  PROVE  c \in Writers[k]
<1>1. up[c] \in Seq(ToMaster)
  BY DEF ShmTypeOK
<1>2. Head(up[c]) = up[c][1] /\ 1 \in 1..Len(up[c])
  BY <1>1, HeadTailProperties, EmptySeq
<1> QED
  BY <1>2 DEF OwnWrites

LEMMA OwnStep ==
  ASSUME ShmTypeOK, OwnWrites, [ShmNext]_shmVars
  PROVE  OwnWrites'
<1>t. \A c \in Slaves : c \in Procs /\ up[c] \in Seq(ToMaster)
  BY DEF ShmTypeOK, Procs
<1>a. ASSUME NEW c \in Slaves, NEW m \in ToMaster,
             up' = [up EXCEPT ![c] = Append(up[c], m)],
             \A k \in Keys : Sets(m, k) => c \in Writers[k]
      PROVE  OwnWrites'
  <2>1. up'[c] = Append(up[c], m) /\ \A d \in Slaves \ {c} : up'[d] = up[d]
    BY <1>a DEF ShmTypeOK
  <2>2. \A i \in 1..Len(up'[c]) : \/ i \in 1..Len(up[c]) /\ up'[c][i] = up[c][i]
                                \/ up'[c][i] = m
    BY <1>t, <2>1
  <2> QED
    BY <1>a, <2>1, <2>2 DEF OwnWrites
<1>b. ASSUME NEW c \in Slaves, up[c] # <<>>, up' = [up EXCEPT ![c] = Tail(up[c])]
      PROVE  OwnWrites'
  <2>1. up'[c] = Tail(up[c]) /\ \A d \in Slaves \ {c} : up'[d] = up[d]
    BY <1>b DEF ShmTypeOK
  <2>2. up[c] \in Seq(ToMaster) /\ Len(up[c]) \in Nat
    BY <1>t
  <2>3. /\ Len(up'[c]) = Len(up[c]) - 1
        /\ \A i \in 1..Len(up'[c]) : up'[c][i] = up[c][i + 1]
    <3>1. /\ Len(Tail(up[c])) = Len(up[c]) - 1
          /\ \A i \in 1..Len(Tail(up[c])) : Tail(up[c])[i] = up[c][i + 1]
      BY <1>b, <2>2, HeadTailProperties
    <3> QED
      BY <2>1, <3>1
  <2>4. \A i \in 1..Len(up'[c]) : i + 1 \in 1..Len(up[c])
    BY <2>2, <2>3
  <2>5. \A i \in 1..Len(up'[c]) : \A k \in Keys :
          Sets(up'[c][i], k) => c \in Writers[k]
    BY <2>3, <2>4 DEF OwnWrites
  <2> QED
    BY <2>1, <2>5 DEF OwnWrites
<1>1. ASSUME NEW c \in Slaves, NEW m \in NewWrites(c), ChildWrite(c, m)
      PROVE  OwnWrites'
  <2>1. m \in Writes /\ m \in ToMaster /\ \A k \in Keys : Sets(m, k) => c \in Writers[k]
    BY <1>1, <1>t, NewWrite, WriteFields DEF ChildWrite
  <2> QED
    BY <1>1, <1>a, <2>1 DEF ChildWrite
<1>2. ASSUME NEW c \in Slaves, Fork(c)
      PROVE  OwnWrites'
  BY <1>2, <1>a, SubscribeFields DEF Fork
<1>3. ASSUME NEW c \in Slaves, MasterSubscribe(c) \/ MasterApply(c)
      PROVE  OwnWrites'
  BY <1>3, <1>b DEF MasterSubscribe, MasterApply
<1>4. CASE UNCHANGED up
  BY <1>4 DEF OwnWrites
<1> QED
  BY <1>1, <1>2, <1>3, <1>4
  DEF ShmNext, shmVars, MasterWrite, ChildInit, ChildApply, Dies

(* What a child does not write it gets from the master.                    *)
LEMMA ReadersStep ==
  ASSUME ShmTypeOK, SnapshotFirst, OwnWrites, ReadersCatchUp, [ShmNext]_shmVars
  PROVE  ReadersCatchUp'
<1> SUFFICES ASSUME NEW d \in Slaves, NEW k \in Keys,
                    Subscribed(d)', d \notin Writers[k]
             PROVE  EndsWith(down'[d], k, vals'[d][k], vals'[Master][k])
  BY DEF ReadersCatchUp
<1>m. /\ Master \in Procs /\ \A c \in Slaves : c \in Procs /\ c # Master
      /\ down[d] \in Seq(ToChild) /\ up[d] \in Seq(ToMaster)
  BY ProcsAssumption DEF Procs, ShmTypeOK
<1>o. Subscribed(d) => EndsWith(down[d], k, vals[d][k], vals[Master][k])
  BY DEF ReadersCatchUp
<1>f. ASSUME NEW m \in Writes, NEW o \in Procs, Apply(Master, m), Forward(m, o),
             life' = life, o = d => ~Sets(m, k)
      PROVE  EndsWith(down'[d], k, vals'[d][k], vals'[Master][k])
  <2>1. Subscribed(d)
    BY <1>f, ForwardEffect DEF Subscribed, Alive
  <2>2. /\ vals'[d] = vals[d]
        /\ vals'[Master][k] = IF Sets(m, k) THEN Brings(m, k) ELSE vals[Master][k]
    BY <1>f, <1>m, ApplyEffect
  <2>3. CASE o # d
    <3>1. down'[d] = Append(down[d], m) /\ m \in ToChild
      BY <1>f, <2>1, <2>3, ForwardEffect, WriteFields DEF Subscribed
    <3> QED
      BY <1>m, <1>o, <2>1, <2>2, <3>1, EndsAppend
  <2>4. CASE o = d
    <3>1. down'[d] = down[d]
      BY <1>f, <2>4, ForwardEffect
    <3> QED
      BY <1>f, <1>o, <2>1, <2>2, <2>4, <3>1
  <2> QED
    BY <2>3, <2>4
<1>k. ASSUME Subscribed(d), down'[d] = down[d],
             vals'[d][k] = vals[d][k], vals'[Master] = vals[Master]
      PROVE  EndsWith(down'[d], k, vals'[d][k], vals'[Master][k])
  BY <1>k, <1>o
<1>1. ASSUME NEW m \in NewWrites(Master), MasterWrite(m)
      PROVE  EndsWith(down'[d], k, vals'[d][k], vals'[Master][k])
  <2>1. m \in Writes
    BY <1>1, <1>m, NewWrite DEF MasterWrite
  <2> QED
    BY <1>1, <1>f, <1>m, <2>1 DEF MasterWrite
<1>2. ASSUME NEW c \in Slaves, NEW m \in NewWrites(c), ChildWrite(c, m)
      PROVE  EndsWith(down'[d], k, vals'[d][k], vals'[Master][k])
  <2>1. m \in Writes /\ (Sets(m, k) => c # d)
    BY <1>2, <1>m, NewWrite DEF ChildWrite
  <2>2. vals'[d][k] = vals[d][k] /\ vals'[Master] = vals[Master]
    <3>1. Apply(c, m) /\ c \in Procs
      BY <1>2, <1>m DEF ChildWrite
    <3>2. /\ vals'[Master] = vals[Master]
          /\ c # d => vals'[d] = vals[d]
          /\ ~Sets(m, k) => vals'[c][k] = vals[c][k]
      BY <1>m, <2>1, <3>1, ApplyEffect
    <3> QED
      BY <2>1, <3>2
  <2>3. Subscribed(d) /\ down'[d] = down[d]
    BY <1>2 DEF ChildWrite, Subscribed, Alive
  <2> QED
    BY <1>k, <2>2, <2>3
<1>3. ASSUME NEW c \in Slaves, Fork(c)
      PROVE  EndsWith(down'[d], k, vals'[d][k], vals'[Master][k])
  <2>1. c # d
    BY <1>3 DEF Fork, SnapshotFirst, InOrder, Subscribed
  <2> QED
    BY <1>3, <1>k, <2>1 DEF Fork, Subscribed, Alive, ShmTypeOK
<1>4. ASSUME NEW c \in Slaves, MasterSubscribe(c)
      PROVE  EndsWith(down'[d], k, vals'[d][k], vals'[Master][k])
  <2>1. CASE c # d
    BY <1>4, <1>k, <2>1 DEF MasterSubscribe, Subscribed, Alive, ShmTypeOK
  <2>2. CASE c = d
    <3>1. /\ up[d] # <<>> /\ Head(up[d]) = Subscribe /\ Alive(d)
          /\ down'[d] = Append(down[d], Snapshot) /\ vals' = vals
      BY <1>4, <2>2 DEF MasterSubscribe, Subscribed, Alive, ShmTypeOK
    <3>2. up[d][1] = Subscribe /\ 1 \in 1..Len(up[d])
      BY <1>m, <3>1, HeadTailProperties, EmptySeq
    <3>3. down[d] = <<>>
      BY <3>1, <3>2 DEF SnapshotFirst, InOrder, Alive
    <3>4. down'[d] = <<Snapshot>> /\ Snapshot \in Snapshots
      BY <3>1, <3>3, SnapshotType, Singleton
    <3>5. Snapshot.vals = vals[Master]
      BY DEF Snapshot
    <3>6. EndsWith(<<Snapshot>>, k, vals[d][k], Snapshot.vals[k])
      BY <3>4, EndsSnapshot
    <3> QED
      BY <3>1, <3>4, <3>5, <3>6
  <2> QED
    BY <2>1, <2>2
<1>5. ASSUME NEW c \in Slaves, MasterApply(c)
      PROVE  EndsWith(down'[d], k, vals'[d][k], vals'[Master][k])
  <2>1. Head(up[c]) \in Writes /\ up[c] # <<>>
    BY <1>5, HeadTypes DEF MasterApply
  <2>2. c = d => ~Sets(Head(up[c]), k)
    BY <2>1, HeadOwn
  <2> QED
    BY <1>5, <1>f, <1>m, <2>1, <2>2 DEF MasterApply
<1>6. ASSUME NEW c \in Slaves, ChildInit(c) \/ ChildApply(c)
      PROVE  EndsWith(down'[d], k, vals'[d][k], vals'[Master][k])
  <2>1. /\ down[c] # <<>> /\ down' = [down EXCEPT ![c] = Tail(down[c])] /\ Alive(c)
        /\ listeners' = listeners
    BY <1>6 DEF ChildInit, ChildApply
  <2>2. /\ vals'[c][k] = IF Sets(Head(down[c]), k) THEN Brings(Head(down[c]), k)
                                                  ELSE vals[c][k]
        /\ \A p \in Procs \ {c} : vals'[p] = vals[p]
    <3>1. CASE ChildInit(c)
      <4>1. Head(down[c]).cmd = "snapshot" /\ vals'[c] = Head(down[c]).vals
        BY <1>m, <3>1 DEF ChildInit, ShmTypeOK
      <4>2. Sets(Head(down[c]), k) /\ Brings(Head(down[c]), k) = Head(down[c]).vals[k]
        BY <4>1 DEF Sets, Brings
      <4> QED
        BY <3>1, <4>1, <4>2 DEF ChildInit, ShmTypeOK
    <3>2. CASE ChildApply(c)
      <4>1. Head(down[c]) \in Writes
        BY <3>2, HeadTypes DEF ChildApply
      <4> QED
        BY <1>m, <3>2, <4>1, ApplyEffect DEF ChildApply
    <3> QED
      BY <1>6, <3>1, <3>2
  <2>3. CASE c # d
    <3>1. Subscribed(d)
      BY <1>6, <2>1, <2>3 DEF Subscribed, Alive, ChildInit, ChildApply, ShmTypeOK
    <3>2. down'[d] = down[d]
      BY <2>1, <2>3 DEF ShmTypeOK
    <3> QED
      BY <1>k, <1>m, <2>2, <2>3, <3>1, <3>2
  <2>4. CASE c = d
    <3>1. Subscribed(d)
      BY <2>1, <2>4 DEF Subscribed
    <3>2. down'[d] = Tail(down[d]) /\ vals'[Master] = vals[Master]
      BY <1>m, <2>1, <2>2, <2>4 DEF ShmTypeOK
    <3> QED
      BY <1>m, <1>o, <2>1, <2>2, <2>4, <3>1, <3>2, EndsTail
  <2> QED
    BY <2>3, <2>4
<1>7. ASSUME NEW c \in Slaves, Dies(c)
      PROVE  EndsWith(down'[d], k, vals'[d][k], vals'[Master][k])
  <2>1. c # d
    BY <1>7 DEF Dies, Subscribed, Alive, ShmTypeOK
  <2> QED
    BY <1>7, <1>k, <2>1 DEF Dies, Subscribed, Alive, ShmTypeOK
<1>8. CASE UNCHANGED shmVars
  BY <1>8, <1>k DEF shmVars, Subscribed, Alive
<1> QED
  BY <1>1, <1>2, <1>3, <1>4, <1>5, <1>6, <1>7, <1>8 DEF ShmNext

(* A write to another key, or the snapshot with the same value, disturbs   *)
(* nothing; nor does what has been received.                               *)
LEMMA UndisturbedAppend ==
  ASSUME NEW S, NEW q \in Seq(S), NEW m \in S, NEW k, NEW v, Undisturbed(q, k, v),
         Sets(m, k) => m.cmd = "snapshot" /\ Brings(m, k) = v
  PROVE  Undisturbed(Append(q, m), k, v)
<1>1. \A i \in 1..Len(Append(q, m)) : \/ i \in 1..Len(q) /\ Append(q, m)[i] = q[i]
                                     \/ Append(q, m)[i] = m
  BY AppendProperties
<1> QED
  BY <1>1 DEF Undisturbed

LEMMA UndisturbedTail ==
  ASSUME NEW S, NEW q \in Seq(S), q # <<>>, NEW k, NEW v, Undisturbed(q, k, v)
  PROVE  /\ Undisturbed(Tail(q), k, v)
         /\ Sets(Head(q), k) => Head(q).cmd = "snapshot" /\ Brings(Head(q), k) = v
<1>1. /\ Len(q) \in Nat \ {0} /\ Len(Tail(q)) = Len(q) - 1 /\ Head(q) = q[1]
      /\ \A i \in 1..Len(Tail(q)) : Tail(q)[i] = q[i + 1]
  BY HeadTailProperties, EmptySeq
<1>2. 1 \in 1..Len(q) /\ \A i \in 1..Len(Tail(q)) : i + 1 \in 1..Len(q)
  BY <1>1
<1> QED
  BY <1>1, <1>2 DEF Undisturbed

(* The master comes to hold what the only writer of a key holds.           *)
LEMMA OwnersStep ==
  ASSUME ShmTypeOK, SnapshotFirst, OwnWrites, OwnersUndisturbed, OwnersPrevail,
         [ShmNext]_shmVars
  PROVE  OwnersUndisturbed' /\ OwnersPrevail'
<1> SUFFICES ASSUME NEW o \in Slaves, NEW k \in Keys, Writers[k] = {o}
             PROVE  /\ Undisturbed(down'[o], k, vals'[o][k])
                    /\ EndsWith(up'[o], k, vals'[Master][k], vals'[o][k])
  BY DEF OwnersUndisturbed, OwnersPrevail
<1> DEFINE Goal == /\ Undisturbed(down'[o], k, vals'[o][k])
                   /\ EndsWith(up'[o], k, vals'[Master][k], vals'[o][k])
<1>m. /\ Master \in Procs /\ \A c \in Slaves : c \in Procs /\ c # Master
      /\ down[o] \in Seq(ToChild) /\ up[o] \in Seq(ToMaster)
  BY ProcsAssumption DEF Procs, ShmTypeOK
<1>o. /\ Undisturbed(down[o], k, vals[o][k])
      /\ EndsWith(up[o], k, vals[Master][k], vals[o][k])
  BY DEF OwnersUndisturbed, OwnersPrevail
<1>f. ASSUME NEW m \in Writes, NEW p \in Procs, Apply(Master, m), Forward(m, p),
             ~Sets(m, k), up'[o] = up[o]
      PROVE  Goal
  <2>1. vals'[o] = vals[o] /\ vals'[Master][k] = vals[Master][k]
    BY <1>f, <1>m, ApplyEffect
  <2>2. /\ m \in ToChild
        /\ down'[o] = down[o] \/ down'[o] = Append(down[o], m)
    BY <1>f, ForwardEffect, WriteFields
  <2>3. Undisturbed(down'[o], k, vals[o][k])
    <3>1. Undisturbed(Append(down[o], m), k, vals[o][k])
      BY <1>f, <1>m, <1>o, <2>2, UndisturbedAppend
    <3> QED
      BY <1>o, <2>2, <3>1
  <2> QED
    BY <1>f, <1>o, <2>1, <2>3
<1>k. ASSUME down'[o] = down[o], up'[o] = up[o],
             vals'[o][k] = vals[o][k], vals'[Master][k] = vals[Master][k]
      PROVE  Goal
  BY <1>k, <1>o
<1> HIDE DEF Goal
<1>1. ASSUME NEW m \in NewWrites(Master), MasterWrite(m)
      PROVE  Goal
  <2>1. m \in Writes /\ (Sets(m, k) => Master \in Writers[k])
    BY <1>1, <1>m, NewWrite DEF MasterWrite
  <2>2. ~Sets(m, k)
    BY <1>m, <2>1
  <2> QED
    BY <1>1, <1>f, <1>m, <2>1, <2>2 DEF MasterWrite
<1>2. ASSUME NEW c \in Slaves, NEW m \in NewWrites(c), ChildWrite(c, m)
      PROVE  Goal
  <2>1. m \in Writes /\ m \in ToMaster /\ c \in Procs /\ Apply(c, m)
    BY <1>2, <1>m, NewWrite, WriteFields DEF ChildWrite
  <2>2. CASE c # o
    <3>1. vals'[o] = vals[o] /\ vals'[Master] = vals[Master]
      BY <1>m, <2>1, <2>2, ApplyEffect
    <3> QED
      BY <1>2, <1>k, <2>2, <3>1 DEF ChildWrite, ShmTypeOK
  <2>3. CASE c = o
    <3>1. /\ vals'[Master] = vals[Master]
          /\ vals'[o][k] = IF Sets(m, k) THEN Brings(m, k) ELSE vals[o][k]
      BY <1>m, <2>1, <2>3, ApplyEffect
    <3>2. up'[o] = Append(up[o], m) /\ down'[o] = down[o] /\ life[o] = "up"
      BY <1>2, <2>3 DEF ChildWrite, ShmTypeOK
    <3>3. EndsWith(up'[o], k, vals'[Master][k], vals'[o][k])
      BY <1>m, <1>o, <2>1, <3>1, <3>2, EndsAppend
    <3>4. \A i \in 1..Len(down[o]) : ~Sets(down[o][i], k)
      BY <1>o, <3>2 DEF Undisturbed, SnapshotFirst, InOrder
    <3> QED
      BY <3>2, <3>3, <3>4 DEF Goal, Undisturbed
  <2> QED
    BY <2>2, <2>3
<1>3. ASSUME NEW c \in Slaves, Fork(c)
      PROVE  Goal
  <2>1. vals' = vals /\ down' = down
    BY <1>3 DEF Fork
  <2>2. CASE c # o
    BY <1>3, <1>k, <2>1, <2>2 DEF Fork, ShmTypeOK
  <2>3. CASE c = o
    <3>1. up'[o] = Append(up[o], Subscribe)
      BY <1>3, <2>3 DEF Fork, ShmTypeOK
    <3>2. EndsWith(up'[o], k, vals[Master][k], vals[o][k])
      BY <1>m, <1>o, <3>1, SubscribeFields, EndsAppend
    <3> QED
      BY <1>o, <2>1, <3>2 DEF Goal
  <2> QED
    BY <2>2, <2>3
<1>4. ASSUME NEW c \in Slaves, MasterSubscribe(c)
      PROVE  Goal
  <2>1. vals' = vals
    BY <1>4 DEF MasterSubscribe
  <2>2. CASE c # o
    BY <1>4, <1>k, <2>1, <2>2 DEF MasterSubscribe, ShmTypeOK
  <2>3. CASE c = o
    <3>1. /\ up[o] # <<>> /\ Head(up[o]) = Subscribe /\ up'[o] = Tail(up[o])
          /\ down'[o] = IF Alive(o) THEN Append(down[o], Snapshot) ELSE down[o]
      BY <1>4, <2>3 DEF MasterSubscribe, ShmTypeOK
    <3>2. EndsWith(up'[o], k, vals[Master][k], vals[o][k])
      BY <1>m, <1>o, <3>1, SubscribeFields, EndsTail
    <3>3. CASE Alive(o)
      <4>1. up[o][1] = Subscribe /\ 1 \in 1..Len(up[o])
        BY <1>m, <3>1, HeadTailProperties, EmptySeq
      <4>2. up[o] = <<Subscribe>>
        BY <3>1, <3>3, <4>1 DEF SnapshotFirst, InOrder, Alive
      <4>3. up'[o] = <<>>
        BY <3>1, <4>2, SubscribeFields, Singleton
      <4>4. vals[Master][k] = vals[o][k]
        BY <3>2, <4>3, EmptySeq DEF EndsWith
      <4>5. /\ Snapshot \in ToChild /\ Snapshot.cmd = "snapshot"
            /\ Brings(Snapshot, k) = vals[o][k]
        <5>1. Snapshot.vals = vals[Master]
          BY DEF Snapshot
        <5> QED
          BY <4>4, <5>1, SnapshotType, SnapshotFields DEF Brings
      <4>6. Undisturbed(down'[o], k, vals[o][k])
        BY <1>m, <1>o, <3>1, <3>3, <4>5, UndisturbedAppend
      <4> QED
        BY <2>1, <3>2, <4>6 DEF Goal
    <3>4. CASE ~Alive(o)
      BY <1>o, <2>1, <3>1, <3>2, <3>4 DEF Goal
    <3> QED
      BY <3>3, <3>4
  <2> QED
    BY <2>2, <2>3
<1>5. ASSUME NEW c \in Slaves, MasterApply(c)
      PROVE  Goal
  <2>1. /\ Head(up[c]) \in Writes /\ up[c] # <<>>
        /\ Apply(Master, Head(up[c])) /\ Forward(Head(up[c]), c)
    BY <1>5, HeadTypes DEF MasterApply
  <2>2. CASE c # o
    <3>1. ~Sets(Head(up[c]), k)
      BY <2>1, <2>2, HeadOwn
    <3>2. up'[o] = up[o]
      BY <1>5, <2>2 DEF MasterApply, ShmTypeOK
    <3> QED
      BY <1>f, <1>m, <2>1, <3>1, <3>2
  <2>3. CASE c = o
    <3>1. up'[o] = Tail(up[o])
      BY <1>5, <2>3 DEF MasterApply, ShmTypeOK
    <3>2. down'[o] = down[o]
      BY <2>1, <2>3, ForwardEffect
    <3>3. /\ vals'[o] = vals[o]
          /\ vals'[Master][k] = IF Sets(Head(up[o]), k) THEN Brings(Head(up[o]), k)
                                                       ELSE vals[Master][k]
      BY <1>m, <2>1, <2>3, ApplyEffect
    <3>4. EndsWith(up'[o], k, vals'[Master][k], vals[o][k])
      BY <1>m, <1>o, <2>1, <2>3, <3>1, <3>3, EndsTail
    <3> QED
      BY <1>o, <3>2, <3>3, <3>4 DEF Goal
  <2> QED
    BY <2>2, <2>3
<1>6. ASSUME NEW c \in Slaves, ChildInit(c) \/ ChildApply(c)
      PROVE  Goal
  <2>1. /\ up' = up /\ down[c] # <<>>
        /\ down'[c] = Tail(down[c]) /\ \A d \in Slaves \ {c} : down'[d] = down[d]
    BY <1>6 DEF ChildInit, ChildApply, ShmTypeOK
  <2>2. \A p \in Procs \ {c} : vals'[p] = vals[p]
    <3>1. CASE ChildInit(c)
      BY <3>1 DEF ChildInit, ShmTypeOK
    <3>2. CASE ChildApply(c)
      <4>1. Head(down[c]) \in Writes
        BY <3>2, HeadTypes DEF ChildApply
      <4> QED
        BY <1>m, <3>2, <4>1, ApplyEffect DEF ChildApply
    <3> QED
      BY <1>6, <3>1, <3>2
  <2>3. CASE c # o
    BY <1>k, <1>m, <2>1, <2>2, <2>3
  <2>4. CASE c = o
    <3>1. /\ Undisturbed(down'[o], k, vals[o][k])
          /\ Sets(Head(down[o]), k) => /\ Head(down[o]).cmd = "snapshot"
                                      /\ Brings(Head(down[o]), k) = vals[o][k]
      BY <1>m, <1>o, <2>1, <2>4, UndisturbedTail
    <3>2. vals'[o][k] = vals[o][k]
      <4>1. CASE ChildInit(c)
        <5>1. Head(down[o]).cmd = "snapshot" /\ vals'[o] = Head(down[o]).vals
          BY <1>m, <2>4, <4>1 DEF ChildInit, ShmTypeOK
        <5>2. Sets(Head(down[o]), k) /\ Brings(Head(down[o]), k) = Head(down[o]).vals[k]
          BY <5>1 DEF Sets, Brings
        <5> QED
          BY <3>1, <5>1, <5>2
      <4>2. CASE ChildApply(c)
        <5>1. /\ Head(down[o]) \in Writes /\ Apply(o, Head(down[o]))
              /\ Head(down[o]).cmd # "snapshot"
          BY <2>4, <4>2, HeadTypes DEF ChildApply
        <5>2. ~Sets(Head(down[o]), k)
          BY <3>1, <5>1
        <5> QED
          BY <1>m, <5>1, <5>2, ApplyEffect
      <4> QED
        BY <1>6, <4>1, <4>2
    <3>3. vals'[Master] = vals[Master]
      BY <1>m, <2>2, <2>4
    <3> QED
      BY <1>o, <2>1, <3>1, <3>2, <3>3 DEF Goal
  <2> QED
    BY <2>3, <2>4
<1>7. ASSUME NEW c \in Slaves, Dies(c)
      PROVE  Goal
  <2>1. vals' = vals /\ up' = up /\ (down'[o] = down[o] \/ down'[o] = <<>>)
    BY <1>7 DEF Dies, ShmTypeOK
  <2>2. Undisturbed(<<>>, k, vals[o][k])
    BY EmptySeq DEF Undisturbed
  <2> QED
    BY <1>o, <2>1, <2>2 DEF Goal
<1>8. ASSUME UNCHANGED shmVars
      PROVE  Goal
  BY <1>8, <1>k DEF shmVars
<1>9. Goal
  BY <1>1, <1>2, <1>3, <1>4, <1>5, <1>6, <1>7, <1>8 DEF ShmNext
<1> QED
  BY <1>9 DEF Goal

(***************************************************************************)
(* Lists.                                                                  *)
(***************************************************************************)

(* A message that adds nothing that is coming already may be sent.         *)
LEMMA OnceAppend ==
  ASSUME NEW S, NEW q \in Seq(S), NEW m \in S, NEW l, AddsOnce(q, l),
         Adds(m, l) \cap Coming(q, l) = {},
         m.cmd = "snapshot" => Distinct(m.lists[l])
  PROVE  AddsOnce(Append(q, m), l)
<1> DEFINE r == Append(q, m)
           n == Len(q)
<1>1. /\ n \in Nat /\ Len(r) = n + 1 /\ r[n + 1] = m
      /\ \A i \in 1..n : r[i] = q[i]
  BY AppendProperties
<1>2. \A i \in 1..n : Adds(m, l) \cap Adds(q[i], l) = {}
  BY DEF Coming
<1>3. \A i \in 1..n : q[i].cmd = "snapshot" => Distinct(q[i].lists[l])
  BY DEF AddsOnce
<1>4. \A i, j \in 1..n : i # j => Adds(q[i], l) \cap Adds(q[j], l) = {}
  BY DEF AddsOnce
<1> HIDE DEF r, n
<1>5. \A i \in 1..Len(r) : i \in 1..n \/ i = n + 1
  BY <1>1
<1>6. \A i \in 1..Len(r) : r[i].cmd = "snapshot" => Distinct(r[i].lists[l])
  BY <1>1, <1>3, <1>5
<1>7. ASSUME NEW i \in 1..Len(r), NEW j \in 1..Len(r), i # j
      PROVE  Adds(r[i], l) \cap Adds(r[j], l) = {}
  <2>1. CASE i \in 1..n /\ j \in 1..n
    BY <1>1, <1>4, <1>7, <2>1
  <2>2. CASE i \in 1..n /\ j = n + 1
    BY <1>1, <1>2, <2>2
  <2>3. CASE i = n + 1 /\ j \in 1..n
    BY <1>1, <1>2, <2>3
  <2> QED
    BY <1>5, <1>7, <2>1, <2>2, <2>3
<1> QED
  BY <1>6, <1>7 DEF AddsOnce, r

(* The head of a channel adds what the rest does not.                      *)
LEMMA OnceTail ==
  ASSUME NEW S, NEW q \in Seq(S), q # <<>>, NEW l, AddsOnce(q, l)
  PROVE  /\ AddsOnce(Tail(q), l)
         /\ Adds(Head(q), l) \cap Coming(Tail(q), l) = {}
         /\ Head(q).cmd = "snapshot" => Distinct(Head(q).lists[l])
<1> DEFINE r == Tail(q)
           n == Len(q)
<1>1. /\ n \in Nat \ {0} /\ Len(r) = n - 1 /\ Head(q) = q[1]
      /\ \A i \in 1..Len(r) : r[i] = q[i + 1]
  BY HeadTailProperties, EmptySeq
<1>2. \A i \in 1..n : q[i].cmd = "snapshot" => Distinct(q[i].lists[l])
  BY DEF AddsOnce
<1>3. \A i, j \in 1..n : i # j => Adds(q[i], l) \cap Adds(q[j], l) = {}
  BY DEF AddsOnce
<1> HIDE DEF r, n
<1>4. 1 \in 1..n /\ \A i \in 1..Len(r) : i + 1 \in 1..n /\ i + 1 # 1
  BY <1>1
<1>5. \A i \in 1..Len(r) : r[i].cmd = "snapshot" => Distinct(r[i].lists[l])
  BY <1>1, <1>2, <1>4
<1>6. \A i, j \in 1..Len(r) : i # j => Adds(r[i], l) \cap Adds(r[j], l) = {}
  <2> SUFFICES ASSUME NEW i \in 1..Len(r), NEW j \in 1..Len(r), i # j
               PROVE  Adds(r[i], l) \cap Adds(r[j], l) = {}
    OBVIOUS
  <2>1. i + 1 # j + 1
    BY <1>1
  <2>2. Adds(q[i + 1], l) \cap Adds(q[j + 1], l) = {}
    BY <1>3, <1>4, <2>1
  <2> QED
    BY <1>1, <2>2
<1>7. \A i \in 1..Len(r) : Adds(q[1], l) \cap Adds(r[i], l) = {}
  BY <1>1, <1>3, <1>4
<1>8. Adds(q[1], l) \cap Coming(r, l) = {}
  BY <1>7 DEF Coming
<1> QED
  BY <1>1, <1>2, <1>4, <1>5, <1>6, <1>8 DEF AddsOnce, r

(* Applying a write adds to the list what the write says.                  *)
LEMMA ApplyLists ==
  ASSUME ShmTypeOK, NEW p \in Procs, NEW m \in Writes, Apply(p, m), NEW l \in Lists
  PROVE  /\ Has(p, l)' = Has(p, l) \cup Adds(m, l)
         /\ \A r \in Procs \ {p} : lists'[r] = lists[r]
         /\ (Distinct(lists[p][l]) /\ Has(p, l) \cap Adds(m, l) = {})
              => Distinct(lists'[p][l])
<1> DEFINE s == lists[p][l]
           t == Append(s, m.val)
<1>1. s \in Seq(Values) /\ m.val \in Values /\ m.cmd # "snapshot"
  BY WriteFields DEF ShmTypeOK
<1>2. /\ \A r \in Procs \ {p} : lists'[r] = lists[r]
      /\ lists'[p][l] = IF m.cmd = "hpush" /\ m.list = l THEN t ELSE s
  BY ApplyEffect
<1>3. Adds(m, l) = IF m.cmd = "hpush" /\ m.list = l THEN {m.val} ELSE {}
  BY <1>1 DEF Adds
<1>4. /\ DOMAIN s = 1..Len(s) /\ DOMAIN t = 1..Len(t)
      /\ Len(s) \in Nat /\ Len(t) = Len(s) + 1 /\ t[Len(s) + 1] = m.val
      /\ \A i \in 1..Len(s) : t[i] = s[i]
  BY <1>1, AppendProperties
<1> HIDE DEF s, t
<1>5. 1..Len(t) = (1..Len(s)) \cup {Len(s) + 1}
  BY <1>4
<1>6. Range(t) = Range(s) \cup {m.val}
  <2>1. \A z : (\E i \in 1..Len(t) : z = t[i])
                <=> z = m.val \/ \E i \in 1..Len(s) : z = s[i]
    BY <1>4, <1>5
  <2> QED
    BY <1>4, <2>1 DEF Range
<1>7. Distinct(s) /\ m.val \notin Range(s) => Distinct(t)
  <2> SUFFICES ASSUME Distinct(s), m.val \notin Range(s),
                      NEW i \in 1..Len(t), NEW j \in 1..Len(t), t[i] = t[j]
               PROVE  i = j
    BY DEF Distinct
  <2>1. \A n \in 1..Len(s) : s[n] # m.val
    BY <1>4 DEF Range
  <2>2. CASE i \in 1..Len(s) /\ j \in 1..Len(s)
    BY <1>4, <2>2 DEF Distinct
  <2>3. CASE i = Len(s) + 1 /\ j \in 1..Len(s)
    BY <1>4, <2>1, <2>3
  <2>4. CASE i \in 1..Len(s) /\ j = Len(s) + 1
    BY <1>4, <2>1, <2>4
  <2> QED
    BY <1>5, <2>2, <2>3, <2>4
<1> QED
  BY <1>2, <1>3, <1>6, <1>7 DEF Has, s

(* Forwarding a write adds to the channels what the write says.            *)
LEMMA ForwardLists ==
  ASSUME ShmTypeOK, NEW o, NEW m \in Writes, Forward(m, o), NEW l \in Lists,
         NEW c \in Slaves, AddsOnce(down[c], l)
  PROVE  IF c \in listeners /\ c # o /\ Alive(c)
         THEN /\ Coming(down'[c], l) = Coming(down[c], l) \cup Adds(m, l)
              /\ Adds(m, l) \cap Coming(down[c], l) = {} => AddsOnce(down'[c], l)
         ELSE down'[c] = down[c]
<1>1. down[c] \in Seq(ToChild) /\ m \in ToChild /\ m.cmd # "snapshot"
  BY WriteFields DEF ShmTypeOK
<1>2. down'[c] = IF c \in listeners /\ c # o /\ Alive(c) THEN Append(down[c], m)
                                                      ELSE down[c]
  BY ForwardEffect
<1> QED
  BY <1>1, <1>2, ComingAppend, OnceAppend

(* A new write adds a value that no copy holds and no channel brings.      *)
LEMMA NewAdds ==
  ASSUME NEW m \in Writes, m.val = writes + 1, NEW l
  PROVE  Adds(m, l) \subseteq {writes + 1}
  BY WriteFields DEF Adds

(* A step keeps every value in every copy, or on its way to it, once.      *)
LEMMA ListsStep ==
  ASSUME ShmTypeOK, SnapshotFirst, ListsAccounted, PushedOnce, [ShmNext]_shmVars
  PROVE  ListsAccounted' /\ PushedOnce'
<1> SUFFICES ASSUME NEW l \in Lists
             PROVE  /\ \A p \in Procs : /\ Distinct(lists'[p][l])
                                       /\ Has(p, l)' \subseteq 1..writes'
                    /\ \A c \in Slaves :
                         /\ Accounted(c, l)' /\ UpOnce(c, l)'
                         /\ AddsOnce(down'[c], l)
                         /\ life'[c] \in {"new", "joining"} => Has(c, l)' = {}
  BY DEF ListsAccounted, PushedOnce
<1> DEFINE Lines == \A p \in Procs : /\ Distinct(lists'[p][l])
                                    /\ Has(p, l)' \subseteq 1..writes'
           Links == \A c \in Slaves :
                      /\ Accounted(c, l)' /\ UpOnce(c, l)'
                      /\ AddsOnce(down'[c], l)
                      /\ life'[c] \in {"new", "joining"} => Has(c, l)' = {}
<1>m. /\ Master \in Procs /\ \A c \in Slaves : c \in Procs /\ c # Master
      /\ \A c \in Slaves : down[c] \in Seq(ToChild) /\ up[c] \in Seq(ToMaster)
      /\ writes \in Nat
  BY ProcsAssumption DEF Procs, ShmTypeOK
<1>p. \A p \in Procs : Distinct(lists[p][l]) /\ Has(p, l) \subseteq 1..writes
  BY DEF ListsAccounted, PushedOnce
<1>c. \A c \in Slaves : /\ Accounted(c, l) /\ UpOnce(c, l) /\ AddsOnce(down[c], l)
                        /\ life[c] \in {"new", "joining"} => Has(c, l) = {}
  BY DEF ListsAccounted, PushedOnce
<1>u. \A c \in Slaves :
        /\ AddsOnce(up[c], l) /\ Coming(up[c], l) \subseteq 1..writes
        /\ Has(Master, l) \cap Coming(up[c], l) = {}
        /\ \A d \in Slaves \ {c} : Coming(up[c], l) \cap Coming(up[d], l) = {}
  BY <1>c DEF UpOnce
<1>a. \A c \in Slaves : Subscribed(c) =>
        /\ Has(c, l) \cup Coming(down[c], l) = Has(Master, l) \cup Coming(up[c], l)
        /\ Has(c, l) \cap Coming(down[c], l) = {}
        /\ Coming(down[c], l) \subseteq 1..writes
  BY <1>c, <1>m, <1>p, <1>u DEF Accounted
<1>n. 1..writes \subseteq 1..(writes + 1) /\ writes + 1 \notin 1..writes
      /\ writes + 1 \in 1..(writes + 1)
  BY <1>m
<1> HIDE DEF Lines, Links
<1>1. ASSUME NEW m \in NewWrites(Master), MasterWrite(m)
      PROVE  Lines /\ Links
  <2> DEFINE A == Adds(m, l)
  <2>1. /\ m \in Writes /\ A \subseteq {writes + 1}
        /\ Apply(Master, m) /\ Forward(m, Master)
        /\ writes' = writes + 1 /\ life' = life /\ up' = up
    BY <1>1, <1>m, NewWrite, NewAdds DEF MasterWrite
  <2> HIDE DEF A
  <2>2. /\ Has(Master, l)' = Has(Master, l) \cup A
        /\ \A p \in Procs \ {Master} : lists'[p] = lists[p]
        /\ Has(Master, l) \cap A = {} => Distinct(lists'[Master][l])
    BY <1>m, <1>p, <2>1, ApplyLists DEF A
  <2>3. \A c \in Slaves : Has(c, l)' = Has(c, l)
    BY <1>m, <2>2 DEF Has
  <2>4. Lines
    BY <1>m, <1>n, <1>p, <2>1, <2>2 DEF Lines, Has
  <2>5. ASSUME NEW c \in Slaves
        PROVE  /\ Accounted(c, l)' /\ UpOnce(c, l)' /\ AddsOnce(down'[c], l)
               /\ life'[c] \in {"new", "joining"} => Has(c, l)' = {}
    <3>1. Subscribed(c)' => Subscribed(c)
      BY <2>1, ForwardEffect DEF Subscribed, Alive
    <3>2. /\ Subscribed(c) => Coming(down'[c], l) = Coming(down[c], l) \cup A
          /\ AddsOnce(down'[c], l)
      <4>1. CASE Subscribed(c)
        <5>1. A \cap Coming(down[c], l) = {}
          BY <1>a, <1>n, <2>1, <4>1
        <5> QED
          BY <1>c, <1>m, <2>1, <4>1, <5>1, ForwardLists DEF Subscribed, A
      <4>2. CASE ~Subscribed(c)
        BY <1>c, <2>1, <4>2, ForwardLists DEF Subscribed
      <4> QED
        BY <4>1, <4>2
    <3>3. Accounted(c, l)'
      <4> SUFFICES ASSUME Subscribed(c)'
                   PROVE  /\ Has(c, l)' \cup Coming(down'[c], l)
                               = Has(Master, l)' \cup Coming(up'[c], l)
                          /\ Has(c, l)' \cap Coming(down'[c], l) = {}
        BY DEF Accounted
      <4>1. Has(c, l) \cap A = {}
        BY <1>m, <1>n, <1>p, <2>1
      <4> QED
        BY <1>a, <2>1, <2>2, <2>3, <3>1, <3>2, <4>1
    <3>4. UpOnce(c, l)'
      <4>1. Coming(up[c], l) \cap A = {} /\ Coming(up[c], l) \subseteq 1..writes'
        BY <1>n, <1>u, <2>1
      <4> QED
        BY <1>u, <2>1, <2>2, <4>1 DEF UpOnce
    <3> QED
      BY <1>c, <2>1, <2>3, <3>2, <3>3, <3>4
  <2> QED
    BY <2>4, <2>5 DEF Links
<1>2. ASSUME NEW x \in Slaves, NEW m \in NewWrites(x), ChildWrite(x, m)
      PROVE  Lines /\ Links
  <2> DEFINE A == Adds(m, l)
  <2>1. /\ m \in Writes /\ m \in ToMaster /\ A \subseteq {writes + 1}
        /\ m.cmd # "snapshot" /\ Apply(x, m) /\ writes' = writes + 1
        /\ UNCHANGED <<life, listeners, down>> /\ life[x] = "up"
        /\ up'[x] = Append(up[x], m) /\ \A c \in Slaves \ {x} : up'[c] = up[c]
    BY <1>2, <1>m, NewWrite, NewAdds, WriteFields DEF ChildWrite, ShmTypeOK
  <2> HIDE DEF A
  <2>2. /\ Has(x, l)' = Has(x, l) \cup A
        /\ \A p \in Procs \ {x} : lists'[p] = lists[p]
        /\ Has(x, l) \cap A = {} => Distinct(lists'[x][l])
    BY <1>m, <1>p, <2>1, ApplyLists DEF A
  <2>3. \A p \in Procs \ {x} : Has(p, l)' = Has(p, l)
    BY <2>2 DEF Has
  <2>4. Lines
    <3>1. Has(x, l) \cap A = {}
      BY <1>m, <1>n, <1>p, <2>1
    <3> QED
      BY <1>m, <1>n, <1>p, <2>1, <2>2, <2>3, <3>1 DEF Lines
  <2>5. /\ Coming(up'[x], l) = Coming(up[x], l) \cup A /\ AddsOnce(up'[x], l)
    <3>1. Coming(up[x], l) \cap A = {}
      BY <1>n, <1>u, <2>1
    <3> QED
      BY <1>m, <1>u, <2>1, <3>1, ComingAppend, OnceAppend DEF A
  <2>6. \A p \in Procs : Has(p, l) \cap A = {}
    BY <1>n, <1>p, <2>1
  <2>7. \A c \in Slaves : Coming(up[c], l) \cap A = {}
    BY <1>n, <1>u, <2>1
  <2>8. Subscribed(x) /\ Coming(down[x], l) \cap A = {}
    <3>1. Subscribed(x)
      BY <2>1 DEF Subscribed, Alive, SnapshotFirst, InOrder
    <3> QED
      BY <1>a, <1>n, <2>1, <3>1
  <2>9. ASSUME NEW c \in Slaves
        PROVE  /\ Accounted(c, l)' /\ UpOnce(c, l)' /\ AddsOnce(down'[c], l)
               /\ life'[c] \in {"new", "joining"} => Has(c, l)' = {}
    <3>1. Accounted(c, l)'
      <4>1. CASE c = x
        <5>1. /\ Has(x, l) \cup Coming(down[x], l) = Has(Master, l) \cup Coming(up[x], l)
              /\ Has(x, l) \cap Coming(down[x], l) = {}
          BY <1>a, <2>8
        <5>2. /\ Has(x, l)' = Has(x, l) \cup A /\ Has(Master, l)' = Has(Master, l)
              /\ down' = down /\ Coming(up'[x], l) = Coming(up[x], l) \cup A
          BY <1>m, <2>1, <2>2, <2>3, <2>5
        <5> QED
          BY <2>8, <4>1, <5>1, <5>2 DEF Accounted
      <4>2. CASE c # x
        BY <1>c, <1>m, <2>1, <2>3, <4>2 DEF Accounted, Subscribed, Alive
      <4> QED
        BY <4>1, <4>2
    <3>2. UpOnce(c, l)'
      <4>1. Coming(up'[c], l) \subseteq 1..writes' /\ AddsOnce(up'[c], l)
        BY <1>n, <1>u, <2>1, <2>5
      <4>2. Has(Master, l)' \cap Coming(up'[c], l) = {}
        BY ZenonT(30), <1>m, <1>u, <2>1, <2>3, <2>5, <2>6
      <4>3. \A d \in Slaves \ {c} : Coming(up'[c], l) \cap Coming(up'[d], l) = {}
        BY <1>u, <2>1, <2>5, <2>7
      <4> QED
        BY <4>1, <4>2, <4>3 DEF UpOnce
    <3>3. life'[c] \in {"new", "joining"} => Has(c, l)' = {}
      BY <1>c, <1>m, <2>1, <2>3
    <3> QED
      BY <1>c, <2>1, <3>1, <3>2, <3>3
  <2> QED
    BY <2>4, <2>9 DEF Links
<1>3. ASSUME NEW x \in Slaves, Fork(x)
      PROVE  Lines /\ Links
  <2>1. /\ UNCHANGED <<lists, listeners, down, writes>> /\ life[x] = "new"
        /\ life'[x] = "joining" /\ \A c \in Slaves \ {x} : life'[c] = life[c]
        /\ up'[x] = Append(up[x], Subscribe) /\ \A c \in Slaves \ {x} : up'[c] = up[c]
    BY <1>3 DEF Fork, ShmTypeOK
  <2>2. Coming(up'[x], l) = Coming(up[x], l) /\ AddsOnce(up'[x], l)
    <3>1. /\ up[x] \in Seq(ToMaster) /\ Subscribe \in ToMaster /\ AddsOnce(up[x], l)
          /\ Subscribe.cmd # "snapshot" /\ Adds(Subscribe, l) = {}
      BY <1>m, <1>u, SubscribeFields
    <3>2. Coming(Append(up[x], Subscribe), l) = Coming(up[x], l) \cup Adds(Subscribe, l)
      <4>1. \A q \in Seq(ToMaster), m \in ToMaster :
              Coming(Append(q, m), l) = Coming(q, l) \cup Adds(m, l)
        BY ComingAppend
      <4> QED
        BY <3>1, <4>1
    <3>3. AddsOnce(up'[x], l)
      BY <2>1, <3>1, OnceAppend
    <3> QED
      BY <2>1, <3>1, <3>2, <3>3
  <2>3. x \notin listeners /\ Has(x, l) = {}
    BY <1>c, <2>1 DEF SnapshotFirst, InOrder
  <2>4. \A p \in Procs : Has(p, l)' = Has(p, l)
    BY <2>1 DEF Has
  <2>5. Lines
    BY <1>p, <2>1, <2>4 DEF Lines
  <2>6. \A c \in Slaves : Coming(up'[c], l) = Coming(up[c], l) /\ AddsOnce(up'[c], l)
    BY <1>u, <2>1, <2>2
  <2>7. \A c \in Slaves : UpOnce(c, l)'
    BY <1>m, <1>u, <2>1, <2>4, <2>6 DEF UpOnce
  <2>8. \A c \in Slaves : Accounted(c, l)'
    BY <1>a, <1>m, <2>1, <2>3, <2>4, <2>6 DEF Accounted, Subscribed, Alive
  <2> QED
    BY <1>c, <1>m, <2>1, <2>3, <2>4, <2>5, <2>7, <2>8 DEF Links
<1>4. ASSUME NEW x \in Slaves, MasterSubscribe(x)
      PROVE  Lines /\ Links
  <2>1. /\ up[x] # <<>> /\ Head(up[x]) = Subscribe
        /\ up'[x] = Tail(up[x]) /\ \A c \in Slaves \ {x} : up'[c] = up[c]
        /\ down'[x] = IF Alive(x) THEN Append(down[x], Snapshot) ELSE down[x]
        /\ \A c \in Slaves \ {x} : down'[c] = down[c]
        /\ listeners' = listeners \cup {x} /\ UNCHANGED <<life, lists, writes>>
    BY <1>4 DEF MasterSubscribe, ShmTypeOK
  <2>2. Coming(up'[x], l) = Coming(up[x], l) /\ AddsOnce(up'[x], l)
    <3>1. up[x] \in Seq(ToMaster) /\ AddsOnce(up[x], l) /\ Adds(Subscribe, l) = {}
      BY <1>m, <1>u, SubscribeFields
    <3>2. Coming(up[x], l) = Adds(Subscribe, l) \cup Coming(up'[x], l)
      BY <2>1, <3>1, ComingTail
    <3>3. AddsOnce(up'[x], l)
      BY <2>1, <3>1, OnceTail
    <3> QED
      BY <3>1, <3>2, <3>3
  <2>3. \A p \in Procs : Has(p, l)' = Has(p, l)
    BY <2>1 DEF Has
  <2>4. Lines
    BY <1>p, <2>1, <2>3 DEF Lines
  <2>5. \A c \in Slaves : Coming(up'[c], l) = Coming(up[c], l) /\ AddsOnce(up'[c], l)
    BY <1>u, <2>1, <2>2
  <2>6. \A c \in Slaves : UpOnce(c, l)'
    BY <1>m, <1>u, <2>1, <2>3, <2>5 DEF UpOnce
  <2>7. Alive(x) => /\ Has(x, l) = {} /\ Coming(up'[x], l) = {}
                    /\ Coming(down'[x], l) = Has(Master, l) /\ AddsOnce(down'[x], l)
    <3> SUFFICES ASSUME Alive(x)
                 PROVE  /\ Has(x, l) = {} /\ Coming(up'[x], l) = {}
                        /\ Coming(down'[x], l) = Has(Master, l) /\ AddsOnce(down'[x], l)
      OBVIOUS
    <3>1. up[x][1] = Subscribe /\ 1 \in 1..Len(up[x])
      BY <1>m, <2>1, HeadTailProperties, EmptySeq
    <3>2. life[x] = "joining" /\ up[x] = <<Subscribe>> /\ down[x] = <<>>
      BY <2>1, <3>1 DEF SnapshotFirst, InOrder, Alive
    <3>3. Coming(up'[x], l) = {}
      BY <2>1, <3>2, SubscribeFields, Singleton, ComingEmpty
    <3>4. /\ Snapshot \in ToChild /\ Snapshot.cmd = "snapshot"
          /\ Snapshot.lists = lists[Master]
      BY SnapshotType, SnapshotFields DEF Snapshot
    <3>5. Adds(Snapshot, l) = Has(Master, l) /\ Distinct(Snapshot.lists[l])
      BY <1>m, <1>p, <3>4 DEF Adds, Has
    <3>6. Coming(down'[x], l) = Has(Master, l) /\ AddsOnce(down'[x], l)
      <4>1. /\ down'[x] = Append(down[x], Snapshot) /\ down[x] \in Seq(ToChild)
            /\ AddsOnce(down[x], l) /\ Coming(down[x], l) = {}
        BY <1>c, <1>m, <2>1, <3>2, ComingEmpty DEF Alive
      <4>2. Coming(Append(down[x], Snapshot), l) = Coming(down[x], l) \cup Adds(Snapshot, l)
        <5>1. \A q \in Seq(ToChild), m \in ToChild :
                Coming(Append(q, m), l) = Coming(q, l) \cup Adds(m, l)
          BY ComingAppend
        <5> QED
          BY <3>4, <4>1, <5>1
      <4>3. AddsOnce(down'[x], l)
        BY <3>4, <3>5, <4>1, OnceAppend
      <4> QED
        BY <3>5, <4>1, <4>2, <4>3
    <3> QED
      BY <1>c, <3>2, <3>3, <3>6
  <2>8. \A c \in Slaves : Accounted(c, l)' /\ AddsOnce(down'[c], l)
    <3> SUFFICES ASSUME NEW c \in Slaves
                 PROVE  Accounted(c, l)' /\ AddsOnce(down'[c], l)
      OBVIOUS
    <3>1. CASE c = x
      BY <1>c, <1>m, <2>1, <2>3, <2>7, <3>1 DEF Accounted, Subscribed, Alive
    <3>2. CASE c # x
      BY <1>c, <1>m, <2>1, <2>3, <3>2 DEF Accounted, Subscribed, Alive
    <3> QED
      BY <3>1, <3>2
  <2> QED
    BY <1>c, <1>m, <2>1, <2>3, <2>4, <2>6, <2>8 DEF Links
<1>5. ASSUME NEW x \in Slaves, MasterApply(x)
      PROVE  Lines /\ Links
  <2> DEFINE m == Head(up[x])
             A == Adds(m, l)
  <2>1. /\ up[x] # <<>> /\ m \in Writes /\ Apply(Master, m) /\ Forward(m, x)
        /\ up'[x] = Tail(up[x]) /\ \A c \in Slaves \ {x} : up'[c] = up[c]
        /\ UNCHANGED <<life, writes>>
    BY <1>5, HeadTypes DEF MasterApply, ShmTypeOK
  <2>2. /\ Coming(up[x], l) = A \cup Coming(up'[x], l)
        /\ A \cap Coming(up'[x], l) = {} /\ AddsOnce(up'[x], l)
    BY <1>m, <1>u, <2>1, ComingTail, OnceTail
  <2> HIDE DEF m, A
  <2>3. A \subseteq 1..writes /\ Has(Master, l) \cap A = {}
    BY <1>u, <2>2
  <2>4. /\ Has(Master, l)' = Has(Master, l) \cup A
        /\ \A p \in Procs \ {Master} : lists'[p] = lists[p]
        /\ Distinct(lists'[Master][l])
    BY <1>m, <1>p, <2>1, <2>3, ApplyLists DEF A
  <2>5. \A c \in Slaves : Has(c, l)' = Has(c, l)
    BY <1>m, <2>4 DEF Has
  <2>6. Lines
    BY <1>p, <2>1, <2>3, <2>4 DEF Lines, Has
  <2>7. \A c \in Slaves \ {x} : Coming(up[c], l) \cap A = {}
    BY <1>u, <2>2
  <2>8. ASSUME NEW c \in Slaves, c # x, Subscribed(c)
        PROVE  A \cap Has(c, l) = {} /\ A \cap Coming(down[c], l) = {}
    BY <1>a, <2>3, <2>7, <2>8
  <2>9. ASSUME NEW c \in Slaves
        PROVE  /\ Accounted(c, l)' /\ UpOnce(c, l)' /\ AddsOnce(down'[c], l)
               /\ life'[c] \in {"new", "joining"} => Has(c, l)' = {}
    <3>1. Subscribed(c)' <=> Subscribed(c)
      BY <2>1, ForwardEffect DEF Subscribed, Alive
    <3>2. IF Subscribed(c) /\ c # x
          THEN Coming(down'[c], l) = Coming(down[c], l) \cup A /\ AddsOnce(down'[c], l)
          ELSE down'[c] = down[c]
      BY <1>c, <2>1, <2>8, ForwardLists DEF Subscribed, A
    <3>3. Accounted(c, l)'
      <4> SUFFICES ASSUME Subscribed(c)
                   PROVE  /\ Has(c, l)' \cup Coming(down'[c], l)
                               = Has(Master, l)' \cup Coming(up'[c], l)
                          /\ Has(c, l)' \cap Coming(down'[c], l) = {}
        BY <3>1 DEF Accounted
      <4>1. CASE c = x
        BY <1>a, <2>2, <2>4, <2>5, <3>2, <4>1
      <4>2. CASE c # x
        BY <1>a, <2>1, <2>4, <2>5, <2>8, <3>2, <4>2
      <4> QED
        BY <4>1, <4>2
    <3>4. UpOnce(c, l)'
      <4>1. /\ AddsOnce(up'[c], l) /\ Coming(up'[c], l) \subseteq Coming(up[c], l)
            /\ A \cap Coming(up'[c], l) = {}
        BY <1>u, <2>1, <2>2, <2>7
      <4>2. \A d \in Slaves : Coming(up'[d], l) \subseteq Coming(up[d], l)
        BY <2>1, <2>2
      <4>3. \A d \in Slaves \ {c} : Coming(up'[c], l) \cap Coming(up'[d], l) = {}
        BY <1>u, <4>2
      <4>4. Has(Master, l)' \cap Coming(up'[c], l) = {}
        BY <1>u, <2>4, <4>1
      <4>5. Coming(up'[c], l) \subseteq 1..writes'
        BY <1>u, <2>1, <4>1
      <4> QED
        BY <4>1, <4>3, <4>4, <4>5 DEF UpOnce
    <3> QED
      BY <1>c, <2>1, <2>5, <3>2, <3>3, <3>4
  <2> QED
    BY <2>6, <2>9 DEF Links
<1>6. ASSUME NEW x \in Slaves, ChildInit(x)
      PROVE  Lines /\ Links
  <2> DEFINE m == Head(down[x])
  <2>1. /\ down[x] # <<>> /\ m \in Snapshots /\ m.cmd = "snapshot" /\ Alive(x)
        /\ down'[x] = Tail(down[x]) /\ \A c \in Slaves \ {x} : down'[c] = down[c]
        /\ lists'[x][l] = m.lists[l] /\ \A p \in Procs \ {x} : lists'[p] = lists[p]
        /\ life'[x] = "up" /\ \A c \in Slaves \ {x} : life'[c] = life[c]
        /\ UNCHANGED <<listeners, up, writes>>
    BY <1>6, <1>m, HeadTypes DEF ChildInit, ShmTypeOK
  <2>2. /\ Coming(down[x], l) = Adds(m, l) \cup Coming(down'[x], l)
        /\ Adds(m, l) \cap Coming(down'[x], l) = {} /\ AddsOnce(down'[x], l)
        /\ Distinct(m.lists[l])
    BY <1>c, <1>m, <2>1, ComingTail, OnceTail
  <2>3. Has(x, l)' = Adds(m, l)
    BY <2>1 DEF Has, Adds
  <2>4. \A p \in Procs \ {x} : Has(p, l)' = Has(p, l)
    BY <2>1 DEF Has
  <2>5. Has(x, l) = {} /\ Subscribed(x)
    <3>1. down[x][1] = m /\ 1 \in 1..Len(down[x])
      BY <1>m, <2>1, HeadTailProperties, EmptySeq
    <3>2. life[x] = "joining"
      BY <2>1, <3>1 DEF SnapshotFirst, InOrder, Alive
    <3>3. x \in listeners
      BY <2>1, <3>2 DEF SnapshotFirst, InOrder
    <3> QED
      BY <1>c, <2>1, <3>2, <3>3 DEF Subscribed
  <2> HIDE DEF m
  <2>6. Lines
    <3>1. Has(x, l)' \subseteq 1..writes'
      BY <1>a, <2>1, <2>2, <2>3, <2>5
    <3> QED
      BY <1>p, <2>1, <2>2, <2>4, <3>1 DEF Lines
  <2>7. \A c \in Slaves : UpOnce(c, l)'
    BY <1>m, <1>u, <2>1, <2>4 DEF UpOnce
  <2>8. Accounted(x, l)'
    BY <1>a, <1>m, <2>1, <2>2, <2>3, <2>4, <2>5 DEF Accounted
  <2>9. \A c \in Slaves \ {x} : Accounted(c, l)'
    BY <1>c, <1>m, <2>1, <2>4 DEF Accounted, Subscribed, Alive
  <2> QED
    BY <1>c, <1>m, <2>1, <2>2, <2>4, <2>6, <2>7, <2>8, <2>9 DEF Links
<1>7. ASSUME NEW x \in Slaves, ChildApply(x)
      PROVE  Lines /\ Links
  <2> DEFINE m == Head(down[x])
             A == Adds(m, l)
  <2>1. /\ down[x] # <<>> /\ m \in Writes /\ m.cmd # "snapshot" /\ Alive(x) /\ Apply(x, m)
        /\ down'[x] = Tail(down[x]) /\ \A c \in Slaves \ {x} : down'[c] = down[c]
        /\ UNCHANGED <<life, listeners, up, writes>>
    BY <1>7, HeadTypes DEF ChildApply, ShmTypeOK
  <2>2. /\ Coming(down[x], l) = A \cup Coming(down'[x], l)
        /\ A \cap Coming(down'[x], l) = {} /\ AddsOnce(down'[x], l)
    BY <1>c, <1>m, <2>1, ComingTail, OnceTail
  <2>3. life[x] = "up" /\ Subscribed(x)
    <3>1. down[x][1] = m /\ 1 \in 1..Len(down[x])
      BY <1>m, <2>1, HeadTailProperties, EmptySeq
    <3>2. life[x] = "up"
      BY <2>1, <3>1 DEF SnapshotFirst, InOrder, Alive
    <3> QED
      BY <2>1, <3>2 DEF Subscribed, SnapshotFirst, InOrder
  <2> HIDE DEF m, A
  <2>4. A \subseteq 1..writes /\ Has(x, l) \cap A = {}
    BY <1>a, <2>2, <2>3
  <2>5. /\ Has(x, l)' = Has(x, l) \cup A
        /\ \A p \in Procs \ {x} : lists'[p] = lists[p]
        /\ Distinct(lists'[x][l])
    BY <1>m, <1>p, <2>1, <2>4, ApplyLists DEF A
  <2>6. \A p \in Procs \ {x} : Has(p, l)' = Has(p, l)
    BY <2>5 DEF Has
  <2>7. Lines
    BY <1>p, <2>1, <2>4, <2>5, <2>6 DEF Lines
  <2>8. \A c \in Slaves : UpOnce(c, l)'
    BY <1>m, <1>u, <2>1, <2>6 DEF UpOnce
  <2>9. Accounted(x, l)'
    BY <1>a, <1>m, <2>1, <2>2, <2>3, <2>4, <2>5, <2>6 DEF Accounted
  <2>10. \A c \in Slaves \ {x} : Accounted(c, l)'
    BY <1>c, <1>m, <2>1, <2>6 DEF Accounted, Subscribed, Alive
  <2> QED
    BY <1>c, <1>m, <2>1, <2>2, <2>3, <2>6, <2>7, <2>8, <2>9, <2>10 DEF Links
<1>8. ASSUME NEW x \in Slaves, Dies(x)
      PROVE  Lines /\ Links
  <2>1. /\ life'[x] = "dead" /\ \A c \in Slaves \ {x} : life'[c] = life[c]
        /\ down'[x] = <<>> /\ \A c \in Slaves \ {x} : down'[c] = down[c]
        /\ UNCHANGED <<listeners, lists, up, writes>>
    BY <1>8 DEF Dies, ShmTypeOK
  <2>2. \A p \in Procs : Has(p, l)' = Has(p, l)
    BY <2>1 DEF Has
  <2>3. Lines
    BY <1>p, <2>1, <2>2 DEF Lines
  <2>4. \A c \in Slaves : UpOnce(c, l)'
    BY <1>m, <1>u, <2>1, <2>2 DEF UpOnce
  <2>5. AddsOnce(down'[x], l) /\ Accounted(x, l)'
    BY <2>1, EmptySeq DEF AddsOnce, Accounted, Subscribed, Alive
  <2>6. \A c \in Slaves \ {x} : Accounted(c, l)'
    BY <1>c, <1>m, <2>1, <2>2 DEF Accounted, Subscribed, Alive
  <2> QED
    BY <1>c, <1>m, <2>1, <2>2, <2>3, <2>4, <2>5, <2>6 DEF Links
<1>9. ASSUME UNCHANGED shmVars
      PROVE  Lines /\ Links
  <2>1. UNCHANGED <<life, listeners, lists, up, down, writes>>
    BY <1>9 DEF shmVars
  <2>2. \A p \in Procs : Has(p, l)' = Has(p, l)
    BY <2>1 DEF Has
  <2>3. Lines
    BY <1>p, <2>1, <2>2 DEF Lines
  <2>4. \A c \in Slaves : UpOnce(c, l)'
    BY <1>m, <1>u, <2>1, <2>2 DEF UpOnce
  <2>5. \A c \in Slaves : Accounted(c, l)'
    BY <1>c, <1>m, <2>1, <2>2 DEF Accounted, Subscribed, Alive
  <2> QED
    BY <1>c, <1>m, <2>1, <2>2, <2>3, <2>4, <2>5 DEF Links
<1>10. Lines /\ Links
  BY <1>1, <1>2, <1>3, <1>4, <1>5, <1>6, <1>7, <1>8, <1>9 DEF ShmNext
<1> QED
  BY <1>10 DEF Lines, Links

(***************************************************************************)
(* The invariant.                                                          *)
(***************************************************************************)

(* Nothing is written and nothing is on its way at first.                  *)
LEMMA InitIInv ==
  ASSUME ShmInit
  PROVE  ShmInv
<1>m. Master \in Procs /\ \A c \in Slaves : c \in Procs
  BY DEF Procs
<1>1. /\ \A c \in Slaves : life[c] = "new" /\ up[c] = <<>> /\ down[c] = <<>>
      /\ \A p \in Procs : /\ \A k \in Keys : vals[p][k] = 0
                          /\ \A l \in Lists : lists[p][l] = <<>>
      /\ listeners = {} /\ writes = 0 /\ deaths = 0
  BY DEF ShmInit
<1>2. ShmTypeOK
  <2>1. 0 \in Values /\ <<>> \in Seq(Values)
    BY ShmBoundsAssumption, EmptySeq DEF Values
  <2>2. /\ vals \in [Procs -> [Keys -> Values]]
        /\ lists \in [Procs -> [Lists -> Seq(Values)]]
    BY <2>1 DEF ShmInit
  <2>3. up \in [Slaves -> Seq(ToMaster)] /\ down \in [Slaves -> Seq(ToChild)]
    BY EmptySeq DEF ShmInit
  <2> QED
    BY <2>2, <2>3, ShmBoundsAssumption DEF ShmInit, ShmTypeOK
<1>3. SnapshotFirst
  BY <1>1 DEF SnapshotFirst, InOrder
<1>4. OwnWrites
  BY <1>1, EmptySeq DEF OwnWrites
<1>5. OwnersUndisturbed
  BY <1>1, EmptySeq DEF OwnersUndisturbed, Undisturbed
<1>6. CatchUp
  BY <1>1, <1>m, EndsEmpty DEF CatchUp, ReadersCatchUp, OwnersPrevail
<1>7. \A p \in Procs, l \in Lists : Has(p, l) = {} /\ Distinct(lists[p][l])
  BY <1>1, EmptySeq DEF Has, Range, Distinct
<1>8. \A c \in Slaves : \A l \in Lists :
        /\ Coming(up[c], l) = {} /\ Coming(down[c], l) = {}
        /\ AddsOnce(up[c], l) /\ AddsOnce(down[c], l)
  BY <1>1, ComingEmpty, EmptySeq DEF AddsOnce
<1>9. ListsAccounted
  BY <1>m, <1>7, <1>8 DEF ListsAccounted, Accounted
<1>10. PushedOnce
  BY <1>m, <1>7, <1>8 DEF PushedOnce, UpOnce
<1> QED
  BY <1>2, <1>3, <1>4, <1>5, <1>6, <1>9, <1>10 DEF ShmInv

(* Every step keeps the invariant.                                         *)
LEMMA StepIInv ==
  ASSUME ShmInv, [ShmNext]_shmVars
  PROVE  ShmInv'
<1>1. /\ ShmTypeOK /\ SnapshotFirst /\ OwnWrites /\ OwnersUndisturbed
      /\ ReadersCatchUp /\ OwnersPrevail /\ ListsAccounted /\ PushedOnce
  BY DEF ShmInv, CatchUp
<1>2. ShmTypeOK' /\ SnapshotFirst' /\ OwnWrites'
  BY <1>1, TypeStep, SnapshotStep, OwnStep
<1>3. ReadersCatchUp'
  BY <1>1, ReadersStep
<1>4. OwnersUndisturbed' /\ OwnersPrevail'
  BY <1>1, OwnersStep
<1>5. ListsAccounted' /\ PushedOnce'
  BY <1>1, ListsStep
<1> QED
  BY <1>2, <1>3, <1>4, <1>5 DEF ShmInv, CatchUp

(* The inductive invariant holds of every behaviour of the shared memory   *)
(* (shm.js:42-181).                                                        *)
THEOREM ShmInvariance == ShmSpec => []ShmInv
<1>1. ShmInit => ShmInv
  BY InitIInv
<1>2. ShmInv /\ [ShmNext]_shmVars => ShmInv'
  BY StepIInv
<1> QED
  BY <1>1, <1>2, PTL DEF ShmSpec

(* Every copy holds values, the channels hold the messages the handlers    *)
(* know (shm.js:90-125, 140-196).                                          *)
THEOREM ShmTypeCorrect == ShmSpec => []ShmTypeOK
<1>1. ShmInv => ShmTypeOK
  BY DEF ShmInv
<1> QED
  BY <1>1, ShmInvariance, PTL

(* A child gets the memory once and before any write of another process,   *)
(* however many children are forked, write and die (shm.js:116-121).       *)
THEOREM SnapshotComesFirst == ShmSpec => []SnapshotFirst
<1>1. ShmInv => SnapshotFirst
  BY DEF ShmInv
<1> QED
  BY <1>1, ShmInvariance, PTL

(* The copies of a key with one writer, and those of the children that do  *)
(* not write a key, end with its last value (shm.js:98-108, 116-125).      *)
THEOREM CopiesCatchUp == ShmSpec => []CatchUp
<1>1. ShmInv => CatchUp
  BY DEF ShmInv
<1> QED
  BY <1>1, ShmInvariance, PTL

(* No pushed value is lost or added twice in any copy (shm.js:72-78,       *)
(* 98-108).                                                                *)
THEOREM PushesAreAccounted == ShmSpec => []ListsAccounted
<1>1. ShmInv => ListsAccounted
  BY DEF ShmInv
<1> QED
  BY <1>1, ShmInvariance, PTL
=============================================================================
