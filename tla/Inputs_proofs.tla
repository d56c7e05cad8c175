---------------------------- MODULE Inputs_proofs ----------------------------
(***************************************************************************)
(* Proofs about Inputs: the mongo input stores no mark of a document that  *)
(* no process has given, no mark of any input passes an item over that     *)
(* none has read, and a process gives what it reads in the order of the    *)
(* source.                                                                 *)
(***************************************************************************)
EXTENDS Inputs, FiniteSetTheorems, SequenceTheorems, TLAPS

Operators == INSTANCE Operators_proofs

(* What is on its way to the store covers only what was given.             *)
CoversGiven(m) == Covered(m) \subseteq given
StoreInv ==
  /\ db # Missing => CoversGiven(db)
  /\ \A k \in DOMAIN calls : CoversGiven(calls[k].val)

(* The documents left in the cursor of a collection come in order, and are *)
(* the next ones beyond its mark, with none between them.                  *)
Follows(rest, c) ==
  /\ Ascending(rest)
  /\ \A j \in DOMAIN rest :
       /\ ClassOf[rest[j]] = c /\ wm[c] < rest[j]
       /\ \A i \in Items :
            ClassOf[i] = c /\ wm[c] < i /\ i <= rest[j] =>
              \E k \in 1..j : rest[k] = i

Cursors == [is : {"none", "query", "open"}, rest : Seq(Items)]

MongoTypes ==
  /\ avail \in 0..MaxItems /\ avail <= bound.items /\ proc \in Nat
  /\ db \in Marks \cup {Missing} /\ calls \in Seq(Call)
  /\ wm \in Marks
  /\ cursor \in [Classes -> Cursors] /\ cols \in Seq(Classes)

MongoInv ==
  /\ MongoTypes /\ StoreInv /\ CoversGiven(wm)
  /\ \A c \in Classes : Follows(cursor[c].rest, c)
  /\ phase \in {"off", "get", "save", "start"} => cursor = [c \in Classes |-> NoCursor]

IInv ==
  /\ bound \in Worlds /\ kind = bound.kind
  /\ kind = "mongo" => MongoInv
-----------------------------------------------------------------------------
(* What a query gives: each item that it asks for, in order.               *)
LEMMA InOrderOf ==
  ASSUME NEW S \in SUBSET Items
  PROVE  /\ InOrder(S) \in Seq(Items) /\ Ascending(InOrder(S))
         /\ \A j \in DOMAIN InOrder(S) : InOrder(S)[j] \in S
         /\ \A i \in S : \E k \in DOMAIN InOrder(S) : InOrder(S)[k] = i
<1> DEFINE n == Cardinality(S)
           s == InOrder(S)
<1>1. MaxItems \in Nat
  BY SourceAssumption
<1>2. /\ IsFiniteSet(S) /\ n \in Nat
      /\ \E q \in [1..n -> S] : Ascending(q)
  <2>1. S \in SUBSET (1..MaxItems)
    BY DEF Items
  <2>2. /\ IsFiniteSet(S) /\ Cardinality(S) \in Nat
        /\ \E q \in [1..Cardinality(S) -> S] : \A a, b \in DOMAIN q : a < b => q[a] < q[b]
    <3>1. PICK m \in Nat : \E q \in [1..m -> S] : Operators!InAscent(S, m, q)
      BY <1>1, <2>1, Operators!AscendingExists
    <3>2. PICK q \in [1..m -> S] : /\ \A a, b \in 1..m : a < b => q[a] < q[b]
                                   /\ \A a, b \in 1..m : q[a] = q[b] => a = b
                                   /\ \A x \in S : \E a \in 1..m : q[a] = x
      BY <3>1 DEF Operators!InAscent
    <3>3. q \in Bijection(1..m, S)
      BY <3>2 DEF Bijection, Injection, Surjection, IsInjective
    <3>4. IsFiniteSet(1..m) /\ Cardinality(1..m) = m
      BY <3>1, FS_Interval
    <3>5. IsFiniteSet(S) /\ Cardinality(S) = m
      BY <3>3, <3>4, FS_Bijection DEF ExistsBijection
    <3> QED
      BY <3>1, <3>2, <3>5
  <2> QED
    BY <2>2 DEF Ascending
<1> HIDE DEF n
<1>3. s \in [1..n -> S] /\ Ascending(s)
  BY <1>2 DEF InOrder, n
<1> HIDE DEF s
<1>4. s \in Seq(Items) /\ DOMAIN s = 1..n
  BY <1>2, <1>3
<1>5. s \in Injection(1..n, S)
  <2>1. \A a, b \in 1..n : s[a] = s[b] => a = b
    <3>1. SUFFICES ASSUME NEW a \in 1..n, NEW b \in 1..n, s[a] = s[b], a # b
                   PROVE  FALSE
      OBVIOUS
    <3>2. s[a] \in Items /\ s[b] \in Items
      BY <1>3
    <3>3. s[a] \in Nat /\ s[b] \in Nat
      BY <1>1, <3>2 DEF Items
    <3>4. s[a] < s[b] \/ s[b] < s[a]
      BY <1>2, <1>3, <1>4, <3>1 DEF Ascending
    <3> QED
      BY <3>1, <3>3, <3>4
  <2> QED
    BY <1>3, <2>1 DEF Injection, IsInjective
<1>6. s \in Surjection(1..n, S)
  <2>1. Cardinality(1..n) = n
    BY <1>2, FS_Interval
  <2> QED
    BY <1>2, <1>5, <2>1, FS_Injection DEF n
<1> QED
  BY <1>3, <1>4, <1>6 DEF s, Surjection

LEMMA Constants ==
  /\ MaxItems \in Nat /\ ClassOf \in [Items -> Classes]
  /\ Values = Marks /\ Placeholder = Upto(0) /\ Upto(0) \in Marks
  /\ Placeholder # Missing /\ Missing \notin Marks
  /\ \A r \in RefreshIds : Refreshes[r] \in Callers
  /\ Order \in Seq(Classes)
  /\ {"configure", "fetch", "next", "done", "pause", "stop"} \subseteq Callers
<1>1. Upto(0) \in Marks
  BY SourceAssumption DEF Upto, Marks
<1> QED
  BY <1>1, SourceAssumption, StoreAssumption, MongoAssumption DEF RefreshIds

(* Nothing is covered at first, and what is given stays given.             *)
LEMMA CoveredFacts ==
  /\ Covered(Upto(0)) = {}
  /\ \A m, S, T : Covered(m) \subseteq S /\ S \subseteq T => Covered(m) \subseteq T
  BY Constants DEF Covered, Upto, Items

(* What happens to the calls of the store: one more, one less.             *)
LEMMA AppendsCall ==
  ASSUME NEW G, NEW cs \in Seq(Call), \A k \in DOMAIN cs : Covered(cs[k].val) \subseteq G,
         NEW cmd \in {"get", "create", "save"}, NEW m \in Marks, Covered(m) \subseteq G,
         NEW who \in Callers, NEW p \in Nat
  PROVE  /\ With(cs, cmd, m, who, p) \in Seq(Call)
         /\ \A k \in DOMAIN With(cs, cmd, m, who, p) :
              Covered(With(cs, cmd, m, who, p)[k].val) \subseteq G
<1> DEFINE c == [cmd |-> cmd, val |-> m, who |-> who, proc |-> p]
           ds == Append(cs, c)
<1>1. c \in Call
  BY Constants DEF Call
<1>2. /\ ds \in Seq(Call) /\ Len(ds) = Len(cs) + 1
      /\ \A k \in 1..Len(cs) : ds[k] = cs[k]
      /\ ds[Len(cs) + 1] = c
  BY <1>1
<1>3. \A k \in 1..Len(ds) : Covered(ds[k].val) \subseteq G
  <2> HIDE DEF ds
  <2>1. SUFFICES ASSUME NEW k \in 1..Len(ds)
                 PROVE  Covered(ds[k].val) \subseteq G
    OBVIOUS
  <2>2. CASE k \in 1..Len(cs)
    BY <1>2, <2>2
  <2>3. CASE k = Len(cs) + 1
    BY <1>2, <2>3
  <2> QED
    BY <1>2, <2>2, <2>3
<1> QED
  BY <1>2, <1>3 DEF With

(* A sequence without its k-th element.                                    *)
LEMMA WithoutOne ==
  ASSUME NEW T, NEW s \in Seq(T), NEW k \in DOMAIN s
  PROVE  /\ SubSeq(s, 1, k - 1) \o SubSeq(s, k + 1, Len(s)) \in Seq(T)
         /\ Len(SubSeq(s, 1, k - 1) \o SubSeq(s, k + 1, Len(s))) = Len(s) - 1
         /\ \A j \in DOMAIN (SubSeq(s, 1, k - 1) \o SubSeq(s, k + 1, Len(s))) :
              \E i \in DOMAIN s :
                /\ i = IF j < k THEN j ELSE j + 1
                /\ (SubSeq(s, 1, k - 1) \o SubSeq(s, k + 1, Len(s)))[j] = s[i]
<1> DEFINE a == SubSeq(s, 1, k - 1)
           b == SubSeq(s, k + 1, Len(s))
<1>1. Len(s) \in Nat /\ k \in 1..Len(s) /\ k \in Nat
  OBVIOUS
<1>2. /\ a \in Seq(T) /\ Len(a) = k - 1
      /\ \A j \in 1..Len(a) : a[j] = s[j]
  BY <1>1
<1>3. /\ b \in Seq(T) /\ Len(b) = Len(s) - k
      /\ \A j \in 1..Len(b) : b[j] = s[k + j]
  BY <1>1
<1> HIDE DEF a, b
<1> DEFINE ab == a \o b
<1>4. /\ ab \in Seq(T) /\ Len(ab) = Len(a) + Len(b)
      /\ \A j \in 1 .. Len(a) + Len(b) :
           ab[j] = IF j <= Len(a) THEN a[j] ELSE b[j - Len(a)]
  BY <1>2, <1>3, ConcatProperties
<1> HIDE DEF ab
<1>5. Len(ab) = Len(s) - 1 /\ DOMAIN ab = 1..(Len(s) - 1) /\ DOMAIN s = 1..Len(s)
  BY <1>1, <1>2, <1>3, <1>4
<1>6. ASSUME NEW j \in 1..(Len(s) - 1)
      PROVE  \E i \in 1..Len(s) : i = (IF j < k THEN j ELSE j + 1) /\ ab[j] = s[i]
  <2>1. CASE j < k
    <3>1. j \in 1..Len(a) /\ j \in 1..Len(s) /\ j <= Len(a) /\ j \in 1 .. Len(a) + Len(b)
      BY <1>1, <1>2, <1>3, <2>1
    <3> QED
      BY <1>2, <1>4, <2>1, <3>1
  <2>2. CASE ~(j < k)
    <3> DEFINE n == Len(s)
               x == Len(a)
               y == Len(b)
    <3>1. /\ n \in Nat /\ k \in Nat /\ k >= 1 /\ k <= n /\ j \in Nat /\ j >= k /\ j <= n - 1
          /\ x = k - 1 /\ y = n - k
      BY <1>1, <1>2, <1>3, <2>2
    <3> HIDE DEF n, x, y
    <3>2. PICK d \in Nat : d = j - (k - 1)
      BY <3>1
    <3>3. d \in 1..y /\ k + d = j + 1 /\ j + 1 \in 1..n
      BY <3>1, <3>2
    <3>4. ~(j <= x) /\ j \in 1 .. x + y /\ j - x = d
      BY <3>1, <3>2
    <3>5. ab[j] = b[d] /\ b[d] = s[j + 1]
      BY <1>3, <1>4, <3>3, <3>4 DEF n, x, y
    <3> QED
      BY <2>2, <3>3, <3>5 DEF n
  <2> QED
    BY <2>1, <2>2
<1> QED
  BY <1>4, <1>5, <1>6 DEF ab, a, b

LEMMA RemovesCall ==
  ASSUME NEW G, calls \in Seq(Call), \A k \in DOMAIN calls : Covered(calls[k].val) \subseteq G,
         NEW k \in DOMAIN calls
  PROVE  /\ Without(k) \in Seq(Call)
         /\ \A j \in DOMAIN Without(k) : Covered(Without(k)[j].val) \subseteq G
<1>1. /\ Without(k) \in Seq(Call)
      /\ \A j \in DOMAIN Without(k) : \E i \in DOMAIN calls : Without(k)[j] = calls[i]
  BY WithoutOne DEF Without
<1> QED
  BY <1>1

(* The marks do not move and the cursors do not either: they still fit.    *)
LEMMA StillFollows ==
  ASSUME \A c \in Classes : Follows(cursor[c].rest, c), UNCHANGED <<wm, cursor>>
  PROVE  \A c \in Classes : Follows(cursor[c].rest, c)'
  BY DEF Follows, Ascending
-----------------------------------------------------------------------------
(* Which input a process is, it stays.                                     *)
LEMMA SqlKind == SqlStep => UNCHANGED <<kind, bound>>
  BY DEF SqlStep, SqlStart, SqlNext, QuerySaved, Backlog, SqlPause, SqlStop, Row, Done,
         QueryFails, sourceVars, lifeVars

LEMMA HttpKind == HttpStep => UNCHANGED <<kind, bound>>
  BY DEF HttpStep, StartHttp, HttpNext, Answers, Fails, Fetched, PushLoop, SmNext, SmAnswers,
         SmSaved, SmFails, HttpPause, HttpResume, HttpStop, ElasticAnswers, HttpAnswers,
         ElasticFails, HttpFails, sourceVars, lifeVars

LEMMA WindowsKind == WindowsStep => UNCHANGED <<kind, bound>>
  BY DEF WindowsStep, WinpollStart, WinpollNext, WinpollSaved, WevtutilStart, WevtutilNext,
         Printed, Ends, EndsBadly, SetupReset, SetupFails, EndFetch, WevtutilFetched, Kill,
         WindowsPause, WindowsResume, WindowsStop, sourceVars, lifeVars

LEMMA KafkaKind == KafkaConfigure \/ KafkaStep => UNCHANGED <<kind, bound>>
  BY DEF KafkaConfigure, KafkaStep, KafkaStart, Reconnect, EachBatch, BatchEnds, BatchIgnored,
         Commit, KafkaNext, Ival, KafkaPause, KafkaResume, KafkaStop, Disconnect, Configure,
         sourceVars, lifeVars

LEMMA MongoKind == MongoStep => UNCHANGED <<kind, bound>>
  BY DEF MongoStep, MongoStart, MongoNext, MongoPause, MongoResume, MongoStop, FetchData,
         CollectionsFetched, RefreshTimer, sourceVars, lifeVars

LEMMA CommonKind == Common \/ Exit => UNCHANGED <<kind, bound>>
  BY DEF Common, Exit, Arrive, Configured, Saved, CalledBack, ServeStore, Configure, Ask, Die,
         lifeVars
-----------------------------------------------------------------------------
Early == {"off", "get", "save", "start"}
NoCursors == [c \in Classes |-> NoCursor]

LEMMA NoCursorsFollow ==
  /\ NoCursors \in [Classes -> Cursors]
  /\ cursor = NoCursors => \A c \in Classes : Follows(cursor[c].rest, c)
  /\ cursor' = NoCursors => \A c \in Classes : Follows(cursor[c].rest, c)'
  BY DEF NoCursors, NoCursor, Cursors, Follows, Ascending

(* Steps that neither ask the store nor move a mark or a cursor.           *)
LEMMA Aside ==
  ASSUME MongoInv, UNCHANGED <<storeVars, wm, cursor, given, proc>>,
         avail' \in 0..MaxItems, avail' <= bound'.items, cols' \in Seq(Classes),
         phase' \in Early => phase \in Early
  PROVE  MongoInv'
<1>1. MongoTypes' /\ StoreInv' /\ CoversGiven(wm)'
  BY DEF MongoInv, MongoTypes, StoreInv, CoversGiven, Covered, storeVars
<1>2. \A c \in Classes : Follows(cursor[c].rest, c)'
  BY StillFollows DEF MongoInv
<1> QED
  BY <1>1, <1>2 DEF MongoInv, Early

(* Steps that save the marks.                                              *)
LEMMA Stores ==
  ASSUME MongoInv, NEW CONSTANT who \in Callers, Store(who),
         UNCHANGED <<db, wm, given, proc, avail, bound, cols>>,
         \/ cursor' = NoCursors
         \/ UNCHANGED cursor /\ (phase' \in Early => phase \in Early)
  PROVE  MongoInv'
<1>1. /\ calls \in Seq(Call) /\ wm \in Marks /\ proc \in Nat
      /\ \A k \in DOMAIN calls : Covered(calls[k].val) \subseteq given
      /\ Covered(wm) \subseteq given
  BY DEF MongoInv, MongoTypes, StoreInv, CoversGiven
<1>2. calls' = With(calls, "save", wm, who, proc)
  BY DEF Store, WithSave
<1>3. /\ calls' \in Seq(Call)
      /\ \A k \in DOMAIN calls' : Covered(calls'[k].val) \subseteq given
  BY <1>1, <1>2, AppendsCall
<1>4. MongoTypes'
  BY <1>3, NoCursorsFollow DEF MongoInv, MongoTypes
<1>5. StoreInv' /\ CoversGiven(wm)'
  BY <1>3 DEF MongoInv, StoreInv, CoversGiven, Covered
<1>6. \A c \in Classes : Follows(cursor[c].rest, c)'
  BY StillFollows, NoCursorsFollow DEF MongoInv
<1> QED
  BY <1>4, <1>5, <1>6 DEF MongoInv, Early, NoCursors

LEMMA ConfigureKeeps ==
  ASSUME MongoInv, Configure, UNCHANGED familyVars
  PROVE  MongoInv'
<1>1. /\ calls \in Seq(Call) /\ proc \in Nat /\ proc' = proc + 1 /\ proc' \in Nat
      /\ \A k \in DOMAIN calls : Covered(calls[k].val) \subseteq given
      /\ Placeholder \in Marks /\ Covered(Placeholder) \subseteq given
  BY Constants, CoveredFacts DEF MongoInv, MongoTypes, StoreInv, CoversGiven, Configure
<1>2. calls' = With(calls, "get", Placeholder, "configure", proc')
  BY DEF Configure, WithGet
<1>3. "configure" \in Callers
  BY Constants
<1>4. /\ calls' \in Seq(Call)
      /\ \A k \in DOMAIN calls' : Covered(calls'[k].val) \subseteq given
  BY <1>1, <1>2, <1>3, AppendsCall
<1>5. UNCHANGED <<db, wm, given, avail, bound, cols, cursor>> /\ cursor = NoCursors
  BY DEF Configure, familyVars, mongoVars, MongoInv, NoCursors
<1>6. MongoTypes'
  BY <1>1, <1>4, <1>5 DEF MongoInv, MongoTypes
<1>7. StoreInv' /\ CoversGiven(wm)'
  BY <1>4, <1>5 DEF MongoInv, StoreInv, CoversGiven, Covered
<1>8. \A c \in Classes : Follows(cursor[c].rest, c)'
  BY <1>5, StillFollows DEF MongoInv
<1> QED
  BY <1>5, <1>6, <1>7, <1>8 DEF MongoInv, NoCursors

(* The store answers a call: every mark that is then on its way, stored or *)
(* in memory is one that was so before, or the placeholder.                *)
LEMMA Served ==
  ASSUME NEW G, NEW CONSTANT k \in DOMAIN calls,
         calls \in Seq(Call), \A j \in DOMAIN calls : Covered(calls[j].val) \subseteq G,
         db \in Marks \cup {Missing}, db # Missing => Covered(db) \subseteq G, proc \in Nat,
         ServeGet(k, Saves) \/ (Save(k) /\ UNCHANGED <<phase, wm>>)
  PROVE  /\ calls' \in Seq(Call) /\ \A j \in DOMAIN calls' : Covered(calls'[j].val) \subseteq G
         /\ db' \in Marks \cup {Missing} /\ (db' # Missing => Covered(db') \subseteq G)
         /\ UNCHANGED wm \/ (wm' = db /\ db # Missing)
<1>1. /\ calls \in Seq(Call) /\ \A j \in DOMAIN calls : Covered(calls[j].val) \subseteq G
      /\ db \in Marks \cup {Missing} /\ proc \in Nat
      /\ db # Missing => Covered(db) \subseteq G
  OBVIOUS
<1>2. /\ Without(k) \in Seq(Call)
      /\ \A j \in DOMAIN Without(k) : Covered(Without(k)[j].val) \subseteq G
  BY <1>1, RemovesCall
<1>3. ASSUME NEW cmd \in {"get", "create", "save"}, calls' = [calls EXCEPT ![k].cmd = cmd]
      PROVE  /\ calls' \in Seq(Call)
             /\ \A j \in DOMAIN calls' : Covered(calls'[j].val) \subseteq G
  <2>1. /\ k \in 1..Len(calls) /\ Len(calls) \in Nat
        /\ \A j \in 1..Len(calls) : calls[j] \in Call
    BY <1>1
  <2>2. DOMAIN calls = 1..Len(calls)
    BY <1>1
  <2>3. /\ DOMAIN calls' = 1..Len(calls)
        /\ \A j \in 1..Len(calls) :
             calls'[j] = IF j = k THEN [calls[k] EXCEPT !.cmd = cmd] ELSE calls[j]
    BY <1>1, <1>3, <2>2
  <2>4. [calls[k] EXCEPT !.cmd = cmd] \in Call /\ [calls[k] EXCEPT !.cmd = cmd].val = calls[k].val
    BY <2>1 DEF Call
  <2>5. \A j \in 1..Len(calls) : calls'[j] \in Call /\ calls'[j].val = calls[j].val
    BY <2>1, <2>3, <2>4
  <2>6. calls' = [j \in 1..Len(calls) |-> calls'[j]]
    BY <1>3, <2>2, <2>3
  <2>7. calls' \in Seq(Call)
    BY <2>1, <2>5, <2>6
  <2> QED
    BY <1>1, <2>2, <2>3, <2>5, <2>7
<1>4. /\ calls' \in Seq(Call)
      /\ \A j \in DOMAIN calls' : Covered(calls'[j].val) \subseteq G
  <2>1. CASE \E cmd \in {"get", "create", "save"} : calls' = [calls EXCEPT ![k].cmd = cmd]
    BY <1>3, <2>1
  <2>2. CASE calls' = Without(k)
    BY <1>2, <2>2
  <2>3. CASE db # Missing /\ calls' = With(Without(k), "save", db, "configure", proc)
    <3>1. db \in Marks /\ Covered(db) \subseteq G /\ "configure" \in Callers
      BY <1>1, <2>3, Constants
    <3> DEFINE cs == Without(k)
    <3>2. cs \in Seq(Call) /\ \A j \in DOMAIN cs : Covered(cs[j].val) \subseteq G
      BY <1>2
    <3> HIDE DEF cs
    <3>3. /\ With(cs, "save", db, "configure", proc) \in Seq(Call)
          /\ \A j \in DOMAIN With(cs, "save", db, "configure", proc) :
               Covered(With(cs, "save", db, "configure", proc)[j].val) \subseteq G
      BY <1>1, <3>1, <3>2, AppendsCall
    <3> QED
      BY <2>3, <3>3 DEF cs
  <2> QED
    BY <2>1, <2>2, <2>3 DEF WithSave, ServeGet, GetMisses, Create, GetHits, Save
<1>5. db' \in Marks \cup {Missing} /\ (db' # Missing => Covered(db') \subseteq G)
  <2>1. db' \in {db, Placeholder, calls[k].val}
    BY DEF ServeGet, GetMisses, Create, GetHits, Save
  <2>2. /\ Placeholder \in Marks /\ Covered(Placeholder) \subseteq G
        /\ calls[k].val \in Marks /\ Covered(calls[k].val) \subseteq G
    <3>1. Placeholder \in Marks /\ Covered(Placeholder) \subseteq G
      BY Constants, CoveredFacts
    <3>2. calls[k] \in Call
      BY <1>1
    <3>3. calls[k].val \in Marks
      BY <3>2, Constants DEF Call
    <3> QED
      BY <1>1, <3>1, <3>3
  <2> QED
    BY <1>1, <2>1, <2>2
<1>6. UNCHANGED wm \/ (wm' = db /\ db # Missing)
  BY DEF ServeGet
<1> QED
  BY <1>4, <1>5, <1>6

(* The store answers; only configure() of a process without cursors takes  *)
(* the mark that it gets.                                                  *)
LEMMA ServeKeeps ==
  ASSUME MongoInv, kind = "mongo", ServeStore(Saves), UNCHANGED familyVars
  PROVE  MongoInv'
<1>1. PICK k \in DOMAIN calls :
        \/ ServeGet(k, Saves) /\ UNCHANGED answer
        \/ Save(k) /\ UNCHANGED <<phase, wm>>
  BY DEF ServeStore
<1>2. UNCHANGED <<bound, proc, avail, given, cols, cursor>> /\ ~Saves
  BY DEF ServeStore, histVars, familyVars, mongoVars, Saves, Http, Winpoll
<1>3. /\ calls \in Seq(Call) /\ \A j \in DOMAIN calls : Covered(calls[j].val) \subseteq given
      /\ db \in Marks \cup {Missing}
      /\ db # Missing => Covered(db) \subseteq given
      /\ wm \in Marks /\ Covered(wm) \subseteq given /\ proc \in Nat
  BY DEF MongoInv, MongoTypes, StoreInv, CoversGiven
<1>4. /\ calls' \in Seq(Call) /\ \A j \in DOMAIN calls' : Covered(calls'[j].val) \subseteq given
      /\ db' \in Marks \cup {Missing} /\ (db' # Missing => Covered(db') \subseteq given)
  BY <1>1, <1>3, Served
<1>5. \/ UNCHANGED <<phase, wm>>
      \/ phase = "get" /\ phase' = "start" /\ wm' = db /\ db # Missing
  BY <1>1, <1>2 DEF ServeGet
<1>6. wm' \in Marks /\ Covered(wm') \subseteq given
  BY <1>3, <1>5
<1>7. MongoTypes'
  BY <1>2, <1>4, <1>6 DEF MongoInv, MongoTypes
<1>8. StoreInv' /\ CoversGiven(wm)'
  BY <1>2, <1>4, <1>6 DEF StoreInv, CoversGiven, Covered
<1>9. \A c \in Classes : Follows(cursor[c].rest, c)'
  <2>1. CASE UNCHANGED wm
    BY <1>2, <2>1, StillFollows DEF MongoInv
  <2>2. CASE phase = "get"
    BY <1>2, <2>2, NoCursorsFollow DEF MongoInv, NoCursors
  <2> QED
    BY <1>5, <2>1, <2>2
<1> QED
  BY <1>2, <1>5, <1>7, <1>8, <1>9 DEF MongoInv

(* A process ends: no mark is stored that it had not asked to store.       *)
LEMMA ExitKeeps ==
  ASSUME MongoInv, Exit
  PROVE  MongoInv'
<1>1. PICK n \in 0..Len(calls) : calls' = Surviving(n)
  BY DEF Exit, Die
<1>2. /\ UNCHANGED <<db, avail, bound, proc, given>>
      /\ wm' = Upto(0) /\ cursor' = NoCursors /\ cols' = <<>>
  BY DEF Exit, Die, MongoReset, NoCursors
<1>3. /\ calls \in Seq(Call) /\ \A j \in DOMAIN calls : Covered(calls[j].val) \subseteq given
      /\ db # Missing => Covered(db) \subseteq given
  BY DEF MongoInv, MongoTypes, StoreInv, CoversGiven
<1>4. calls' \in Seq(Call) /\ \A j \in DOMAIN calls' : Covered(calls'[j].val) \subseteq given
  <2>1. /\ SubSeq(calls, 1, n) \in Seq(Call) /\ Len(SubSeq(calls, 1, n)) = n
        /\ \A j \in 1..n : SubSeq(calls, 1, n)[j] = calls[j]
    BY <1>3
  <2> QED
    BY <1>1, <1>3, <2>1 DEF Surviving
<1>5. MongoTypes'
  BY <1>2, <1>4, Constants, NoCursorsFollow DEF MongoInv, MongoTypes
<1>6. StoreInv' /\ CoversGiven(wm)'
  <2>1. Covered(wm') = {}
    BY <1>2, CoveredFacts
  <2> QED
    BY <1>2, <1>3, <1>4, <2>1 DEF StoreInv, CoversGiven, Covered
<1>7. \A c \in Classes : Follows(cursor[c].rest, c)'
  BY <1>2, NoCursorsFollow
<1> QED
  BY <1>2, <1>5, <1>6, <1>7 DEF MongoInv, NoCursors
-----------------------------------------------------------------------------
(* A query is made from the mark of its collection, and nothing lies       *)
(* between that mark and its documents.                                    *)
LEMMA FetchDataKeeps ==
  ASSUME MongoInv, NEW CONSTANT c \in Classes, FetchData(c)
  PROVE  MongoInv'
<1> DEFINE S == {i \in Beyond(wm) : ClassOf[i] = c}
           docs == InOrder(S)
<1>1. /\ UNCHANGED <<sourceVars, cols>> /\ phase = "up"
      /\ cursor' = [cursor EXCEPT ![c] = Opened(docs)]
  BY DEF FetchData, Up
<1>2. UNCHANGED <<db, calls, wm, given, avail, bound, proc, phase>>
  BY <1>1 DEF sourceVars, storeVars, histVars, lifeVars
<1>3. /\ avail \in 0..MaxItems /\ wm \in Marks /\ cursor \in [Classes -> Cursors]
      /\ MaxItems \in Nat /\ S \in SUBSET Items
      /\ \A i \in S : ClassOf[i] = c /\ wm[c] < i /\ i <= avail
      /\ \A i \in Items : ClassOf[i] = c /\ wm[c] < i /\ i <= avail => i \in S
  BY Constants DEF MongoInv, MongoTypes, Beyond, Items
<1> HIDE DEF S
<1>4. /\ docs \in Seq(Items) /\ Ascending(docs)
      /\ \A k \in DOMAIN docs : docs[k] \in S
      /\ \A i \in S : \E k \in DOMAIN docs : docs[k] = i
  BY <1>3, InOrderOf
<1> HIDE DEF docs
<1>5. Opened(docs) \in Cursors /\ Opened(docs).rest = docs
  BY <1>4 DEF Opened, Cursors
<1>6. /\ cursor' \in [Classes -> Cursors] /\ cursor'[c].rest = docs
      /\ \A d \in Classes : d # c => cursor'[d] = cursor[d]
  BY <1>1, <1>3, <1>5
<1>7. Follows(cursor[c].rest, c)'
  <2>1. ASSUME NEW k \in DOMAIN docs, NEW i \in Items,
               ClassOf[i] = c, wm[c] < i, i <= docs[k]
        PROVE  \E m \in 1..k : docs[m] = i
    <3>1. docs[k] \in Nat /\ docs[k] <= avail /\ i \in Nat /\ avail \in Nat
      BY <1>3, <1>4 DEF Items
    <3>2. i \in S
      BY <1>3, <2>1, <3>1
    <3>3. PICK m \in DOMAIN docs : docs[m] = i
      BY <1>4, <3>2
    <3>4. m \in Nat /\ k \in Nat /\ m >= 1
      BY <1>4
    <3>5. ~(k < m)
      <4>1. SUFFICES ASSUME k < m
                     PROVE  FALSE
        OBVIOUS
      <4>2. docs[k] < docs[m]
        BY <1>4, <4>1, <3>3 DEF Ascending
      <4> QED
        BY <2>1, <3>1, <3>3, <4>2
    <3> QED
      BY <3>3, <3>4, <3>5
  <2>2. \A k \in DOMAIN docs : ClassOf[docs[k]] = c /\ wm[c] < docs[k]
    BY <1>3, <1>4
  <2>3. wm' = wm /\ cursor'[c].rest = docs
    BY <1>2, <1>6
  <2>4. Ascending(cursor[c].rest)'
    BY <1>4, <2>3 DEF Ascending
  <2> QED
    BY <2>1, <2>2, <2>3, <2>4 DEF Follows
<1>8. \A d \in Classes : Follows(cursor[d].rest, d)'
  <2>1. ASSUME NEW d \in Classes, d # c
        PROVE  Follows(cursor[d].rest, d)'
    BY <1>2, <1>6, <2>1 DEF Follows, Ascending, MongoInv
  <2> QED
    BY <1>6, <1>7, <2>1
<1>9. MongoTypes' /\ StoreInv' /\ CoversGiven(wm)'
  BY <1>1, <1>2, <1>6 DEF MongoInv, MongoTypes, StoreInv, CoversGiven, Covered
<1> QED
  BY <1>1, <1>2, <1>8, <1>9 DEF MongoInv

(* The first document left is the next one beyond the mark: with it the    *)
(* mark covers what it covered and this document.                          *)
LEMMA HeadFollows ==
  ASSUME NEW c \in Classes, wm \in Marks, NEW rest \in Seq(Items), rest # <<>>,
         Follows(rest, c)
  PROVE  /\ Head(rest) \in Items
         /\ \A i \in Items : ClassOf[i] = c /\ i <= Head(rest) => i <= wm[c] \/ i = Head(rest)
         /\ wm[c] < Head(rest)
         /\ Tail(rest) \in Seq(Items)
         /\ Ascending(Tail(rest))
         /\ \A j \in DOMAIN Tail(rest) :
              /\ ClassOf[Tail(rest)[j]] = c /\ Head(rest) < Tail(rest)[j]
              /\ \A i \in Items :
                   ClassOf[i] = c /\ Head(rest) < i /\ i <= Tail(rest)[j] =>
                     \E k \in 1..j : Tail(rest)[k] = i
<1> DEFINE h == Head(rest)
           s == Tail(rest)
<1>1. /\ MaxItems \in Nat /\ wm[c] \in Nat /\ \A i \in Items : i \in Nat
  BY Constants DEF Marks, Items
<1>2. /\ Len(rest) \in Nat \ {0} /\ DOMAIN rest = 1..Len(rest)
      /\ h = rest[1] /\ h \in Items
      /\ s \in Seq(Items) /\ DOMAIN s = 1..(Len(rest) - 1)
      /\ \A j \in 1..(Len(rest) - 1) : s[j] = rest[j + 1]
      /\ \A j \in 1..Len(rest) : rest[j] \in Items
  OBVIOUS
<1> HIDE DEF h, s
<1>3. \A a, b \in 1..Len(rest) : a < b => rest[a] < rest[b]
  BY <1>2 DEF Follows, Ascending
<1>4. \A j \in 1..Len(rest) :
        /\ ClassOf[rest[j]] = c /\ wm[c] < rest[j]
        /\ \A i \in Items :
             ClassOf[i] = c /\ wm[c] < i /\ i <= rest[j] => \E k \in 1..j : rest[k] = i
  BY <1>2 DEF Follows
<1>5. wm[c] < h /\ \A i \in Items : ClassOf[i] = c /\ i <= h => i <= wm[c] \/ i = h
  <2>1. 1 \in 1..Len(rest)
    BY <1>2
  <2>2. ASSUME NEW i \in Items, ClassOf[i] = c, i <= h, ~(i <= wm[c])
        PROVE  i = h
    <3>1. PICK k \in 1..1 : rest[k] = i
      BY <1>1, <1>2, <1>4, <2>1, <2>2
    <3> QED
      BY <1>2, <3>1
  <2> QED
    BY <1>2, <1>4, <2>1, <2>2
<1>6. Ascending(s)
  <2>1. SUFFICES ASSUME NEW a \in 1..(Len(rest) - 1), NEW b \in 1..(Len(rest) - 1), a < b
                 PROVE  s[a] < s[b]
    BY <1>2 DEF Ascending
  <2>2. a + 1 \in 1..Len(rest) /\ b + 1 \in 1..Len(rest) /\ a + 1 < b + 1
    BY <1>2, <2>1
  <2> QED
    BY <1>2, <1>3, <2>2
<1>7. ASSUME NEW j \in 1..(Len(rest) - 1)
      PROVE  /\ ClassOf[s[j]] = c /\ h < s[j]
             /\ \A i \in Items :
                  ClassOf[i] = c /\ h < i /\ i <= s[j] => \E k \in 1..j : s[k] = i
  <2>1. j + 1 \in 1..Len(rest) /\ 1 \in 1..Len(rest) /\ 1 < j + 1 /\ s[j] = rest[j + 1]
    BY <1>2
  <2>2. ClassOf[s[j]] = c /\ h < s[j]
    BY <1>2, <1>3, <1>4, <2>1
  <2>3. ASSUME NEW i \in Items, ClassOf[i] = c, h < i, i <= s[j]
        PROVE  \E k \in 1..j : s[k] = i
    <3>1. wm[c] < i
      BY <1>1, <1>2, <1>5, <2>3
    <3>2. PICK k \in 1..(j + 1) : rest[k] = i
      BY <1>4, <2>1, <2>3, <3>1
    <3>3. k # 1
      BY <1>1, <1>2, <2>3, <3>2
    <3>4. k - 1 \in 1..j /\ k - 1 \in 1..(Len(rest) - 1) /\ (k - 1) + 1 = k
      BY <1>2, <3>2, <3>3
    <3>5. s[k - 1] = i
      BY <1>2, <3>2, <3>4
    <3> QED
      BY <3>4, <3>5
  <2> QED
    BY <2>2, <2>3
<1> QED
  BY <1>2, <1>5, <1>6, <1>7 DEF h, s

LEMMA NextDocumentKeeps ==
  ASSUME MongoInv, NEW CONSTANT c \in Classes, NextDocument(c),
         UNCHANGED <<storeVars, avail, bound, proc, phase>>, phase = "up",
         cols' \in Seq(Classes)
  PROVE  MongoInv'
<1> DEFINE rest == cursor[c].rest
           h == Head(rest)
<1>1. /\ wm \in Marks /\ cursor \in [Classes -> Cursors] /\ rest \in Seq(Items)
      /\ rest # <<>> /\ Follows(rest, c)
  BY DEF MongoInv, MongoTypes, NextDocument, Cursors
<1>2. /\ h \in Items
      /\ \A i \in Items : ClassOf[i] = c /\ i <= h => i <= wm[c] \/ i = h
      /\ wm[c] < h
      /\ Tail(rest) \in Seq(Items) /\ Ascending(Tail(rest))
      /\ \A k \in DOMAIN Tail(rest) :
           /\ ClassOf[Tail(rest)[k]] = c /\ h < Tail(rest)[k]
           /\ \A i \in Items :
                ClassOf[i] = c /\ h < i /\ i <= Tail(rest)[k] =>
                  \E m \in 1..k : Tail(rest)[m] = i
  BY <1>1, HeadFollows
<1>3. /\ cursor' = [cursor EXCEPT ![c].rest = Tail(rest)]
      /\ wm' = [wm EXCEPT ![c] = h]
      /\ given' = given \cup {h}
  BY DEF NextDocument, Give
<1>4. UNCHANGED <<db, calls, avail, bound, proc, phase>>
  BY DEF storeVars
<1>5. /\ wm' \in Marks /\ wm'[c] = h /\ \A d \in Classes : d # c => wm'[d] = wm[d]
  BY <1>1, <1>2, <1>3, Constants DEF Marks, Items
<1>6. /\ cursor' \in [Classes -> Cursors] /\ cursor'[c].rest = Tail(rest)
      /\ \A d \in Classes : d # c => cursor'[d] = cursor[d]
  BY <1>1, <1>2, <1>3 DEF Cursors
<1> HIDE DEF h, rest
<1>7. Covered(wm') \subseteq given'
  <2>1. SUFFICES ASSUME NEW i \in Items, i <= wm'[ClassOf[i]]
                 PROVE  i \in given'
    BY DEF Covered
  <2>2. ClassOf[i] \in Classes
    BY Constants DEF Items
  <2>3. i <= wm[ClassOf[i]] => i \in given'
    BY <1>3, <2>1 DEF MongoInv, CoversGiven, Covered
  <2>4. CASE ClassOf[i] = c
    BY <1>2, <1>3, <1>5, <2>1, <2>3, <2>4
  <2>5. CASE ClassOf[i] # c
    BY <1>5, <2>1, <2>2, <2>3, <2>5
  <2> QED
    BY <2>4, <2>5
<1>8. StoreInv'
  BY <1>3, <1>4 DEF MongoInv, StoreInv, CoversGiven, Covered
<1>9. Follows(cursor[c].rest, c)'
  <2>1. Ascending(cursor[c].rest)'
    BY <1>2, <1>6 DEF Ascending
  <2> QED
    BY <1>2, <1>5, <1>6, <2>1 DEF Follows
<1>10. ASSUME NEW d \in Classes, d # c
       PROVE  Follows(cursor[d].rest, d)'
  <2>1. Follows(cursor[d].rest, d) /\ cursor'[d] = cursor[d] /\ wm'[d] = wm[d]
    BY <1>5, <1>6, <1>10 DEF MongoInv
  <2> QED
    BY <2>1 DEF Follows, Ascending
<1>11. \A d \in Classes : Follows(cursor[d].rest, d)'
  BY <1>9, <1>10
<1>12. MongoTypes'
  BY <1>4, <1>5, <1>6 DEF MongoInv, MongoTypes
<1>13. CoversGiven(wm)'
  BY <1>7 DEF CoversGiven
<1> QED
  BY <1>4, <1>8, <1>11, <1>12, <1>13 DEF MongoInv

(* The other rounds of next() move no mark; a cursor starts or ends.       *)
LEMMA NextKeeps ==
  ASSUME MongoInv, MongoNext, bound' = bound
  PROVE  MongoInv'
<1> DEFINE c == Head(cols)
<1>1. /\ c \in Classes /\ phase = "up" /\ Turn(c)
      /\ \/ StartsQuery(c) \/ StillQueries(c) \/ Exhausted(c)
         \/ NextDocument(c) \/ CursorFails(c)
      /\ UNCHANGED <<storeVars, avail, lifeVars>>
  BY DEF MongoNext, Up, MongoInv, MongoTypes
<1>2. cols' \in Seq(Classes)
  <2>1. cols \in Seq(Classes) /\ cols # <<>>
    BY DEF MongoNext, MongoInv, MongoTypes
  <2>2. Tail(cols) \in Seq(Classes)
    BY <2>1
  <2> QED
    BY <1>1, <2>2 DEF Turn
<1>3. UNCHANGED <<db, calls, avail, proc, phase>>
  BY <1>1 DEF storeVars, lifeVars
<1>4. CASE NextDocument(c)
  BY <1>1, <1>2, <1>3, <1>4, NextDocumentKeeps DEF storeVars
<1>5. CASE ~NextDocument(c)
  <2>1. UNCHANGED <<wm, given>>
    BY <1>1, <1>5 DEF StartsQuery, StillQueries, Exhausted, CursorFails, histVars
  <2>2. \/ UNCHANGED cursor
        \/ \E new \in Cursors : new.rest = <<>> /\ cursor' = [cursor EXCEPT ![c] = new]
    <3>1. /\ Querying \in Cursors /\ Querying.rest = <<>>
          /\ NoCursor \in Cursors /\ NoCursor.rest = <<>>
      BY DEF NoCursor, Querying, Cursors
    <3>2. \/ UNCHANGED cursor
          \/ cursor' = [cursor EXCEPT ![c] = Querying]
          \/ cursor' = [cursor EXCEPT ![c] = NoCursor]
      BY <1>1, <1>5 DEF StartsQuery, StillQueries, Exhausted, CursorFails
    <3> QED
      BY <3>1, <3>2
  <2>3. cursor \in [Classes -> Cursors]
    BY DEF MongoInv, MongoTypes
  <2>4. CASE UNCHANGED cursor
    <3>1. \A d \in Classes : Follows(cursor[d].rest, d)'
      BY <2>1, <2>4, StillFollows DEF MongoInv
    <3>2. MongoTypes' /\ StoreInv' /\ CoversGiven(wm)'
      BY <1>2, <1>3, <2>1, <2>4 DEF MongoInv, MongoTypes, StoreInv, CoversGiven, Covered
    <3> QED
      BY <1>1, <1>3, <3>1, <3>2 DEF MongoInv
  <2>5. ASSUME NEW new \in Cursors, new.rest = <<>>, cursor' = [cursor EXCEPT ![c] = new]
        PROVE  MongoInv'
    <3>1. /\ cursor' \in [Classes -> Cursors] /\ cursor'[c].rest = <<>>
          /\ \A d \in Classes : d # c => cursor'[d] = cursor[d]
      BY <1>1, <2>3, <2>5
    <3> HIDE DEF c
    <3>2. ASSUME NEW d \in Classes
          PROVE  Follows(cursor[d].rest, d)'
      <4>1. CASE d = c
        BY <3>1, <4>1 DEF Follows, Ascending
      <4>2. CASE d # c
        <5>1. Follows(cursor[d].rest, d) /\ cursor'[d] = cursor[d] /\ wm' = wm
          BY <2>1, <3>1, <4>2 DEF MongoInv
        <5> QED
          BY <5>1 DEF Follows, Ascending
      <4> QED
        BY <4>1, <4>2
    <3>3. MongoTypes' /\ StoreInv' /\ CoversGiven(wm)'
      BY <1>2, <1>3, <2>1, <3>1 DEF MongoInv, MongoTypes, StoreInv, CoversGiven, Covered
    <3> QED
      BY <1>1, <1>3, <3>2, <3>3 DEF MongoInv
  <2> QED
    BY <2>2, <2>4, <2>5
<1> QED
  BY <1>4, <1>5
-----------------------------------------------------------------------------
LEMMA MongoKeeps ==
  ASSUME MongoInv, MongoStep, bound' = bound
  PROVE  MongoInv'
<1> USE DEF Early
<1>1. ASSUME NEW CONSTANT r \in RefreshIds, FetchCollections(r)
      PROVE  Refreshes[r] \in Callers /\ Store(Refreshes[r]) /\ UNCHANGED db
  BY <1>1, Constants DEF FetchCollections
<1>2. CASE MongoStart
  <2>1. 1 \in RefreshIds
    BY MongoAssumption DEF RefreshIds
  <2> QED
    BY <1>1, <1>2, <2>1, Stores DEF MongoStart, histVars
<1>3. CASE MongoNext
  BY <1>3, NextKeeps
<1>4. CASE MongoPause
  BY <1>4, Stores, Constants DEF MongoPause, histVars, lifeVars
<1>5. CASE MongoResume
  BY <1>1, <1>5, Stores DEF MongoResume, histVars, lifeVars
<1>6. CASE MongoStop
  BY <1>6, Stores, Constants DEF MongoStop, histVars, NoCursors
<1>7. CASE \E c \in Classes : FetchData(c)
  BY <1>7, FetchDataKeeps
<1>8. ASSUME NEW CONSTANT r \in RefreshIds, CollectionsFetched(r)
      PROVE  MongoInv'
  <2>1. cols' \in Seq(Classes)
    BY <1>8, Constants DEF CollectionsFetched
  <2> QED
    BY <1>8, <2>1, Aside DEF CollectionsFetched, histVars, lifeVars, MongoInv, MongoTypes
<1>9. ASSUME NEW CONSTANT r \in RefreshIds, RefreshTimer(r)
      PROVE  MongoInv'
  BY <1>1, <1>9, Stores DEF RefreshTimer, histVars, lifeVars
<1> QED
  BY <1>2, <1>3, <1>4, <1>5, <1>6, <1>7, <1>8, <1>9 DEF MongoStep

LEMMA CommonKeeps ==
  ASSUME MongoInv, kind = "mongo", bound \in Worlds, Common, bound' = bound
  PROVE  MongoInv'
<1> USE DEF Early
<1>1. UNCHANGED familyVars /\ UNCHANGED <<cursor, cols>>
  BY DEF Common, familyVars, mongoVars
<1>2. /\ cols \in Seq(Classes) /\ avail \in 0..MaxItems /\ avail <= bound.items
  BY DEF MongoInv, MongoTypes
<1>3. CASE Arrive
  <2>1. bound.items \in 0..MaxItems /\ MaxItems \in Nat
    BY SourceAssumption
  <2>2. avail' \in 0..MaxItems /\ avail' <= bound'.items
    BY <1>2, <1>3, <2>1 DEF Arrive
  <2> QED
    BY <1>1, <1>2, <1>3, <2>2, Aside DEF Arrive, histVars, lifeVars
<1>4. CASE Configured \/ Saved \/ Ask
  BY <1>1, <1>2, <1>4, Aside DEF Configured, Saved, CalledBack, Ask, histVars, lifeVars
<1>5. CASE ServeStore(Saves)
  BY <1>1, <1>5, ServeKeeps
<1>6. CASE Configure
  BY <1>1, <1>6, ConfigureKeeps
<1> QED
  BY <1>3, <1>4, <1>5, <1>6 DEF Common

LEMMA InitHolds == Init => IInv
<1> SUFFICES ASSUME Init
             PROVE  IInv
  OBVIOUS
<1>1. /\ bound \in Worlds /\ kind = bound.kind /\ avail = 0 /\ proc = 0
      /\ db = Missing /\ calls = <<>> /\ wm = Upto(0)
      /\ cursor = NoCursors /\ cols = <<>>
  BY DEF Init, SourceInit, StoreInit, MongoInit, NoCursors
<1>2. bound.items \in 0..MaxItems /\ MaxItems \in Nat
  BY <1>1, SourceAssumption
<1>3. MongoTypes
  BY <1>1, <1>2, Constants, NoCursorsFollow DEF MongoTypes
<1>4. StoreInv /\ CoversGiven(wm)
  BY <1>1, CoveredFacts DEF StoreInv, CoversGiven
<1> QED
  BY <1>1, <1>3, <1>4, NoCursorsFollow DEF IInv, MongoInv, NoCursors

LEMMA NextHolds == IInv /\ [Next]_vars => IInv'
<1> SUFFICES ASSUME IInv, [Next]_vars
             PROVE  IInv'
  OBVIOUS
<1>1. CASE UNCHANGED vars
  <2>1. UNCHANGED <<sourceVars, cursor, cols>>
    BY <1>1 DEF vars, familyVars, mongoVars
  <2>2. UNCHANGED <<storeVars, lifeVars, avail, wm, given>>
    BY <2>1 DEF sourceVars, histVars
  <2>3. MongoInv => MongoInv'
    BY <2>1, <2>2, Aside DEF MongoInv, MongoTypes, lifeVars
  <2> QED
    BY <2>2, <2>3 DEF IInv, lifeVars
<1>2. CASE Next
  <2>1. UNCHANGED <<kind, bound>>
    BY <1>2, SqlKind, HttpKind, WindowsKind, KafkaKind, MongoKind, CommonKind
       DEF Next, Mongo, Sql, OfHttp, Windows, Kafka
  <2>2. ASSUME kind = "mongo"
        PROVE  MongoInv'
    <3>1. MongoInv /\ bound \in Worlds
      BY <2>2 DEF IInv
    <3>2. Common \/ MongoStep \/ Exit
      BY <1>2, <2>2 DEF Next, Mongo, Sql, OfHttp, Windows, Kafka, Http, Winpoll, Wevtutil
    <3> QED
      BY <2>1, <2>2, <3>1, <3>2, CommonKeeps, MongoKeeps, ExitKeeps
  <2> QED
    BY <2>1, <2>2 DEF IInv
<1> QED
  BY <1>1, <1>2

(* The marks of the mongo input, in memory, in the store and on their way  *)
(* there, cover only documents that were given, and every cursor goes on   *)
(* with the next document of its collection (mongo.js:76-190).             *)
THEOREM Invariance == Spec => []IInv
<1> QED
  BY InitHolds, NextHolds, PTL DEF Spec

(* The mongo input never stores a mark of a document that no process gave, *)
(* whatever is paused, stopped or killed, and in whatever order the store  *)
(* serves its saves (mongo.js:76-190, watermark.js).                       *)
THEOREM GivenBeforeStored == Spec => []MongoGivesFirst
<1>1. IInv => MongoGivesFirst
  <2>1. SUFFICES ASSUME IInv, kind = "mongo"
                 PROVE  Covered(Stored) \subseteq given
    BY DEF MongoGivesFirst
  <2>2. StoreInv /\ ~Wevtutil
    BY <2>1 DEF IInv, MongoInv, Wevtutil
  <2> QED
    BY <2>2, CoveredFacts DEF Stored, StoreInv, CoversGiven
<1> QED
  BY <1>1, Invariance, PTL
-----------------------------------------------------------------------------
(***************************************************************************)
(* The inputs with one mark for all items: what was seen is what some      *)
(* process read, whatever became of it.                                    *)
(***************************************************************************)
OneMark == kind \notin {"mongo", "winpollids", "wevtutilend"}
Seen == given \cup dropped \cup stray \cup ignored \cup Range(queue) \cup held

(* All items before one of s are in S or come earlier in s.                *)
Consecutive(s, S) ==
  \A j \in DOMAIN s : \A i \in Items :
    i < s[j] => i \in S \/ \E k \in 1..(j - 1) : s[k] = i

SourceTypes ==
  /\ avail \in 0..MaxItems /\ avail <= bound.items /\ proc \in Nat
  /\ db \in Marks \cup {Missing} /\ calls \in Seq(Call)
  /\ wm \in Marks /\ bookmark \in Marks
  /\ queue \in Seq(Items) /\ own \in Seq(Items)

MarksSeen ==
  /\ Covered(wm) \subseteq Seen /\ Covered(bookmark) \subseteq Seen
  /\ db # Missing => Covered(db) \subseteq Seen
  /\ \A k \in DOMAIN calls : Covered(calls[k].val) \subseteq Seen

(* The rows of a query, which the mark follows, leave none out.            *)
RowsFollow ==
  /\ reqs \in Seq(Query)
  /\ \A q \in DOMAIN reqs : Consecutive(reqs[q].rest, Seen)

(* So do the events that the program prints, from which its bookmark is    *)
(* made.                                                                   *)
EventsFollow ==
  /\ out \in Seq(Items) /\ Consecutive(out, Seen)
  /\ \A i \in Range(queue) \cup Range(own) : \A j \in Items : j <= i => j \in Seen

(* What httpsm is about to publish is published before it asks again; it   *)
(* runs no loop.                                                           *)
NoLoops == loop = [r \in 1..Loops |-> "off"] /\ timer = 0
PublishesFirst ==
  /\ reading = "asked" => asked = "await"
  /\ held # {} => reading = "publish" /\ asked = "await"
  /\ held # {} => \E i \in Items : held = {i}
  /\ NoLoops

OneMarkInv ==
  /\ SourceTypes /\ MarksSeen
  /\ kind = "sqlserver" => RowsFollow
  /\ kind = "wevtutil" => EventsFollow
  /\ kind = "httpsm" => PublishesFirst

(* winpoll runs no program.                                                *)
NoChild == kind = "winpoll" => child = "none"

SeenInv ==
  /\ bound \in Worlds /\ kind = bound.kind
  /\ OneMark => OneMarkInv
  /\ NoChild
-----------------------------------------------------------------------------
(* What is seen stays seen, and what follows it still does.                *)
LEMMA ConsecutiveGrows ==
  ASSUME NEW s, NEW S, NEW T, S \subseteq T, Consecutive(s, S)
  PROVE  Consecutive(s, T)
  BY DEF Consecutive

LEMMA ItemFacts ==
  /\ MaxItems \in Nat /\ Items = 1..MaxItems /\ \A i \in Items : i \in Nat
  /\ \A i \in Items : Upto(i) \in Marks /\ Covered(Upto(i)) = {j \in Items : j <= i}
  BY Constants DEF Items, Upto, Marks, Covered

LEMMA FirstOf ==
  ASSUME NEW s \in Seq(Items), NEW n \in Nat
  PROVE  /\ First(s, n) \in Seq(Items) /\ Len(First(s, n)) <= n
         /\ DOMAIN First(s, n) \subseteq DOMAIN s
         /\ \A j \in DOMAIN First(s, n) : First(s, n)[j] = s[j]
<1> DEFINE k == IF Len(s) < n THEN Len(s) ELSE n
<1>1. k \in Nat /\ k <= n /\ k <= Len(s) /\ Len(s) \in Nat
  OBVIOUS
<1> HIDE DEF k
<1>2. /\ SubSeq(s, 1, k) \in Seq(Items) /\ Len(SubSeq(s, 1, k)) = k
      /\ \A j \in 1..k : SubSeq(s, 1, k)[j] = s[j]
  BY <1>1
<1>3. First(s, n) = SubSeq(s, 1, k)
  BY DEF First, k
<1> QED
  BY <1>1, <1>2, <1>3

(* A read from a mark that covers only what is seen, in full or its first  *)
(* items: each is the next after what was seen and those before it.        *)
LEMMA ReadFrom ==
  ASSUME avail \in 0..MaxItems, NEW m \in Marks, NEW S, Covered(m) \subseteq S
  PROVE  /\ InOrder(Beyond(m)) \in Seq(Items)
         /\ Ascending(InOrder(Beyond(m))) /\ Consecutive(InOrder(Beyond(m)), S)
         /\ \A i \in Range(InOrder(Beyond(m))) : i \in Beyond(m)
<1> DEFINE B == Beyond(m)
           s == InOrder(B)
<1>1. /\ B \in SUBSET Items /\ \A i \in Items : i <= avail /\ i \notin S => i \in B
      /\ \A i \in B : i <= avail
  <2>1. B \in SUBSET Items /\ \A i \in B : i <= avail
    BY ItemFacts DEF Beyond
  <2>2. ASSUME NEW i \in Items, i <= avail, i \notin S
        PROVE  i \in B
    <3>1. ClassOf[i] \in Classes /\ m[ClassOf[i]] \in Nat /\ i \in Nat
      BY Constants, ItemFacts DEF Marks, Items
    <3>2. ~(i <= m[ClassOf[i]])
      BY <2>2 DEF Covered
    <3>3. i \in 1..avail
      BY <2>2, ItemFacts
    <3> QED
      BY <3>1, <3>2, <3>3 DEF Beyond
  <2> HIDE DEF B
  <2> QED
    BY <2>1, <2>2
<1> HIDE DEF B
<1>2. /\ s \in Seq(Items) /\ Ascending(s)
      /\ \A k \in DOMAIN s : s[k] \in B
      /\ \A i \in B : \E k \in DOMAIN s : s[k] = i
  BY <1>1, InOrderOf
<1> HIDE DEF s
<1>3. ASSUME NEW j \in DOMAIN s, NEW i \in Items, i < s[j], i \notin S
      PROVE  \E k \in 1..(j - 1) : s[k] = i
  <2>1. i \in Nat /\ s[j] \in Nat /\ s[j] <= avail /\ avail \in Nat
    BY <1>1, <1>2, ItemFacts
  <2>2. PICK k \in DOMAIN s : s[k] = i
    BY <1>1, <1>2, <1>3, <2>1
  <2>3. k \in Nat /\ j \in Nat /\ 1 <= k
    BY <1>2
  <2>4. k < j
    <3>1. SUFFICES ASSUME ~(k < j)
                   PROVE  FALSE
      OBVIOUS
    <3>2. CASE j < k
      BY <1>2, <1>3, <2>1, <2>2, <3>2 DEF Ascending
    <3>3. CASE j = k
      BY <1>3, <2>1, <2>2, <3>3
    <3> QED
      BY <2>3, <3>1, <3>2, <3>3
  <2> QED
    BY <2>2, <2>3, <2>4
<1>4. Consecutive(s, S)
  BY <1>3 DEF Consecutive
<1>5. \A i \in Range(s) : i \in B
  BY <1>2 DEF Range
<1> QED
  BY <1>2, <1>4, <1>5 DEF s, B

LEMMA ConsecutiveRange ==
  ASSUME NEW s \in Seq(Items), NEW S, Consecutive(s, S), NEW x \in Range(s)
  PROVE  x \in Items /\ Upto(x) \in Marks /\ Covered(Upto(x)) \subseteq S \cup Range(s)
<1>1. PICK j \in DOMAIN s : s[j] = x
  BY DEF Range
<1>2. x \in Items /\ x \in Nat
  BY <1>1, ItemFacts
<1>3. ASSUME NEW i \in Items, i <= x
      PROVE  i \in S \cup Range(s)
  <2>1. CASE i = x
    BY <2>1
  <2>2. CASE i < x /\ i \notin S
    <3>1. PICK k \in 1..(j - 1) : s[k] = i
      BY <1>1, <2>2 DEF Consecutive
    <3>2. k \in DOMAIN s
      BY <1>1
    <3> QED
      BY <3>1, <3>2 DEF Range
  <2> QED
    BY <1>2, <1>3, <2>1, <2>2, ItemFacts
<1> QED
  BY <1>2, <1>3, ItemFacts

LEMMA ConsecutiveHead ==
  ASSUME NEW s \in Seq(Items), NEW S, Consecutive(s, S), s # <<>>
  PROVE  /\ Head(s) \in Items /\ Tail(s) \in Seq(Items)
         /\ Upto(Head(s)) \in Marks
         /\ Covered(Upto(Head(s))) \subseteq S \cup {Head(s)}
         /\ Consecutive(Tail(s), S \cup {Head(s)})
         /\ Range(s) = {Head(s)} \cup Range(Tail(s))
<1> DEFINE h == Head(s)
           t == Tail(s)
<1>1. /\ Len(s) \in Nat \ {0} /\ DOMAIN s = 1..Len(s) /\ h = s[1] /\ h \in Items
      /\ t \in Seq(Items) /\ DOMAIN t = 1..(Len(s) - 1)
      /\ \A j \in 1..(Len(s) - 1) : t[j] = s[j + 1]
      /\ \A j \in 1..Len(s) : s[j] \in Items
  OBVIOUS
<1> HIDE DEF h, t
<1>2. ASSUME NEW i \in Items, i < h
      PROVE  i \in S
  <2>1. 1 \in DOMAIN s
    BY <1>1
  <2> QED
    BY <1>1, <1>2, <2>1 DEF Consecutive
<1>3. Upto(h) \in Marks /\ Covered(Upto(h)) \subseteq S \cup {h}
  <2>1. \A i \in Items : i <= h => i \in S \cup {h}
    BY <1>1, <1>2, ItemFacts
  <2> QED
    BY <1>1, <2>1, ItemFacts
<1>4. Consecutive(t, S \cup {h})
  <2>1. SUFFICES ASSUME NEW j \in 1..(Len(s) - 1), NEW i \in Items, i < t[j], i \notin S \cup {h}
                 PROVE  \E k \in 1..(j - 1) : t[k] = i
    BY <1>1 DEF Consecutive
  <2>2. j + 1 \in DOMAIN s /\ t[j] = s[j + 1] /\ (j + 1) - 1 = j
    BY <1>1
  <2>3. PICK k \in 1..j : s[k] = i
    BY <2>1, <2>2 DEF Consecutive
  <2>4. k # 1
    BY <1>1, <2>1, <2>3
  <2>5. k - 1 \in 1..(j - 1) /\ k - 1 \in 1..(Len(s) - 1) /\ (k - 1) + 1 = k
    BY <1>1, <2>3, <2>4
  <2>6. t[k - 1] = i
    BY <1>1, <2>3, <2>5
  <2> QED
    BY <2>5, <2>6
<1>5. Range(s) = {h} \cup Range(t)
  <2>1. \A x \in Range(s) : x = h \/ x \in Range(t)
    <3>1. SUFFICES ASSUME NEW j \in 1..Len(s), j # 1
                   PROVE  s[j] \in Range(t)
      BY <1>1 DEF Range
    <3>2. j - 1 \in 1..(Len(s) - 1) /\ (j - 1) + 1 = j
      BY <1>1, <3>1
    <3>3. t[j - 1] = s[j]
      BY <1>1, <3>2
    <3> QED
      BY <1>1, <3>2, <3>3 DEF Range
  <2>2. \A x \in Range(t) : x \in Range(s)
    <3>1. SUFFICES ASSUME NEW j \in 1..(Len(s) - 1)
                   PROVE  t[j] \in Range(s)
      BY <1>1 DEF Range
    <3>2. j + 1 \in 1..Len(s)
      BY <1>1, <3>1
    <3> QED
      BY <1>1, <3>2 DEF Range
  <2>3. h \in Range(s)
    <3>1. 1 \in DOMAIN s
      BY <1>1
    <3> QED
      BY <1>1, <3>1 DEF Range
  <2> QED
    BY <2>1, <2>2, <2>3
<1> QED
  BY <1>1, <1>3, <1>4, <1>5 DEF h, t

LEMMA RangeAppend ==
  ASSUME NEW s \in Seq(Items), NEW x \in Items
  PROVE  Append(s, x) \in Seq(Items) /\ Range(Append(s, x)) = Range(s) \cup {x}
<1> DEFINE t == Append(s, x)
<1>1. /\ t \in Seq(Items) /\ DOMAIN t = 1..(Len(s) + 1) /\ DOMAIN s = 1..Len(s)
      /\ Len(s) \in Nat /\ t[Len(s) + 1] = x /\ \A j \in 1..Len(s) : t[j] = s[j]
  OBVIOUS
<1> HIDE DEF t
<1>2. Range(t) \subseteq Range(s) \cup {x}
  <2>1. SUFFICES ASSUME NEW j \in 1..(Len(s) + 1)
                 PROVE  t[j] \in Range(s) \cup {x}
    BY <1>1 DEF Range
  <2>2. j \in 1..Len(s) \/ j = Len(s) + 1
    BY <1>1
  <2> QED
    BY <1>1, <2>2 DEF Range
<1>3. Range(s) \cup {x} \subseteq Range(t)
  <2>1. \A j \in 1..Len(s) : j \in 1..(Len(s) + 1)
    BY <1>1
  <2>2. Len(s) + 1 \in 1..(Len(s) + 1)
    BY <1>1
  <2> QED
    BY <1>1, <2>1, <2>2 DEF Range
<1> QED
  BY <1>1, <1>2, <1>3 DEF t

LEMMA RangeConcat ==
  ASSUME NEW s \in Seq(Items), NEW t \in Seq(Items)
  PROVE  s \o t \in Seq(Items) /\ Range(s \o t) = Range(s) \cup Range(t)
<1> DEFINE u == s \o t
           n == Len(s)
           k == Len(t)
<1>1. /\ u \in Seq(Items) /\ Len(u) = n + k
      /\ \A j \in 1 .. n + k : u[j] = IF j <= n THEN s[j] ELSE t[j - n]
  BY ConcatProperties
<1>2. n \in Nat /\ k \in Nat /\ DOMAIN s = 1..n /\ DOMAIN t = 1..k /\ DOMAIN u = 1..(n + k)
  BY <1>1
<1> HIDE DEF u, n, k
<1>3. Range(u) \subseteq Range(s) \cup Range(t)
  <2>1. SUFFICES ASSUME NEW j \in 1..(n + k)
                 PROVE  u[j] \in Range(s) \cup Range(t)
    BY <1>2 DEF Range
  <2>2. CASE j <= n
    <3>1. j \in 1..n /\ u[j] = s[j]
      BY <1>1, <1>2, <2>2
    <3> QED
      BY <1>2, <3>1 DEF Range
  <2>3. CASE j > n
    <3>1. j - n \in 1..k /\ u[j] = t[j - n]
      BY <1>1, <1>2, <2>3
    <3> QED
      BY <1>2, <3>1 DEF Range
  <2> QED
    BY <1>2, <2>2, <2>3
<1>4. Range(s) \subseteq Range(u)
  <2>1. \A j \in 1..n : j \in 1..(n + k) /\ u[j] = s[j]
    BY <1>1, <1>2
  <2> QED
    BY <1>2, <2>1 DEF Range
<1>5. Range(t) \subseteq Range(u)
  <2>1. ASSUME NEW j \in 1..k
        PROVE  n + j \in 1..(n + k) /\ u[n + j] = t[j]
    <3>1. n + j \in 1..(n + k) /\ ~(n + j <= n) /\ (n + j) - n = j
      BY <1>2
    <3> QED
      BY <1>1, <3>1
  <2> QED
    BY <1>2, <2>1 DEF Range
<1> QED
  BY <1>1, <1>3, <1>4, <1>5 DEF u
-----------------------------------------------------------------------------
(* Steps of a process that do not ask the store.                           *)
LEMMA Unstored ==
  ASSUME SourceTypes, MarksSeen, UNCHANGED <<db, calls, bookmark>>, Seen \subseteq Seen',
         avail' \in 0..MaxItems, avail' <= bound'.items, proc' \in Nat,
         wm' \in Marks, Covered(wm') \subseteq Seen', queue' \in Seq(Items),
         own' \in Seq(Items)
  PROVE  SourceTypes' /\ MarksSeen'
<1>1. SourceTypes'
  BY DEF SourceTypes
<1>2. /\ Covered(bookmark) \subseteq Seen'
      /\ db # Missing => Covered(db) \subseteq Seen'
      /\ \A k \in DOMAIN calls : Covered(calls[k].val) \subseteq Seen'
  BY DEF MarksSeen
<1> HIDE DEF Seen
<1>3. MarksSeen'
  BY <1>2 DEF MarksSeen, Covered
<1> QED
  BY <1>1, <1>3

(* Steps that save the mark.                                               *)
LEMMA Saves1 ==
  ASSUME SourceTypes, MarksSeen, NEW CONSTANT who \in Callers, Store(who),
         UNCHANGED <<db, bookmark, avail, bound, proc>>, Seen \subseteq Seen',
         wm' \in Marks, Covered(wm') \subseteq Seen', queue' \in Seq(Items), own' \in Seq(Items)
  PROVE  SourceTypes' /\ MarksSeen'
<1> DEFINE S == Seen'
<1>1. /\ Covered(bookmark) \subseteq S
      /\ db # Missing => Covered(db) \subseteq S
      /\ \A k \in DOMAIN calls : Covered(calls[k].val) \subseteq S
  BY DEF MarksSeen
<1>2. calls' = With(calls, "save", wm', who, proc)
  BY DEF Store, WithSave
<1> HIDE DEF S
<1>3. /\ calls' \in Seq(Call)
      /\ \A k \in DOMAIN calls' : Covered(calls'[k].val) \subseteq S
  <2>1. calls \in Seq(Call) /\ proc \in Nat
    BY DEF SourceTypes
  <2> DEFINE m == wm'
  <2>2. m \in Marks /\ Covered(m) \subseteq S
    BY DEF S
  <2> HIDE DEF m
  <2>3. /\ With(calls, "save", m, who, proc) \in Seq(Call)
        /\ \A k \in DOMAIN With(calls, "save", m, who, proc) :
             Covered(With(calls, "save", m, who, proc)[k].val) \subseteq S
    BY <1>1, <2>1, <2>2, AppendsCall
  <2> QED
    BY <1>2, <2>3 DEF m
<1>4. SourceTypes'
  BY <1>3 DEF SourceTypes
<1>5. MarksSeen'
  BY <1>1, <1>3 DEF MarksSeen, S, Covered
<1> QED
  BY <1>4, <1>5

(* The first of the queue is given: it is seen as before.                  *)
LEMMA GivesFirst ==
  ASSUME queue \in Seq(Items), own \in Seq(Items), GiveFirst, UNCHANGED <<held, stray, ignored>>
  PROVE  /\ Seen' = Seen /\ queue' \in Seq(Items) /\ own' \in Seq(Items)
         /\ Range(queue') \cup Range(own') \subseteq Range(queue) \cup Range(own)
<1> DEFINE h == Head(queue)
<1>1. /\ queue # <<>> /\ queue' = Tail(queue) /\ own' = Append(own, h)
      /\ given' = given \cup {h} /\ dropped' = dropped
  BY DEF GiveFirst, Give
<1>2. /\ h \in Items /\ Tail(queue) \in Seq(Items)
      /\ Range(queue) = {h} \cup Range(Tail(queue))
  <2>1. Consecutive(queue, Items)
    BY DEF Consecutive
  <2> QED
    BY <1>1, <2>1, ConsecutiveHead
<1>3. own' \in Seq(Items) /\ Range(own') = Range(own) \cup {h}
  BY <1>1, <1>2, RangeAppend
<1> HIDE DEF h
<1>4. Seen' = given' \cup dropped' \cup stray' \cup ignored' \cup Range(queue')
                \cup held'
  BY DEF Seen, Range
<1>5. Seen' = Seen
  BY <1>1, <1>2, <1>4 DEF Seen
<1> QED
  BY <1>1, <1>2, <1>3, <1>5

(* Items that come into the queue.                                         *)
LEMMA SeenMore ==
  ASSUME UNCHANGED <<given, dropped, stray, ignored, held>>, NEW CONSTANT X,
         Range(queue') = Range(queue) \cup X
  PROVE  Seen' = Seen \cup X
  BY DEF Seen, Range

LEMMA RowsStay ==
  ASSUME RowsFollow, UNCHANGED reqs, Seen \subseteq Seen'
  PROVE  RowsFollow'
<1> DEFINE S == Seen'
<1>1. \A q \in DOMAIN reqs : Consecutive(reqs[q].rest, S)
  BY ConsecutiveGrows DEF RowsFollow
<1> HIDE DEF S
<1>2. \A q \in DOMAIN reqs' : Consecutive(reqs'[q].rest, S)
  BY <1>1
<1> QED
  BY <1>2 DEF RowsFollow, S, Consecutive

LEMMA EventsStay ==
  ASSUME EventsFollow, UNCHANGED out, Seen \subseteq Seen',
         Range(queue') \cup Range(own') \subseteq Range(queue) \cup Range(own)
  PROVE  EventsFollow'
<1> DEFINE S == Seen'
<1>1. Consecutive(out, S)
  BY ConsecutiveGrows DEF EventsFollow
<1>2. Consecutive(out, Seen)'
  BY <1>1 DEF Consecutive
<1> QED
  BY <1>2 DEF EventsFollow, Range

(* Steps in which no item is read or given and no mark moves.              *)
LEMMA Steady ==
  ASSUME OneMarkInv, kind' = kind, avail' \in 0..MaxItems, avail' <= bound'.items,
         UNCHANGED <<storeVars, proc, wm, queue, held, histVars, stray, ignored, bookmark, out,
                     reqs>>,
         kind = "httpsm" => PublishesFirst'
  PROVE  OneMarkInv'
<1>1. UNCHANGED <<db, calls, given, dropped, own>> /\ Seen' = Seen
  BY DEF storeVars, histVars, Seen, Range
<1>2. SourceTypes' /\ MarksSeen'
  <2>1. /\ SourceTypes /\ MarksSeen /\ wm \in Marks /\ Covered(wm) \subseteq Seen
        /\ queue \in Seq(Items) /\ own \in Seq(Items) /\ proc \in Nat
    BY DEF OneMarkInv, SourceTypes, MarksSeen
  <2> QED
    BY <1>1, <2>1, Unstored
<1>3. kind = "sqlserver" => RowsFollow'
  BY <1>1, RowsStay DEF OneMarkInv
<1>4. kind = "wevtutil" => EventsFollow'
  BY <1>1, EventsStay DEF OneMarkInv, Range
<1> QED
  BY <1>2, <1>3, <1>4 DEF OneMarkInv

LEMMA Quiet ==
  ASSUME OneMarkInv, kind' = kind, avail' \in 0..MaxItems, avail' <= bound'.items,
         UNCHANGED <<storeVars, proc, wm, queue, held, reading, histVars, stray, ignored, bookmark,
                     out, reqs, loop, timer>>,
         asked' = asked \/ asked = "no"
  PROVE  OneMarkInv'
<1>1. kind = "httpsm" => PublishesFirst'
  BY DEF OneMarkInv, PublishesFirst, NoLoops
<1> QED
  BY <1>1, Steady

(* Steps that save the mark and do nothing else here.                      *)
LEMMA QuietSave ==
  ASSUME OneMarkInv, kind' = kind, NEW CONSTANT who \in Callers, Store(who),
         UNCHANGED <<db, bound, proc, avail, wm, queue, held, histVars, stray, ignored, bookmark>>,
         kind = "sqlserver" => RowsFollow', kind = "wevtutil" => EventsFollow',
         kind # "httpsm"
  PROVE  OneMarkInv'
<1>1. UNCHANGED <<given, dropped, own>> /\ Seen' = Seen
  BY DEF histVars, Seen, Range
<1>2. /\ SourceTypes /\ MarksSeen /\ wm' \in Marks /\ Covered(wm') \subseteq Seen
      /\ queue' \in Seq(Items) /\ own' \in Seq(Items)
  BY <1>1 DEF OneMarkInv, SourceTypes, MarksSeen
<1>3. SourceTypes' /\ MarksSeen'
  BY <1>1, <1>2, Saves1
<1> QED
  BY <1>3 DEF OneMarkInv
-----------------------------------------------------------------------------
LEMMA ConfigureSees ==
  ASSUME OneMarkInv, Configure, UNCHANGED familyVars
  PROVE  OneMarkInv'
<1>1. /\ UNCHANGED <<db, kind, bound, avail, wm, queue, held, asked, reading, given, dropped,
                     stray, ignored, bookmark, out, reqs, loop, timer>>
      /\ proc' = proc + 1 /\ own' = <<>> /\ calls' = With(calls, "get", Placeholder, "configure", proc')
  BY DEF Configure, familyVars, httpVars, windowsVars, sqlVars, kafkaVars, WithGet
<1>2. /\ calls \in Seq(Call) /\ proc' \in Nat
      /\ \A k \in DOMAIN calls : Covered(calls[k].val) \subseteq Seen
      /\ Placeholder \in Marks /\ Covered(Placeholder) \subseteq Seen /\ "configure" \in Callers
  BY <1>1, Constants, CoveredFacts DEF OneMarkInv, SourceTypes, MarksSeen
<1>3. Seen' = Seen
  BY <1>1 DEF Seen, Range
<1> HIDE DEF Seen
<1>4. /\ calls' \in Seq(Call)
      /\ \A k \in DOMAIN calls' : Covered(calls'[k].val) \subseteq Seen
  BY <1>1, <1>2, AppendsCall
<1>5. SourceTypes'
  BY <1>1, <1>2, <1>4 DEF OneMarkInv, SourceTypes
<1>6. MarksSeen'
  BY <1>1, <1>3, <1>4 DEF OneMarkInv, MarksSeen, Covered
<1>7. kind = "sqlserver" => RowsFollow'
  BY <1>1, <1>3, RowsStay DEF OneMarkInv
<1>8. kind = "wevtutil" => EventsFollow'
  <2>1. Range(own') = {}
    BY <1>1 DEF Range
  <2>2. Range(queue') = Range(queue)
    BY <1>1
  <2> QED
    BY <1>1, <1>3, <2>1, <2>2, EventsStay DEF OneMarkInv
<1>9. kind = "httpsm" => PublishesFirst'
  BY <1>1 DEF OneMarkInv, PublishesFirst, NoLoops
<1> QED
  BY <1>1, <1>5, <1>6, <1>7, <1>8, <1>9 DEF OneMarkInv

LEMMA ServeSees ==
  ASSUME OneMarkInv, ServeStore(Saves), UNCHANGED familyVars
  PROVE  OneMarkInv'
<1>1. PICK k \in DOMAIN calls :
        \/ ServeGet(k, Saves) /\ UNCHANGED answer
        \/ Save(k) /\ UNCHANGED <<phase, wm>>
  BY DEF ServeStore
<1>2. /\ UNCHANGED <<kind, bound, proc, avail, queue, held, asked, reading, own, given, dropped,
                     stray, ignored, bookmark, out, reqs, loop, timer>>
  BY DEF ServeStore, histVars, familyVars, httpVars, windowsVars, sqlVars, kafkaVars
<1>3. Seen' = Seen
  BY <1>2 DEF Seen, Range
<1> HIDE DEF Seen
<1>4. /\ SourceTypes /\ MarksSeen
      /\ calls \in Seq(Call) /\ \A j \in DOMAIN calls : Covered(calls[j].val) \subseteq Seen
      /\ db \in Marks \cup {Missing} /\ proc \in Nat
      /\ db # Missing => Covered(db) \subseteq Seen
      /\ wm \in Marks
      /\ Covered(wm) \subseteq Seen
  BY DEF OneMarkInv, SourceTypes, MarksSeen
<1>5. /\ calls' \in Seq(Call) /\ \A j \in DOMAIN calls' : Covered(calls'[j].val) \subseteq Seen
      /\ db' \in Marks \cup {Missing} /\ (db' # Missing => Covered(db') \subseteq Seen)
      /\ UNCHANGED wm \/ (wm' = db /\ db # Missing)
  BY <1>1, <1>4, Served
<1>6. wm' \in Marks /\ Covered(wm') \subseteq Seen
  BY <1>4, <1>5
<1>7. SourceTypes'
  BY <1>2, <1>4, <1>5, <1>6 DEF SourceTypes
<1>8. MarksSeen'
  BY <1>2, <1>3, <1>4, <1>5, <1>6 DEF MarksSeen, Covered
<1>9. kind = "sqlserver" => RowsFollow'
  BY <1>2, <1>3, RowsStay DEF OneMarkInv
<1>10. kind = "wevtutil" => EventsFollow'
  BY <1>2, <1>3, EventsStay DEF OneMarkInv, Range
<1>11. kind = "httpsm" => PublishesFirst'
  BY <1>2 DEF OneMarkInv, PublishesFirst, NoLoops
<1> QED
  BY <1>2, <1>7, <1>8, <1>9, <1>10, <1>11 DEF OneMarkInv

(* What a process had read and not given at its end is kept as dropped.    *)
LEMMA ExitSees ==
  ASSUME OneMarkInv, Exit
  PROVE  OneMarkInv'
<1>1. PICK n \in 0..Len(calls) : calls' = Surviving(n)
  BY DEF Exit, Die
<1>2. /\ UNCHANGED <<db, kind, avail, bound, proc, own, given, stray, ignored, bookmark>>
      /\ dropped' = dropped \cup Range(queue) \cup held
      /\ wm' = Upto(0) /\ queue' = <<>> /\ held' = {} /\ reading' = "no" /\ reqs' = <<>>
      /\ out' = <<>> /\ loop' = [r \in 1..Loops |-> "off"] /\ timer' = 0
  BY DEF Exit, Die, HttpReset, WindowsReset, SqlReset, KafkaReset
<1>3. Seen' = Seen
  <2>1. Range(queue') = {}
    BY <1>2 DEF Range
  <2>2. Seen' = given' \cup dropped' \cup stray' \cup ignored' \cup Range(queue')
                \cup held'
    BY DEF Seen, Range
  <2> QED
    BY <1>2, <2>1, <2>2 DEF Seen
<1> HIDE DEF Seen
<1>4. /\ SourceTypes /\ MarksSeen
      /\ calls \in Seq(Call) /\ \A j \in DOMAIN calls : Covered(calls[j].val) \subseteq Seen
  BY DEF OneMarkInv, SourceTypes, MarksSeen
<1>5. calls' \in Seq(Call) /\ \A j \in DOMAIN calls' : Covered(calls'[j].val) \subseteq Seen
  <2>1. /\ SubSeq(calls, 1, n) \in Seq(Call) /\ Len(SubSeq(calls, 1, n)) = n
        /\ \A j \in 1..n : SubSeq(calls, 1, n)[j] = calls[j]
    BY <1>4
  <2> QED
    BY <1>1, <1>4, <2>1 DEF Surviving
<1>6. SourceTypes'
  BY <1>2, <1>4, <1>5, Constants DEF SourceTypes
<1>7. MarksSeen'
  <2>1. Covered(wm') = {}
    BY <1>2, CoveredFacts
  <2> QED
    BY <1>2, <1>3, <1>4, <1>5, <2>1 DEF MarksSeen, Covered
<1>8. RowsFollow'
  BY <1>2 DEF RowsFollow
<1>9. kind = "wevtutil" => EventsFollow'
  <2>1. Range(queue') = {} /\ Range(own') = Range(own)
    BY <1>2 DEF Range
  <2> QED
    BY <1>2, <1>3, <2>1 DEF OneMarkInv, EventsFollow, Consecutive
<1>10. PublishesFirst'
  BY <1>2 DEF PublishesFirst, NoLoops
<1> QED
  BY <1>2, <1>6, <1>7, <1>8, <1>9, <1>10 DEF OneMarkInv
-----------------------------------------------------------------------------
(* The queries of sqlserver: one is changed, one more, one less.           *)
LEMMA RowsWith ==
  ASSUME NEW S, NEW rs \in Seq(Query), \A q \in DOMAIN rs : Consecutive(rs[q].rest, S),
         NEW new \in Query, Consecutive(new.rest, S)
  PROVE  /\ Append(rs, new) \in Seq(Query)
         /\ \A p \in DOMAIN Append(rs, new) : Consecutive(Append(rs, new)[p].rest, S)
         /\ \A q \in DOMAIN rs :
              /\ [rs EXCEPT ![q] = new] \in Seq(Query)
              /\ \A p \in DOMAIN [rs EXCEPT ![q] = new] :
                   Consecutive([rs EXCEPT ![q] = new][p].rest, S)
<1>1. DOMAIN rs = 1..Len(rs) /\ Len(rs) \in Nat
  OBVIOUS
<1>2. /\ Append(rs, new) \in Seq(Query) /\ DOMAIN Append(rs, new) = 1..(Len(rs) + 1)
      /\ \A p \in 1..Len(rs) : Append(rs, new)[p] = rs[p]
      /\ Append(rs, new)[Len(rs) + 1] = new
  OBVIOUS
<1>3. \A p \in DOMAIN Append(rs, new) : Consecutive(Append(rs, new)[p].rest, S)
  <2>1. SUFFICES ASSUME NEW p \in 1..(Len(rs) + 1)
                 PROVE  Consecutive(Append(rs, new)[p].rest, S)
    BY <1>2
  <2>2. p \in 1..Len(rs) \/ p = Len(rs) + 1
    BY <1>1
  <2> QED
    BY <1>1, <1>2, <2>2
<1>4. ASSUME NEW q \in DOMAIN rs
      PROVE  /\ [rs EXCEPT ![q] = new] \in Seq(Query)
             /\ \A p \in DOMAIN [rs EXCEPT ![q] = new] :
                  Consecutive([rs EXCEPT ![q] = new][p].rest, S)
  OBVIOUS
<1> QED
  BY <1>2, <1>3, <1>4

LEMMA SqlRest ==
  ASSUME RowsFollow, NEW q \in DOMAIN reqs
  PROVE  reqs[q] \in Query /\ reqs[q].rest \in Seq(Items) /\ Consecutive(reqs[q].rest, Seen)
<1>1. reqs[q] \in Query
  BY DEF RowsFollow
<1> QED
  BY <1>1 DEF RowsFollow, Query

(* A row is queued and is the mark.                                        *)
LEMMA RowSees ==
  ASSUME OneMarkInv, kind = "sqlserver", UNCHANGED <<kind, bound>>, NEW CONSTANT q \in DOMAIN reqs,
         Row(q), UNCHANGED <<stray, ignored, bookmark>>
  PROVE  OneMarkInv'
<1> DEFINE h == Head(reqs[q].rest)
           rest == reqs[q].rest
           new == [reqs[q] EXCEPT !.rest = Tail(rest)]
<1>1. /\ SourceTypes /\ MarksSeen /\ RowsFollow /\ rest # <<>>
      /\ reqs[q] \in Query /\ rest \in Seq(Items) /\ Consecutive(rest, Seen)
  BY SqlRest DEF OneMarkInv, Row
<1>2. /\ wm' = Upto(h) /\ queue' = Append(queue, h) /\ reqs' = [reqs EXCEPT ![q] = new]
      /\ UNCHANGED <<db, calls, avail, proc, held, given, dropped, own>>
  BY DEF Row, storeVars, lifeVars, histVars
<1>3. /\ h \in Items /\ Tail(rest) \in Seq(Items) /\ Upto(h) \in Marks
      /\ Covered(Upto(h)) \subseteq Seen \cup {h} /\ Consecutive(Tail(rest), Seen \cup {h})
  BY <1>1, ConsecutiveHead
<1>4. new \in Query /\ new.rest = Tail(rest)
  BY <1>1, <1>3 DEF Query
<1> HIDE DEF h, rest, new
<1>5. queue' \in Seq(Items) /\ Range(queue') = Range(queue) \cup {h}
  BY <1>1, <1>2, <1>3, RangeAppend DEF SourceTypes
<1>6. Seen' = Seen \cup {h}
  BY <1>2, <1>5 DEF Seen, Range
<1>7. SourceTypes' /\ MarksSeen'
  <2>1. /\ wm' \in Marks /\ Covered(wm') \subseteq Seen' /\ Seen \subseteq Seen'
        /\ queue' \in Seq(Items) /\ own' \in Seq(Items) /\ proc' \in Nat
        /\ avail' \in 0..MaxItems /\ avail' <= bound'.items
    BY <1>1, <1>2, <1>3, <1>5, <1>6 DEF SourceTypes
  <2> QED
    BY <1>1, <1>2, <2>1, Unstored
<1>8. RowsFollow'
  <2> DEFINE S == Seen \cup {h}
  <2>1. /\ reqs \in Seq(Query)
        /\ \A p \in DOMAIN reqs : Consecutive(reqs[p].rest, S)
    BY <1>1, ConsecutiveGrows DEF RowsFollow
  <2>2. Consecutive(new.rest, S)
    BY <1>3, <1>4
  <2> HIDE DEF S
  <2>3. reqs' \in Seq(Query) /\ \A p \in DOMAIN reqs' : Consecutive(reqs'[p].rest, S)
    BY <1>2, <1>4, <2>1, <2>2, RowsWith
  <2>4. Seen' = S
    BY <1>6 DEF S
  <2> QED
    BY <2>3, <2>4 DEF RowsFollow, Consecutive
<1> QED
  BY <1>7, <1>8 DEF OneMarkInv

LEMMA SqlNextSees ==
  ASSUME OneMarkInv, kind = "sqlserver", UNCHANGED <<kind, bound>>, SqlNext,
         UNCHANGED <<stray, ignored, bookmark>>
  PROVE  OneMarkInv'
<1>1. /\ SourceTypes /\ MarksSeen /\ RowsFollow
      /\ UNCHANGED <<db, calls, avail, proc, wm, held>>
  BY DEF OneMarkInv, SqlNext, storeVars, lifeVars
<1>2. /\ wm \in Marks /\ Covered(wm) \subseteq Seen /\ queue \in Seq(Items) /\ own \in Seq(Items)
      /\ avail \in 0..MaxItems /\ avail <= bound.items /\ proc \in Nat
  BY <1>1 DEF SourceTypes, MarksSeen
<1>3. CASE GiveFirst /\ UNCHANGED sqlVars
  <2>1. Seen' = Seen /\ queue' \in Seq(Items) /\ own' \in Seq(Items)
    BY <1>1, <1>2, <1>3, GivesFirst
  <2>2. SourceTypes' /\ MarksSeen'
    BY <1>1, <1>2, <2>1, Unstored
  <2>3. RowsFollow'
    BY <1>1, <1>3, <2>1, RowsStay DEF sqlVars
  <2> QED
    BY <2>2, <2>3 DEF OneMarkInv
<1>4. CASE StartQuery /\ UNCHANGED <<queue, asked, histVars>>
  <2> DEFINE s == InOrder(Beyond(wm))
             new == [rest |-> s, paused |-> FALSE]
  <2>1. UNCHANGED <<given, dropped, own, queue>> /\ reqs' = Append(reqs, new)
    BY <1>4 DEF histVars, StartQuery
  <2>2. Seen' = Seen
    BY <1>1, <2>1 DEF Seen, Range
  <2>3. s \in Seq(Items) /\ Consecutive(s, Seen)
    BY <1>2, ReadFrom
  <2> HIDE DEF s
  <2>4. new \in Query /\ new.rest = s
    BY <2>3 DEF Query
  <2> HIDE DEF new
  <2>5. SourceTypes' /\ MarksSeen'
    BY <1>1, <1>2, <2>1, <2>2, Unstored
  <2>6. RowsFollow'
    <3>1. reqs' \in Seq(Query) /\ \A p \in DOMAIN reqs' : Consecutive(reqs'[p].rest, Seen)
      BY <1>1, <2>1, <2>3, <2>4, RowsWith DEF RowsFollow
    <3> QED
      BY <2>2, <3>1 DEF RowsFollow, Consecutive
  <2> QED
    BY <2>5, <2>6 DEF OneMarkInv
<1> QED
  BY <1>3, <1>4 DEF SqlNext

(* A query ends, well or not: the mark is saved, what is left is left.     *)
LEMMA QueryEndSees ==
  ASSUME OneMarkInv, kind = "sqlserver", UNCHANGED <<kind, bound>>, NEW CONSTANT q \in DOMAIN reqs,
         Done(q) \/ QueryFails(q), UNCHANGED <<stray, ignored, bookmark>>
  PROVE  OneMarkInv'
<1>1. /\ RowsFollow /\ Store("done") /\ "done" \in Callers
      /\ UNCHANGED <<db, avail, proc, wm, queue, held, histVars>>
  BY Constants DEF OneMarkInv, Done, QueryFails, lifeVars
<1>2. Seen' = Seen
  BY <1>1 DEF Seen, Range, histVars
<1>3. reqs' \in Seq(Query) /\ \A p \in DOMAIN reqs' : Consecutive(reqs'[p].rest, Seen)
  <2>1. CASE Done(q)
    <3>1. reqs \in Seq(Query) /\ \A p \in DOMAIN reqs : Consecutive(reqs[p].rest, Seen)
      BY <1>1 DEF RowsFollow
    <3>2. reqs' = SubSeq(reqs, 1, q - 1) \o SubSeq(reqs, q + 1, Len(reqs))
      BY <2>1 DEF Done
    <3>3. /\ reqs' \in Seq(Query)
          /\ \A p \in DOMAIN reqs' : \E i \in DOMAIN reqs : reqs'[p] = reqs[i]
      BY <3>1, <3>2, WithoutOne
    <3> QED
      BY <3>1, <3>3
  <2>2. CASE QueryFails(q)
    <3> DEFINE new == [reqs[q] EXCEPT !.rest = <<>>]
    <3>1. reqs' = [reqs EXCEPT ![q] = new]
      BY <2>2 DEF QueryFails
    <3>2. new \in Query /\ new.rest = <<>>
      <4>1. <<>> \in Seq(Items) /\ reqs[q] \in Query
        BY <1>1, SqlRest
      <4> QED
        BY <4>1 DEF Query
    <3> HIDE DEF new
    <3>3. Consecutive(new.rest, Seen)
      BY <3>2 DEF Consecutive
    <3> QED
      BY <1>1, <3>1, <3>2, <3>3, RowsWith DEF RowsFollow
  <2> QED
    BY <2>1, <2>2
<1>4. RowsFollow'
  BY <1>2, <1>3 DEF RowsFollow, Consecutive
<1> QED
  BY <1>1, <1>4, QuietSave

LEMMA BacklogSees ==
  ASSUME OneMarkInv, kind = "sqlserver", UNCHANGED <<kind, bound>>, Backlog,
         UNCHANGED <<stray, ignored, bookmark>>
  PROVE  OneMarkInv'
<1>1. /\ RowsFollow /\ SourceTypes /\ MarksSeen
      /\ UNCHANGED <<db, calls, avail, proc, wm, queue, held, own, given, dropped>>
  BY DEF OneMarkInv, Backlog, sourceVars, storeVars, lifeVars, histVars
<1>2. Seen' = Seen
  BY <1>1 DEF Seen, Range
<1>3. SourceTypes' /\ MarksSeen'
  <2>1. /\ wm \in Marks /\ Covered(wm) \subseteq Seen /\ queue \in Seq(Items)
        /\ own \in Seq(Items) /\ avail \in 0..MaxItems /\ avail <= bound.items /\ proc \in Nat
    BY <1>1 DEF SourceTypes, MarksSeen
  <2> QED
    BY <1>1, <1>2, <2>1, Unstored
<1>4. PICK b \in BOOLEAN : reqs' = [reqs EXCEPT ![Len(reqs)].paused = b]
  BY DEF Backlog
<1>5. Len(reqs) \in DOMAIN reqs
  BY <1>1 DEF RowsFollow, Backlog
<1> DEFINE q == Len(reqs)
           new == [reqs[q] EXCEPT !.paused = b]
<1>6. reqs' = [reqs EXCEPT ![q] = new]
  BY <1>4
<1>7. new \in Query /\ new.rest = reqs[q].rest /\ q \in DOMAIN reqs
  BY <1>1, <1>5, SqlRest DEF Query
<1> HIDE DEF q, new
<1>8. reqs' \in Seq(Query) /\ \A p \in DOMAIN reqs' : Consecutive(reqs'[p].rest, Seen)
  BY <1>1, <1>6, <1>7, RowsWith DEF RowsFollow
<1>9. RowsFollow'
  BY <1>2, <1>8 DEF RowsFollow, Consecutive
<1> QED
  BY <1>3, <1>9 DEF OneMarkInv

LEMMA SqlSees ==
  ASSUME OneMarkInv, kind = "sqlserver", UNCHANGED <<kind, bound>>, SqlStep,
         UNCHANGED <<stray, ignored, bookmark, out, loop, timer>>
  PROVE  OneMarkInv'
<1>1. avail \in 0..MaxItems /\ avail <= bound.items
  BY DEF OneMarkInv, SourceTypes
<1>2. CASE SqlStart \/ QuerySaved \/ SqlPause \/ SqlStop
  BY <1>1, <1>2, Quiet DEF SqlStart, QuerySaved, SqlPause, SqlStop, sqlVars, lifeVars
<1>3. CASE SqlNext
  BY <1>3, SqlNextSees
<1>4. CASE Backlog
  BY <1>4, BacklogSees
<1>5. ASSUME NEW CONSTANT q \in DOMAIN reqs, Row(q) \/ Done(q) \/ QueryFails(q)
      PROVE  OneMarkInv'
  BY <1>5, RowSees, QueryEndSees
<1> QED
  BY <1>2, <1>3, <1>4, <1>5 DEF SqlStep
-----------------------------------------------------------------------------
(* A read of the first items beyond a mark.                                *)
LEMMA FirstFrom ==
  ASSUME avail \in 0..MaxItems, NEW m \in Marks, NEW S, Covered(m) \subseteq S, NEW n \in Nat
  PROVE  /\ First(InOrder(Beyond(m)), n) \in Seq(Items)
         /\ Len(First(InOrder(Beyond(m)), n)) <= n
         /\ Consecutive(First(InOrder(Beyond(m)), n), S)
<1> DEFINE s == InOrder(Beyond(m))
<1>1. s \in Seq(Items) /\ Consecutive(s, S)
  BY ReadFrom
<1> HIDE DEF s
<1> DEFINE f == First(s, n)
<1>2. /\ f \in Seq(Items) /\ Len(f) <= n /\ DOMAIN f \subseteq DOMAIN s
      /\ \A j \in DOMAIN f : f[j] = s[j]
  BY <1>1, FirstOf
<1> HIDE DEF f
<1>3. Consecutive(f, S)
  <2>1. SUFFICES ASSUME NEW j \in DOMAIN f, NEW i \in Items, i < f[j], i \notin S
                 PROVE  \E k \in 1..(j - 1) : f[k] = i
    BY DEF Consecutive
  <2>2. PICK k \in 1..(j - 1) : s[k] = i
    BY <1>1, <1>2, <2>1 DEF Consecutive
  <2>3. k \in DOMAIN f
    BY <1>2
  <2> QED
    BY <1>2, <2>2, <2>3
<1> QED
  BY <1>2, <1>3 DEF f, s

(* What is read is queued, and the mark is one of its items.               *)
Reads ==
  \E items \in Seq(Items) :
    /\ Consecutive(items, Seen)
    /\ queue' = queue \o items
    /\ wm' = wm \/ \E x \in Range(items) : wm' = Upto(x)

LEMMA ReadsSees ==
  ASSUME SourceTypes, MarksSeen, Reads, UNCHANGED <<given, dropped, stray, ignored, held>>
  PROVE  /\ Seen \subseteq Seen' /\ queue' \in Seq(Items)
         /\ wm' \in Marks /\ Covered(wm') \subseteq Seen'
<1>1. PICK items \in Seq(Items) :
        /\ Consecutive(items, Seen)
        /\ queue' = queue \o items
        /\ wm' = wm \/ \E x \in Range(items) : wm' = Upto(x)
  BY DEF Reads
<1>2. queue' \in Seq(Items) /\ Range(queue') = Range(queue) \cup Range(items)
  BY <1>1, RangeConcat DEF SourceTypes
<1>3. Seen' = Seen \cup Range(items)
  BY <1>2 DEF Seen, Range
<1>4. \A x \in Range(items) : Upto(x) \in Marks /\ Covered(Upto(x)) \subseteq Seen \cup Range(items)
  BY <1>1, ConsecutiveRange
<1> HIDE DEF Seen
<1>5. wm' \in Marks /\ Covered(wm') \subseteq Seen \cup Range(items)
  BY <1>1, <1>4 DEF SourceTypes, MarksSeen
<1> QED
  BY <1>2, <1>3, <1>5

LEMMA LastRead ==
  ASSUME NEW s \in Seq(Items), s # <<>>
  PROVE  Last(s) \in Range(s)
<1>1. Len(s) \in DOMAIN s
  OBVIOUS
<1> QED
  BY <1>1 DEF Last, Range

LEMMA AnswersSee ==
  ASSUME OneMarkInv, kind \in {"elastic", "http", "httppush"}, UNCHANGED <<kind, bound>>, Answers,
         UNCHANGED <<ignored, bookmark>>
  PROVE  OneMarkInv'
<1> DEFINE items == First(InOrder(Beyond(wm)), Batch)
<1>1. /\ SourceTypes /\ MarksSeen /\ wm \in Marks /\ Covered(wm) \subseteq Seen
      /\ avail \in 0..MaxItems /\ own \in Seq(Items)
  BY DEF OneMarkInv, SourceTypes, MarksSeen
<1>2. /\ Queued(items) /\ Store(Waiter)
      /\ UNCHANGED <<db, avail, proc, held, given, dropped, own, stray, ignored>>
  BY DEF Answers, ElasticAnswers, HttpAnswers, lifeVars, histVars, httpVars
<1>3. Waiter \in Callers
  BY Constants DEF Waiter
<1>4. items \in Seq(Items) /\ Consecutive(items, Seen)
  BY <1>1, FirstFrom, SourceAssumption
<1> HIDE DEF items
<1>5. Reads
  BY <1>2, <1>4, LastRead DEF Reads, Queued
<1>6. /\ Seen \subseteq Seen' /\ queue' \in Seq(Items)
      /\ wm' \in Marks /\ Covered(wm') \subseteq Seen'
  BY <1>1, <1>2, <1>5, ReadsSees
<1>7. SourceTypes' /\ MarksSeen'
  <2>1. PICK who \in Callers : Store(who)
    BY <1>2, <1>3
  <2> QED
    BY <1>1, <1>2, <1>6, <2>1, Saves1
<1> QED
  BY <1>7 DEF OneMarkInv

(* The loops of the push mode: an item that is given, to one callback or   *)
(* the other, was in the queue.                                            *)
LEMMA PushSees ==
  ASSUME OneMarkInv, Http, UNCHANGED <<kind, bound, ignored, bookmark, out, reqs>>, PushLoop
  PROVE  OneMarkInv'
<1>1. /\ SourceTypes /\ MarksSeen /\ wm \in Marks /\ Covered(wm) \subseteq Seen
      /\ avail \in 0..MaxItems /\ own \in Seq(Items) /\ queue \in Seq(Items) /\ proc \in Nat
      /\ avail <= bound.items
  BY DEF OneMarkInv, SourceTypes, MarksSeen
<1>2. UNCHANGED <<storeVars, db, calls, avail, proc, wm, held>>
  BY DEF PushLoop, storeVars, lifeVars
<1>3. PICK r \in 1..Loops : Sees(r) \/ Drain(r) \/ SetTimer(r) \/ LoopAgain(r)
  BY DEF PushLoop
<1>4. CASE Sees(r) \/ SetTimer(r) \/ LoopAgain(r)
  <2>1. UNCHANGED <<queue, histVars, stray, ignored>>
    BY <1>4 DEF Sees, SetTimer, LoopAgain
  <2>2. kind = "httpsm" => PublishesFirst'
    <3>1. kind = "httpsm" => loop[r] = "off"
      BY DEF OneMarkInv, PublishesFirst, NoLoops
    <3>2. UNCHANGED <<reading, asked>> \/ loop[r] = "timer"
      BY <1>4 DEF Sees, SetTimer, LoopAgain
    <3>3. CASE Sees(r)
      BY <3>1, <3>3 DEF Sees
    <3>4. CASE SetTimer(r)
      BY <3>1, <3>4 DEF SetTimer
    <3>5. CASE LoopAgain(r)
      BY <3>1, <3>5 DEF LoopAgain
    <3> QED
      BY <1>4, <3>3, <3>4, <3>5
  <2> QED
    BY <1>1, <1>2, <2>1, <2>2, Steady
<1>5. CASE Drain(r)
  <2>1. kind # "httpsm"
    BY <1>5 DEF OneMarkInv, PublishesFirst, NoLoops, Drain
  <2>2. Seen' = Seen /\ queue' \in Seq(Items) /\ own' \in Seq(Items)
    <3>1. CASE r = 1
      <4>1. GiveFirst /\ UNCHANGED <<held, stray, ignored>>
        BY <1>2, <1>5, <3>1 DEF Drain, GiveFirst
      <4> QED
        BY <1>1, <4>1, GivesFirst
    <3>2. CASE r # 1
      <4> DEFINE h == Head(queue)
      <4>1. /\ queue # <<>> /\ queue' = Tail(queue) /\ stray' = stray \cup {h}
            /\ UNCHANGED <<given, dropped, own>>
        BY <1>5, <3>2 DEF Drain, histVars
      <4>2. Tail(queue) \in Seq(Items) /\ Range(queue) = {h} \cup Range(Tail(queue))
        <5>1. Consecutive(queue, Items)
          BY <1>1 DEF Consecutive
        <5> QED
          BY <1>1, <4>1, <5>1, ConsecutiveHead
      <4> HIDE DEF h
      <4>3. Seen' = given' \cup dropped' \cup stray' \cup ignored' \cup Range(queue')
                \cup held'
        BY DEF Seen, Range
      <4>4. Seen' = Seen
        BY <1>2, <4>1, <4>2, <4>3 DEF Seen
      <4> QED
        BY <1>1, <4>1, <4>2, <4>4
    <3> QED
      BY <3>1, <3>2
  <2>3. SourceTypes' /\ MarksSeen'
    BY <1>1, <1>2, <2>2, Unstored
  <2> QED
    BY <2>1, <2>3 DEF OneMarkInv, Http
<1> QED
  BY <1>3, <1>4, <1>5

(* httpsm: the mark of an item is saved while the item is held for the     *)
(* stream.                                                                 *)
LEMMA SmAnswersSees ==
  ASSUME OneMarkInv, UNCHANGED <<kind, bound, ignored, bookmark, out, reqs>>, SmAnswers
  PROVE  OneMarkInv'
<1>1. /\ SourceTypes /\ MarksSeen /\ wm \in Marks /\ Covered(wm) \subseteq Seen
      /\ avail \in 0..MaxItems /\ own \in Seq(Items) /\ queue \in Seq(Items)
      /\ kind = "httpsm" /\ PublishesFirst /\ NoLoops
  BY DEF OneMarkInv, SourceTypes, MarksSeen, SmAnswers, PublishesFirst
<1>2. /\ UNCHANGED <<db, avail, proc, queue, given, dropped, own, stray, ignored, loop, timer,
                       asked>>
      /\ asked = "await" /\ held = {} /\ Store("next") /\ "next" \in Callers
  BY <1>1, Constants DEF SmAnswers, lifeVars, histVars, httpVars, PublishesFirst
<1>3. CASE reading' \in {"silent", "nomatch"} /\ UNCHANGED <<wm, held>>
  <2>1. Seen' = Seen
    BY <1>2, <1>3 DEF Seen, Range
  <2>2. SourceTypes' /\ MarksSeen'
    BY <1>1, <1>2, <1>3, <2>1, Saves1
  <2>3. PublishesFirst'
    BY <1>1, <1>2, <1>3 DEF PublishesFirst, NoLoops
  <2> QED
    BY <1>1, <2>2, <2>3 DEF OneMarkInv
<1>4. CASE ~(reading' \in {"silent", "nomatch"} /\ UNCHANGED <<wm, held>>)
  <2> DEFINE s == InOrder(Beyond(wm))
             i == Head(s)
  <2>1. /\ Beyond(wm) # {} /\ held' = {i} /\ wm' = Upto(i) /\ reading' = "publish"
    BY <1>4 DEF SmAnswers
  <2>2. s \in Seq(Items) /\ Consecutive(s, Seen)
    BY <1>1, ReadFrom
  <2>3. s # <<>>
    <3>1. Beyond(wm) \in SUBSET Items
      BY <1>1, ItemFacts DEF Beyond
    <3>2. \A x \in Beyond(wm) : \E k \in DOMAIN s : s[k] = x
      BY <3>1, InOrderOf
    <3> HIDE DEF s
    <3> QED
      BY <2>1, <3>2
  <2> HIDE DEF s
  <2>4. i \in Items /\ Upto(i) \in Marks /\ Covered(Upto(i)) \subseteq Seen \cup {i}
    BY <2>2, <2>3, ConsecutiveHead
  <2> HIDE DEF i
  <2>5. Seen' = Seen \cup {i}
    BY <1>2, <2>1 DEF Seen, Range
  <2>6. SourceTypes' /\ MarksSeen'
    <3>1. /\ wm' \in Marks /\ Covered(wm') \subseteq Seen' /\ Seen \subseteq Seen'
          /\ queue' \in Seq(Items) /\ own' \in Seq(Items)
      BY <1>1, <1>2, <2>1, <2>4, <2>5
    <3> QED
      BY <1>1, <1>2, <3>1, Saves1
  <2>7. PublishesFirst'
    BY <1>1, <1>2, <2>1, <2>4 DEF PublishesFirst, NoLoops
  <2> QED
    BY <1>1, <2>6, <2>7 DEF OneMarkInv
<1> QED
  BY <1>3, <1>4

LEMMA SmSavedSees ==
  ASSUME OneMarkInv, UNCHANGED <<kind, bound, ignored, bookmark, out, reqs>>, SmSaved
  PROVE  OneMarkInv'
<1>1. /\ SourceTypes /\ MarksSeen /\ wm \in Marks /\ Covered(wm) \subseteq Seen
      /\ avail \in 0..MaxItems /\ avail <= bound.items /\ own \in Seq(Items)
      /\ queue \in Seq(Items) /\ proc \in Nat
      /\ kind = "httpsm" /\ PublishesFirst /\ NoLoops
  BY DEF OneMarkInv, SourceTypes, MarksSeen, SmSaved, PublishesFirst
<1>2. /\ UNCHANGED <<storeVars, db, calls, avail, proc, wm, queue, stray, ignored, loop, timer>>
      /\ reading' = "no"
  BY DEF SmSaved, lifeVars, storeVars
<1>3. CASE reading = "publish" /\ (\E i \in held : Give(i)) /\ held' = {}
  <2>1. PICK i \in held : Give(i)
    BY <1>3
  <2>2. held = {i} /\ i \in Items
    BY <1>1, <2>1 DEF PublishesFirst
  <2>3. own' \in Seq(Items) /\ given' = given \cup {i} /\ dropped' = dropped
    BY <1>1, <2>1, <2>2 DEF Give
  <2>4. Seen' = Seen
    <3>1. Seen' = given' \cup dropped' \cup stray' \cup ignored' \cup Range(queue')
                \cup held'
      BY DEF Seen, Range
    <3>2. Range(queue') = Range(queue)
      BY <1>2
    <3> QED
      BY <1>2, <1>3, <2>2, <2>3, <3>1, <3>2 DEF Seen
  <2>5. SourceTypes' /\ MarksSeen'
    BY <1>1, <1>2, <2>3, <2>4, Unstored
  <2>6. PublishesFirst'
    BY <1>1, <1>2, <1>3 DEF PublishesFirst, NoLoops
  <2> QED
    BY <1>1, <2>5, <2>6 DEF OneMarkInv
<1>4. CASE reading \in {"silent", "nomatch"} /\ UNCHANGED <<held, histVars>>
  <2>1. PublishesFirst'
    BY <1>1, <1>2, <1>4 DEF PublishesFirst, NoLoops
  <2> QED
    BY <1>1, <1>2, <1>4, <2>1, Steady
<1> QED
  BY <1>3, <1>4 DEF SmSaved

(* No timer of httpsm is cleared, since it has none.                       *)
LEMMA ClearsNothing ==
  ASSUME NoLoops, HttpClear
  PROVE  loop' = loop
  BY DEF NoLoops, HttpClear

LEMMA HttpPauseSees ==
  ASSUME OneMarkInv, Http, UNCHANGED <<kind, bound, ignored, bookmark, out, reqs>>, HttpPause \/ HttpStop
  PROVE  OneMarkInv'
<1>1. /\ avail \in 0..MaxItems /\ avail <= bound.items
      /\ kind = "httpsm" => PublishesFirst /\ NoLoops
  BY DEF OneMarkInv, SourceTypes, PublishesFirst
<1>2. /\ UNCHANGED <<avail, proc, wm, queue, held, asked, reading, histVars, timer, stray, ignored>>
      /\ ElasticSaves("pause") \/ ElasticSaves("stop")
      /\ HttpClear
  BY DEF HttpPause, HttpStop, lifeVars
<1>3. CASE kind = "elastic"
  <2>1. PICK who \in Callers : Store(who) /\ UNCHANGED db
    BY <1>2, <1>3, Constants DEF ElasticSaves
  <2> QED
    BY <1>2, <1>3, <2>1, QuietSave
<1>4. CASE kind # "elastic"
  <2>1. UNCHANGED storeVars
    BY <1>2, <1>4 DEF ElasticSaves, NoStore
  <2>2. kind = "httpsm" => PublishesFirst'
    BY <1>1, <1>2, ClearsNothing DEF PublishesFirst, NoLoops
  <2> QED
    BY <1>1, <1>2, <2>1, <2>2, Steady
<1> QED
  BY <1>3, <1>4

LEMMA HttpSees ==
  ASSUME OneMarkInv, Http, UNCHANGED <<kind, bound, ignored, bookmark, out, reqs>>, HttpStep
  PROVE  OneMarkInv'
<1>1. /\ SourceTypes /\ MarksSeen /\ wm \in Marks /\ Covered(wm) \subseteq Seen
      /\ avail \in 0..MaxItems /\ avail <= bound.items /\ own \in Seq(Items)
      /\ queue \in Seq(Items) /\ proc \in Nat
      /\ kind = "httpsm" => PublishesFirst
  BY DEF OneMarkInv, SourceTypes, MarksSeen
<1>2. CASE StartHttp
  <2>1. kind = "httpsm" => PublishesFirst'
    BY <1>1, <1>2 DEF StartHttp, ElasticStart, HttpStart, HttpStartLoop, PublishesFirst, NoLoops
  <2> QED
    BY <1>1, <1>2, <2>1, Steady DEF StartHttp
<1>3. CASE HttpNext
  <2>1. /\ kind # "httpsm"
        /\ UNCHANGED <<storeVars, db, calls, avail, proc, wm, held, stray, ignored>>
    BY <1>3 DEF HttpNext, storeVars, lifeVars, httpVars
  <2>2. CASE GiveFirst
    <3>1. Seen' = Seen /\ queue' \in Seq(Items) /\ own' \in Seq(Items)
      BY <1>1, <2>1, <2>2, GivesFirst
    <3>2. SourceTypes' /\ MarksSeen'
      BY <1>1, <2>1, <3>1, Unstored
    <3> QED
      BY <2>1, <3>2 DEF OneMarkInv, Http
  <2>3. CASE UNCHANGED <<queue, histVars>>
    BY <1>1, <2>1, <2>3, Steady
  <2> QED
    BY <1>3, <2>2, <2>3 DEF HttpNext
<1>4. CASE Answers
  BY <1>4, AnswersSee DEF Answers, ElasticAnswers, HttpAnswers
<1>5. CASE Fails
  <2>1. /\ UNCHANGED <<avail, proc, wm, queue, held, histVars, stray, ignored>>
        /\ ElasticFails \/ HttpFails
    BY <1>5 DEF Fails, lifeVars
  <2>2. CASE ElasticFails
    <3>1. Waiter \in Callers /\ Store(Waiter) /\ UNCHANGED db /\ kind = "elastic"
      BY <2>2, Constants DEF ElasticFails, Waiter
    <3>2. PICK who \in Callers : Store(who)
      BY <3>1
    <3> QED
      BY <2>1, <3>1, <3>2, QuietSave
  <2>3. CASE HttpFails
    BY <1>1, <2>1, <2>3, Steady DEF HttpFails, NoStore
  <2> QED
    BY <2>1, <2>2, <2>3
<1>6. CASE Fetched
  BY <1>1, <1>6, Steady DEF Fetched, lifeVars
<1>7. CASE PushLoop
  BY <1>7, PushSees
<1>8. CASE SmNext \/ SmFails
  <2>1. kind = "httpsm" => PublishesFirst'
    BY <1>1, <1>8 DEF SmNext, SmFails, PublishesFirst, NoLoops, httpVars
  <2> QED
    BY <1>1, <1>8, <2>1, Steady DEF SmNext, SmFails, lifeVars, httpVars
<1>9. CASE SmAnswers \/ SmSaved
  BY <1>9, SmAnswersSees, SmSavedSees
<1>10. CASE HttpPause \/ HttpStop
  BY <1>10, HttpPauseSees
<1>11. CASE HttpResume
  <2>1. kind = "httpsm" => PublishesFirst'
    BY <1>1, <1>11 DEF HttpResume, PublishesFirst, NoLoops
  <2> QED
    BY <1>1, <1>11, <2>1, Steady DEF HttpResume, lifeVars
<1> QED
  BY <1>2, <1>3, <1>4, <1>5, <1>6, <1>7, <1>8, <1>9, <1>10, <1>11 DEF HttpStep
-----------------------------------------------------------------------------
(* A set of items has a last one.                                          *)
LEMMA LastOf ==
  ASSUME NEW S \in SUBSET Items, S # {}
  PROVE  \E i \in S : \A j \in S : j <= i
<1> DEFINE D == {MaxItems - i : i \in S}
<1>1. MaxItems \in Nat /\ \A i \in S : i \in Nat /\ i <= MaxItems
  BY ItemFacts
<1>2. D \subseteq Nat /\ D # {}
  BY <1>1
<1> HIDE DEF D
<1>3. PICK m \in D : \A n \in D : m <= n
  BY <1>2, Operators!LeastNatural
<1>4. PICK i \in S : m = MaxItems - i
  BY <1>3 DEF D
<1>5. ASSUME NEW j \in S
      PROVE  j <= i
  <2>1. MaxItems - i <= MaxItems - j
    BY <1>3, <1>4, <1>5 DEF D
  <2> QED
    BY <1>1, <2>1
<1> QED
  BY <1>5

(* A whole read fits into the queue of winpoll, which is twice as long.    *)
LEMMA AllOf ==
  ASSUME NEW s \in Seq(Items), NEW n \in Nat, Len(s) <= n
  PROVE  First(s, n) = s
<1>1. (IF Len(s) < n THEN Len(s) ELSE n) = Len(s)
  OBVIOUS
<1>2. SubSeq(s, 1, Len(s)) = s
  OBVIOUS
<1> QED
  BY <1>1, <1>2 DEF First

LEMMA WinpollReads ==
  ASSUME avail \in 0..MaxItems, wm \in Marks, queue = <<>>, WinpollRead(ReadAll)
  PROVE  /\ queue' = queue \o ReadAll
         /\ wm' = IF ReadAll = <<>> THEN wm ELSE Upto(MaxId(ReadAll))
         /\ Store("next") /\ UNCHANGED <<db, held>>
         /\ ReadAll # <<>> =>
              /\ MaxId(ReadAll) \in Range(ReadAll)
              /\ \A j \in Range(ReadAll) : j <= MaxId(ReadAll)
<1> DEFINE events == ReadAll
<1>1. events \in Seq(Items) /\ Len(events) <= ReadSize
  BY FirstFrom, WindowsAssumption DEF ReadAll
<1>2. WinpollRead(events)
  OBVIOUS
<1> HIDE DEF events
<1>3. Len(events) <= 2 * ReadSize /\ 2 * ReadSize \in Nat /\ ~(Len(events) > 2 * ReadSize)
  <2>1. Len(events) \in Nat /\ ReadSize \in Nat
    BY <1>1, WindowsAssumption
  <2> QED
    BY <1>1, <2>1
<1>4. queue' = events
  BY <1>1, <1>2, <1>3, AllOf DEF WinpollRead
<1>5. queue' = queue \o events
  BY <1>1, <1>4, ConcatEmptySeq
<1>6. ASSUME events # <<>>
      PROVE  /\ MaxId(events) \in Range(events)
             /\ \A j \in Range(events) : j <= MaxId(events)
  <2>1. Range(events) \in SUBSET Items
    BY <1>1 DEF Range
  <2>2. Range(events) # {}
    BY <1>1, <1>6, LastRead
  <2>3. \E i \in Range(events) : \A j \in Range(events) : j <= i
    BY <2>1, <2>2, LastOf
  <2> QED
    BY <2>3 DEF MaxId
<1>7. /\ wm' = IF events = <<>> THEN wm ELSE Upto(MaxId(events))
      /\ Store("next") /\ UNCHANGED <<db, held>>
  BY <1>2, <1>3 DEF WinpollRead
<1> QED
  BY <1>5, <1>6, <1>7 DEF events

LEMMA WinpollSees ==
  ASSUME OneMarkInv, kind = "winpoll", UNCHANGED <<kind, bound, stray, ignored, reqs>>, WinpollNext
  PROVE  OneMarkInv'
<1>1. /\ SourceTypes /\ MarksSeen /\ wm \in Marks /\ Covered(wm) \subseteq Seen
      /\ avail \in 0..MaxItems /\ avail <= bound.items /\ own \in Seq(Items)
      /\ queue \in Seq(Items) /\ proc \in Nat
  BY DEF OneMarkInv, SourceTypes, MarksSeen
<1>2. UNCHANGED <<avail, proc, bookmark, out>>
  BY DEF WinpollNext, lifeVars, windowsVars
<1>3. CASE GiveFirst /\ UNCHANGED <<storeVars, wm, held, faults>>
  <2>1. Seen' = Seen /\ queue' \in Seq(Items) /\ own' \in Seq(Items)
    BY <1>1, <1>3, GivesFirst
  <2>2. SourceTypes' /\ MarksSeen'
    BY <1>1, <1>2, <1>3, <2>1, Unstored DEF storeVars
  <2> QED
    BY <2>2 DEF OneMarkInv
<1>4. CASE queue = <<>> /\ WinpollRead(ReadAll) /\ UNCHANGED histVars
  <2> DEFINE events == ReadAll
  <2>1. events \in Seq(Items) /\ Consecutive(events, Seen)
    BY <1>1, FirstFrom, WindowsAssumption DEF ReadAll
  <2>2. /\ queue' = queue \o events
        /\ wm' = IF events = <<>> THEN wm ELSE Upto(MaxId(events))
        /\ Store("next") /\ UNCHANGED <<db, held>>
        /\ events # <<>> => MaxId(events) \in Range(events)
    BY <1>1, <1>4, WinpollReads
  <2> HIDE DEF events
  <2>3. Reads
    BY <2>1, <2>2 DEF Reads
  <2>4. /\ Seen \subseteq Seen' /\ queue' \in Seq(Items)
        /\ wm' \in Marks /\ Covered(wm') \subseteq Seen'
    BY <1>1, <1>4, <2>2, <2>3, ReadsSees DEF histVars
  <2>5. SourceTypes' /\ MarksSeen'
    BY <1>1, <1>2, <1>4, <2>2, <2>4, Saves1, Constants DEF histVars
  <2> QED
    BY <2>5 DEF OneMarkInv
<1>5. CASE UNCHANGED <<storeVars, wm, held, queue, histVars>>
  BY <1>1, <1>2, <1>5, Steady
<1> QED
  BY <1>3, <1>4, <1>5 DEF WinpollNext

(* Steps of wevtutil that change the bookmark or what is to be printed.    *)
LEMMA BookmarkSees ==
  ASSUME OneMarkInv, kind = "wevtutil", UNCHANGED <<kind, bound>>,
         UNCHANGED <<storeVars, avail, proc, wm, queue, held, histVars, stray, ignored>>,
         bookmark' \in Marks, Covered(bookmark') \subseteq Seen,
         out' \in Seq(Items), Consecutive(out', Seen)
  PROVE  OneMarkInv'
<1>1. UNCHANGED <<db, calls, given, dropped, own>> /\ Seen' = Seen
  BY DEF storeVars, histVars, Seen, Range
<1>2. SourceTypes /\ MarksSeen /\ EventsFollow
  BY DEF OneMarkInv
<1> HIDE DEF Seen
<1>3. SourceTypes'
  BY <1>1, <1>2 DEF SourceTypes
<1>4. MarksSeen'
  BY <1>1, <1>2 DEF MarksSeen, Covered
<1>5. EventsFollow'
  BY <1>1, <1>2 DEF EventsFollow, Consecutive, Range
<1> QED
  BY <1>3, <1>4, <1>5 DEF OneMarkInv

LEMMA LaunchSees ==
  ASSUME OneMarkInv, kind = "wevtutil", UNCHANGED <<kind, bound>>, NEW CONSTANT as, Launch(as),
         UNCHANGED <<storeVars, avail, proc, wm, queue, held, histVars, stray, ignored>>
  PROVE  OneMarkInv'
<1>1. /\ bookmark \in Marks /\ Covered(bookmark) \subseteq Seen /\ avail \in 0..MaxItems
      /\ Batch \in Nat
  BY SourceAssumption DEF OneMarkInv, SourceTypes, MarksSeen
<1>2. /\ out' = First(InOrder(Beyond(bookmark)), Batch) /\ bookmark' = bookmark
  BY DEF Launch
<1>3. out' \in Seq(Items) /\ Consecutive(out', Seen)
  BY <1>1, <1>2, FirstFrom
<1> QED
  BY <1>1, <1>2, <1>3, BookmarkSees

LEMMA PrintedSees ==
  ASSUME OneMarkInv, kind = "wevtutil", UNCHANGED <<kind, bound, stray, ignored, reqs>>, Printed
  PROVE  OneMarkInv'
<1> DEFINE h == Head(out)
<1>1. /\ SourceTypes /\ MarksSeen /\ EventsFollow /\ wm \in Marks /\ Covered(wm) \subseteq Seen
      /\ avail \in 0..MaxItems /\ avail <= bound.items /\ own \in Seq(Items)
      /\ queue \in Seq(Items) /\ proc \in Nat
      /\ out \in Seq(Items) /\ Consecutive(out, Seen)
  BY DEF OneMarkInv, SourceTypes, MarksSeen, EventsFollow
<1>2. /\ out # <<>> /\ queue' = Append(queue, h) /\ out' = Tail(out)
      /\ UNCHANGED <<db, calls, avail, proc, wm, held, given, dropped, own, bookmark>>
  BY DEF Printed, storeVars, lifeVars, histVars
<1>3. /\ h \in Items /\ out' \in Seq(Items)
      /\ Covered(Upto(h)) \subseteq Seen \cup {h} /\ Consecutive(out', Seen \cup {h})
  BY <1>1, <1>2, ConsecutiveHead
<1> HIDE DEF h
<1>4. queue' \in Seq(Items) /\ Range(queue') = Range(queue) \cup {h}
  BY <1>1, <1>2, <1>3, RangeAppend
<1>5. Seen' = Seen \cup {h}
  BY <1>2, <1>4 DEF Seen, Range
<1> HIDE DEF Seen
<1>6. SourceTypes' /\ MarksSeen'
  BY <1>1, <1>2, <1>4, <1>5, Unstored
<1>7. EventsFollow'
  <2>1. \A j \in Items : j <= h => j \in Seen \cup {h}
    BY <1>3, ItemFacts
  <2>2. \A i \in Range(queue) \cup Range(own) : \A j \in Items : j <= i => j \in Seen \cup {h}
    BY <1>1 DEF EventsFollow
  <2> DEFINE Q == Range(queue')
  <2>3. \A i \in Q \cup Range(own) : \A j \in Items : j <= i => j \in Seen \cup {h}
    BY <1>4, <2>1, <2>2
  <2>4. Consecutive(out, Seen)'
    BY <1>3, <1>5 DEF Consecutive
  <2>5. Range(queue)' = Q /\ Range(own)' = Range(own)
    BY <1>2 DEF Range
  <2> HIDE DEF Q
  <2> QED
    BY <1>3, <1>5, <2>3, <2>4, <2>5 DEF EventsFollow
<1> QED
  BY <1>6, <1>7 DEF OneMarkInv

(* The bookmark that the program writes is the last event that the process *)
(* read.                                                                   *)
LEMMA EndsSees ==
  ASSUME OneMarkInv, kind = "wevtutil", UNCHANGED <<kind, bound, stray, ignored, reqs>>, Ends
  PROVE  OneMarkInv'
<1> DEFINE new == Range(queue) \cup Range(own)
<1>1. /\ EventsFollow /\ bookmark \in Marks /\ Covered(bookmark) \subseteq Seen
      /\ queue \in Seq(Items) /\ own \in Seq(Items)
  BY DEF OneMarkInv, SourceTypes, MarksSeen
<1>2. new \in SUBSET Items
  BY <1>1 DEF Range
<1>3. /\ UNCHANGED <<storeVars, avail, proc, wm, queue, held, histVars, out>>
      /\ bookmark' = IF \E i \in new : i \in Beyond(bookmark)
                     THEN Upto(CHOOSE i \in new : \A j \in new : j <= i)
                     ELSE bookmark
  BY DEF Ends, sourceVars, lifeVars
<1>4. \A i \in new : \A j \in Items : j <= i => j \in Seen
  BY <1>1 DEF EventsFollow
<1> HIDE DEF new
<1>5. bookmark' \in Marks /\ Covered(bookmark') \subseteq Seen
  <2>1. CASE \E i \in new : i \in Beyond(bookmark)
    <3> DEFINE last == CHOOSE i \in new : \A j \in new : j <= i
    <3>1. last \in new
      <4>1. \E i \in new : \A j \in new : j <= i
        BY <1>2, <2>1, LastOf
      <4> QED
        BY <4>1
    <3>2. bookmark' = Upto(last)
      BY <1>3, <2>1
    <3> HIDE DEF last
    <3>3. last \in Items
      BY <1>2, <3>1
    <3> HIDE DEF Seen
    <3> QED
      BY <1>4, <3>1, <3>2, <3>3, ItemFacts
  <2>2. CASE ~\E i \in new : i \in Beyond(bookmark)
    BY <1>1, <1>3, <2>2
  <2> QED
    BY <2>1, <2>2
<1>6. out' \in Seq(Items) /\ Consecutive(out', Seen)
  BY <1>1, <1>3 DEF EventsFollow
<1> QED
  BY <1>3, <1>5, <1>6, BookmarkSees

LEMMA WindowsPauseSees ==
  ASSUME OneMarkInv, kind \in {"winpoll", "wevtutil"},
         UNCHANGED <<kind, bound, stray, ignored, reqs>>,
         WindowsPause \/ WindowsStop
  PROVE  OneMarkInv'
<1>1. avail \in 0..MaxItems /\ avail <= bound.items
  BY DEF OneMarkInv, SourceTypes
<1>2. /\ UNCHANGED <<avail, proc, wm, queue, held, histVars, bookmark, out>>
      /\ WevtutilSaves("pause") \/ WevtutilSaves("stop")
  BY DEF WindowsPause, WindowsStop, lifeVars, windowsVars
<1>3. CASE Wevtutil
  <2>1. PICK who \in Callers : Store(who) /\ UNCHANGED db
    BY <1>2, <1>3, Constants DEF WevtutilSaves
  <2>2. kind = "wevtutil"
    BY <1>3 DEF Wevtutil
  <2>3. EventsFollow'
    BY <1>2, <2>2, EventsStay DEF OneMarkInv, Seen, Range, histVars
  <2> QED
    BY <1>2, <2>1, <2>2, <2>3, QuietSave
<1>4. CASE ~Wevtutil
  BY <1>1, <1>2, <1>4, Steady DEF WevtutilSaves, NoStore
<1> QED
  BY <1>3, <1>4

LEMMA WindowsSees ==
  ASSUME OneMarkInv, NoChild, kind \in {"winpoll", "wevtutil"},
         UNCHANGED <<kind, bound, stray, ignored, reqs>>, WindowsStep
  PROVE  OneMarkInv'
<1>1. /\ SourceTypes /\ MarksSeen /\ wm \in Marks /\ Covered(wm) \subseteq Seen
      /\ avail \in 0..MaxItems /\ avail <= bound.items /\ own \in Seq(Items)
      /\ queue \in Seq(Items) /\ proc \in Nat
      /\ bookmark \in Marks /\ Covered(bookmark) \subseteq Seen
      /\ kind = "wevtutil" => out \in Seq(Items) /\ Consecutive(out, Seen)
  BY DEF OneMarkInv, SourceTypes, MarksSeen, EventsFollow
<1>2. kind = "winpoll" => child = "none"
  BY DEF NoChild
<1>3. CASE WinpollStart \/ WinpollSaved \/ WevtutilFetched \/ WindowsResume
  BY <1>1, <1>3, Steady
     DEF WinpollStart, WinpollSaved, WevtutilFetched, WindowsResume, windowsVars, lifeVars
<1>4. CASE WinpollNext
  <2>1. kind = "winpoll"
    BY <1>4 DEF WinpollNext, Winpoll
  <2> QED
    BY <1>4, <2>1, WinpollSees
<1>5. CASE WevtutilStart
  <2>1. kind = "wevtutil"
    BY <1>5 DEF WevtutilStart, Wevtutil
  <2> QED
    BY <1>5, <2>1, LaunchSees DEF WevtutilStart
<1>6. CASE WevtutilNext
  <2>1. /\ kind = "wevtutil"
        /\ UNCHANGED <<storeVars, db, calls, avail, proc, wm, held>>
    BY <1>6 DEF WevtutilNext, Wevtutil, storeVars, lifeVars
  <2>2. CASE GiveFirst /\ UNCHANGED windowsVars
    <3>1. /\ Seen' = Seen /\ queue' \in Seq(Items) /\ own' \in Seq(Items)
          /\ Range(queue') \cup Range(own') \subseteq Range(queue) \cup Range(own)
      BY <1>1, <2>1, <2>2, GivesFirst
    <3>2. UNCHANGED <<bookmark, out>>
      BY <2>2 DEF windowsVars
    <3>3. SourceTypes' /\ MarksSeen'
      BY <1>1, <2>1, <3>1, <3>2, Unstored
    <3>4. EventsFollow'
      BY <2>1, <3>1, <3>2, EventsStay DEF OneMarkInv
    <3> QED
      BY <2>1, <3>3, <3>4 DEF OneMarkInv
  <2>3. CASE FetchEvents /\ UNCHANGED <<queue, histVars>>
    <3>1. CASE Launch("asked")
      BY <2>1, <2>3, <3>1, LaunchSees
    <3>2. CASE UNCHANGED windowsVars
      BY <1>1, <2>1, <2>3, <3>2, Steady DEF windowsVars
    <3> QED
      BY <2>3, <3>1, <3>2 DEF FetchEvents
  <2>4. CASE UNCHANGED <<queue, histVars, reading, windowsVars>>
    BY <1>1, <2>1, <2>4, Steady DEF windowsVars
  <2> QED
    BY <1>6, <2>2, <2>3, <2>4 DEF WevtutilNext
<1>7. CASE Printed
  BY <1>2, <1>7, PrintedSees DEF Printed
<1>8. CASE Ends
  BY <1>2, <1>8, EndsSees DEF Ends
<1>9. CASE EndsBadly \/ Kill
  <2>1. /\ kind = "wevtutil" /\ out' \in {out, <<>>}
        /\ UNCHANGED <<storeVars, avail, proc, wm, queue, held, histVars, bookmark>>
    BY <1>2, <1>9 DEF EndsBadly, Kill, Wevtutil, lifeVars
  <2>2. <<>> \in Seq(Items) /\ Consecutive(<<>>, Seen)
    BY DEF Consecutive
  <2>3. out' \in Seq(Items) /\ Consecutive(out', Seen)
    BY <1>1, <2>1, <2>2
  <2> QED
    BY <1>1, <2>1, <2>3, BookmarkSees
<1>10. CASE SetupReset \/ SetupFails
  <2>1. /\ kind = "wevtutil" /\ bookmark' = Upto(0)
        /\ UNCHANGED <<storeVars, avail, proc, wm, queue, held, histVars, out>>
    BY <1>2, <1>10 DEF SetupReset, SetupFails, sourceVars, lifeVars
  <2>2. bookmark' \in Marks /\ Covered(bookmark') \subseteq Seen
    BY <2>1, Constants, CoveredFacts
  <2> QED
    BY <1>1, <2>1, <2>2, BookmarkSees
<1>11. CASE EndFetch
  <2>1. /\ kind = "wevtutil"
        /\ UNCHANGED <<db, avail, proc, wm, queue, held, histVars, bookmark, out>>
    BY <1>2, <1>11 DEF EndFetch, lifeVars
  <2>2. PICK who \in Callers : Store(who)
    BY <1>11, Constants DEF EndFetch
  <2>3. EventsFollow'
    BY <2>1, EventsStay DEF OneMarkInv, Seen, Range, histVars
  <2> QED
    BY <2>1, <2>2, <2>3, QuietSave
<1>12. CASE WindowsPause \/ WindowsStop
  BY <1>12, WindowsPauseSees
<1> QED
  BY <1>3, <1>4, <1>5, <1>6, <1>7, <1>8, <1>9, <1>10, <1>11, <1>12 DEF WindowsStep

LEMMA NoChildKept ==
  ASSUME NoChild, kind' = kind, WindowsStep
  PROVE  NoChild'
<1>1. SUFFICES ASSUME kind = "winpoll", child = "none"
               PROVE  child' = "none"
  BY DEF NoChild
<1>2. ~Wevtutil
  BY <1>1 DEF Wevtutil
<1> QED
  BY <1>1, <1>2 DEF WindowsStep, WinpollStart, WinpollNext, WinpollSaved, WevtutilStart,
     WevtutilNext, Printed, Ends, EndsBadly, SetupReset, SetupFails, EndFetch,
     WevtutilFetched, Kill, WindowsPause, WindowsResume, WindowsStop, windowsVars
-----------------------------------------------------------------------------
(* The library of kafka: the offset that it resolves is that of the last   *)
(* message of a batch.                                                     *)
LEMMA KafkaSees ==
  ASSUME OneMarkInv, kind = "kafka", UNCHANGED <<kind, bound, stray, bookmark, out, reqs>>,
         KafkaConfigure \/ KafkaStep
  PROVE  OneMarkInv'
<1> DEFINE batch == First(InOrder(Beyond(wm)), Batch)
<1>1. /\ SourceTypes /\ MarksSeen /\ wm \in Marks /\ Covered(wm) \subseteq Seen
      /\ avail \in 0..MaxItems /\ avail <= bound.items /\ own \in Seq(Items)
      /\ queue \in Seq(Items) /\ proc \in Nat
      /\ db \in Marks \cup {Missing} /\ calls \in Seq(Call)
  BY DEF OneMarkInv, SourceTypes, MarksSeen
<1>2. batch \in Seq(Items) /\ Consecutive(batch, Seen)
  BY <1>1, FirstFrom, SourceAssumption
<1>3. ASSUME UNCHANGED <<db, calls, avail, own, held, given, dropped, queue, ignored>>, proc' \in Nat,
             wm' = IF db = Missing THEN Upto(0) ELSE db
      PROVE  SourceTypes' /\ MarksSeen'
  <2>1. Seen' = Seen
    BY <1>3 DEF Seen, Range
  <2>2. wm' \in Marks /\ Covered(wm') \subseteq Seen'
    BY <1>1, <1>3, <2>1, Constants, CoveredFacts DEF MarksSeen
  <2> QED
    BY <1>1, <1>3, <2>1, <2>2, Unstored
<1>4. CASE KafkaConfigure
  <2>1. /\ UNCHANGED <<db, calls, avail, held, given, dropped, queue, wm, ignored>>
        /\ proc' = proc + 1 /\ own' = <<>>
    BY <1>4 DEF KafkaConfigure, storeVars, kafkaVars
  <2>2. Seen' = Seen /\ own' \in Seq(Items) /\ proc' \in Nat
    BY <1>1, <2>1 DEF Seen, Range
  <2>3. SourceTypes' /\ MarksSeen'
    BY <1>1, <2>1, <2>2, Unstored
  <2> QED
    BY <2>3 DEF OneMarkInv
<1>5. CASE KafkaStart \/ Reconnect
  <2>1. SourceTypes' /\ MarksSeen'
    BY <1>1, <1>3, <1>5 DEF KafkaStart, Reconnect, storeVars, histVars, lifeVars
  <2> QED
    BY <2>1 DEF OneMarkInv
<1>6. CASE EachBatch
  <2>1. /\ batch # <<>> /\ queue' = queue \o batch /\ wm' = Upto(Last(batch))
        /\ UNCHANGED <<db, calls, avail, proc, held, given, dropped, own, ignored>>
    BY <1>6 DEF EachBatch, storeVars, histVars, lifeVars
  <2> HIDE DEF batch
  <2>2. Reads
    BY <1>2, <2>1, LastRead DEF Reads
  <2>3. /\ Seen \subseteq Seen' /\ queue' \in Seq(Items)
        /\ wm' \in Marks /\ Covered(wm') \subseteq Seen'
    BY <1>1, <2>1, <2>2, ReadsSees
  <2>4. SourceTypes' /\ MarksSeen'
    BY <1>1, <2>1, <2>3, Unstored
  <2> QED
    BY <2>4 DEF OneMarkInv
<1>7. CASE BatchIgnored
  <2>1. /\ batch # <<>> /\ ignored' = ignored \cup Range(batch) /\ wm' = Upto(Last(batch))
        /\ UNCHANGED <<db, calls, avail, proc, queue, held, given, dropped, own>>
    BY <1>7 DEF BatchIgnored, storeVars, histVars, lifeVars
  <2> HIDE DEF batch
  <2>2. /\ Upto(Last(batch)) \in Marks
        /\ Covered(Upto(Last(batch))) \subseteq Seen \cup Range(batch)
    BY <1>2, <2>1, LastRead, ConsecutiveRange
  <2>3. Seen' = Seen \cup Range(batch)
    BY <2>1 DEF Seen, Range
  <2>4. SourceTypes' /\ MarksSeen'
    BY <1>1, <2>1, <2>2, <2>3, Unstored
  <2> QED
    BY <2>4 DEF OneMarkInv
<1>8. CASE Commit
  <2>1. /\ UNCHANGED <<calls, avail, proc, wm, held, given, dropped, own, queue, ignored>>
        /\ db' = wm
    BY <1>8 DEF Commit, histVars, lifeVars, kafkaVars
  <2>2. Seen' = Seen
    BY <2>1 DEF Seen, Range
  <2> HIDE DEF Seen
  <2>3. SourceTypes'
    BY <1>1, <2>1 DEF SourceTypes
  <2>4. MarksSeen'
    BY <1>1, <2>1, <2>2 DEF MarksSeen, Covered
  <2> QED
    BY <2>3, <2>4 DEF OneMarkInv
<1>9. CASE KafkaNext
  <2>1. GiveFirst /\ UNCHANGED <<db, calls, avail, proc, wm, held, ignored>>
    BY <1>9 DEF KafkaNext, storeVars, lifeVars, kafkaVars
  <2>2. Seen' = Seen /\ queue' \in Seq(Items) /\ own' \in Seq(Items)
    BY <1>1, <2>1, GivesFirst
  <2>3. SourceTypes' /\ MarksSeen'
    BY <1>1, <2>1, <2>2, Unstored
  <2> QED
    BY <2>3 DEF OneMarkInv
<1>10. CASE BatchEnds \/ Ival \/ KafkaPause \/ KafkaResume \/ KafkaStop \/ Disconnect
  <2>1. UNCHANGED <<storeVars, avail, proc, wm, queue, held, histVars, ignored>>
    BY <1>10 DEF BatchEnds, Ival, KafkaPause, KafkaResume, KafkaStop, Disconnect, sourceVars,
       lifeVars
  <2> QED
    BY <1>1, <2>1, Steady
<1> QED
  BY <1>4, <1>5, <1>6, <1>7, <1>8, <1>9, <1>10 DEF KafkaStep
-----------------------------------------------------------------------------
LEMMA CommonSees ==
  ASSUME OneMarkInv, bound \in Worlds, UNCHANGED <<kind, bound>>, Common
  PROVE  OneMarkInv'
<1>1. /\ UNCHANGED familyVars
      /\ UNCHANGED <<stray, ignored, bookmark, out, reqs, loop, timer>>
  BY DEF Common, familyVars, sqlVars, httpVars, windowsVars, kafkaVars
<1>2. avail \in 0..MaxItems /\ avail <= bound.items
  BY DEF OneMarkInv, SourceTypes
<1>3. CASE Arrive
  <2>1. bound.items \in 0..MaxItems /\ MaxItems \in Nat
    BY SourceAssumption
  <2>2. avail' \in 0..MaxItems /\ avail' <= bound'.items
    BY <1>2, <1>3, <2>1 DEF Arrive
  <2> QED
    BY <1>1, <1>3, <2>2, Quiet DEF Arrive, lifeVars
<1>4. CASE Configured \/ Saved \/ Ask
  BY <1>1, <1>2, <1>4, Quiet DEF Configured, Saved, CalledBack, Ask, lifeVars
<1>5. CASE ServeStore(Saves)
  BY <1>1, <1>5, ServeSees
<1>6. CASE Configure
  BY <1>1, <1>6, ConfigureSees
<1> QED
  BY <1>3, <1>4, <1>5, <1>6 DEF Common

LEMMA SeenInitHolds == Init => SeenInv
<1> SUFFICES ASSUME Init
             PROVE  SeenInv
  OBVIOUS
<1>1. /\ bound \in Worlds /\ kind = bound.kind /\ avail = 0 /\ proc = 0
      /\ db = Missing /\ calls = <<>> /\ wm = Upto(0) /\ bookmark = Upto(0)
      /\ queue = <<>> /\ own = <<>> /\ held = {} /\ reading = "no"
      /\ reqs = <<>> /\ out = <<>> /\ child = "none" /\ NoLoops
  BY DEF Init, SourceInit, StoreInit, SqlInit, WindowsInit, HttpInit, NoLoops
<1>2. bound.items \in 0..MaxItems /\ MaxItems \in Nat
  BY <1>1, SourceAssumption
<1>3. SourceTypes
  BY <1>1, <1>2, Constants DEF SourceTypes
<1>4. MarksSeen
  BY <1>1, CoveredFacts DEF MarksSeen
<1>5. RowsFollow /\ EventsFollow /\ PublishesFirst
  BY <1>1 DEF RowsFollow, EventsFollow, PublishesFirst, Consecutive, Range
<1> QED
  BY <1>1, <1>3, <1>4, <1>5 DEF SeenInv, OneMarkInv, NoChild

LEMMA SeenNextHolds == SeenInv /\ [Next]_vars => SeenInv'
<1> SUFFICES ASSUME SeenInv, [Next]_vars
             PROVE  SeenInv'
  OBVIOUS
<1>1. CASE UNCHANGED vars
  <2>1. /\ UNCHANGED <<storeVars, avail, kind, bound, proc, wm, queue, held, asked, reading, histVars>>
        /\ UNCHANGED <<stray, ignored, bookmark, child, out, reqs, loop, timer>>
    BY <1>1 DEF vars, familyVars, sourceVars, lifeVars, sqlVars, httpVars, windowsVars,
       kafkaVars
  <2>2. OneMarkInv => OneMarkInv'
    BY <2>1, Quiet DEF OneMarkInv, SourceTypes
  <2> QED
    BY <2>1, <2>2 DEF SeenInv, OneMark, NoChild
<1>2. CASE Next
  <2>1. UNCHANGED <<kind, bound>>
    BY <1>2, SqlKind, HttpKind, WindowsKind, KafkaKind, MongoKind, CommonKind
       DEF Next, Mongo, Sql, OfHttp, Windows, Kafka
  <2>2. NoChild'
    <3>1. CASE WindowsStep
      BY <2>1, <3>1, NoChildKept DEF SeenInv
    <3>2. CASE UNCHANGED windowsVars \/ WindowsReset
      BY <2>1, <3>2 DEF SeenInv, NoChild, windowsVars, WindowsReset
    <3> QED
      BY <1>2, <3>1, <3>2 DEF Next, Common, Mongo, Sql, OfHttp, Windows, Kafka, Exit, familyVars
  <2>3. ASSUME OneMark
        PROVE  OneMarkInv'
    <3>1. OneMarkInv /\ NoChild /\ bound \in Worlds /\ kind \notin {"mongo", "winpollids", "wevtutilend"}
      BY <2>3 DEF SeenInv, OneMark
    <3>2. CASE Common
      BY <2>1, <3>1, <3>2, CommonSees
    <3>3. CASE Sql
      BY <2>1, <3>1, <3>3, SqlSees DEF Sql, httpVars, windowsVars, kafkaVars
    <3>4. CASE OfHttp
      BY <2>1, <3>1, <3>4, HttpSees DEF OfHttp, sqlVars, windowsVars, kafkaVars
    <3>5. CASE Windows
      BY <2>1, <3>1, <3>5, WindowsSees DEF Windows, Winpoll, Wevtutil, sqlVars, httpVars, kafkaVars
    <3>6. CASE Kafka
      BY <2>1, <3>1, <3>6, KafkaSees DEF Kafka, sqlVars, httpVars, windowsVars
    <3>7. CASE Exit
      BY <3>1, <3>7, ExitSees
    <3> QED
      BY <1>2, <3>1, <3>2, <3>3, <3>4, <3>5, <3>6, <3>7 DEF Next, Mongo
  <2> QED
    BY <2>1, <2>2, <2>3 DEF SeenInv, OneMark
<1> QED
  BY <1>1, <1>2

(* Of the inputs with one mark for all items, that mark covers, in memory, *)
(* in the store, on its way there and in the bookmark of wevtutil, only    *)
(* what some process has read (sqlserver.js, elastic.js, http.js,          *)
(* httpsm.js, windows-poll.js, windows_legacy, kafkajs.js).                *)
THEOREM SeenInvariance == Spec => []SeenInv
<1> QED
  BY SeenInitHolds, SeenNextHolds, PTL DEF Spec

(* No item is passed over: whatever mark the next process goes on from,    *)
(* or a save brings to the store, what it covers was read, in any order of *)
(* crashes, pauses, errors and answers of the store (lib/input, and        *)
(* watermark.js).                                                          *)
THEOREM NoItemSkipped == Spec => []NoneSkipped
<1>1. IInv /\ SeenInv => NoneSkipped
  <2> SUFFICES ASSUME IInv, SeenInv, kind \notin {"winpollids", "wevtutilend"},
                      NEW m \in {Stored, wm} \cup {calls[k].val : k \in DOMAIN calls}
               PROVE  Covered(m) \subseteq KnownItems \cup ignored
    BY DEF NoneSkipped
  <2>1. CASE kind = "mongo"
    <3>1. StoreInv /\ Covered(wm) \subseteq given /\ ~Wevtutil
      BY <2>1 DEF IInv, MongoInv, CoversGiven, Wevtutil
    <3>2. Covered(m) \subseteq given
      BY <3>1, CoveredFacts DEF Stored, StoreInv, CoversGiven
    <3> QED
      BY <3>2 DEF KnownItems
  <2>2. CASE kind # "mongo"
    <3>1. MarksSeen
      BY <2>2 DEF SeenInv, OneMark, OneMarkInv
    <3> HIDE DEF Seen
    <3>2. Covered(m) \subseteq Seen
      BY <3>1, CoveredFacts DEF Stored, MarksSeen
    <3>3. Seen \subseteq KnownItems \cup ignored
      BY DEF Seen, KnownItems, InProcess
    <3> QED
      BY <3>2, <3>3
  <2> QED
    BY <2>1, <2>2
<1> QED
  BY <1>1, Invariance, SeenInvariance, PTL
-----------------------------------------------------------------------------
(***************************************************************************)
(* The order of the items that a process gives.  A mark for all items is   *)
(* the same for every class.                                               *)
(***************************************************************************)
Uniform(m) == \E i \in 0..MaxItems : m = Upto(i)
Starting == {"get", "save", "start"}

(* What was given, and then the queue, go up.                              *)
OwnThenQueue ==
  /\ Ascending(own) /\ Ascending(queue)
  /\ \A i \in Range(own), j \in Range(queue) : i < j

(* What a process has read is covered by its mark.                         *)
QueueOrder ==
  /\ Uniform(wm) /\ OwnThenQueue
  /\ phase = "off" \/ Range(own) \cup Range(queue) \cup held \subseteq Covered(wm)
  /\ phase \in Early => queue = <<>> /\ held = {}
  /\ phase \in Starting => own = <<>>
  /\ kind = "httpsm" => queue = <<>> /\ \A i \in Range(own), j \in held : i < j

MarksUniform ==
  /\ db # Missing => Uniform(db)
  /\ \A k \in DOMAIN calls : Uniform(calls[k].val) /\ calls[k].proc <= proc

(* The queries of sqlserver, as long as none fails: the semaphore is taken *)
(* by one that runs, or whose end is being saved.                          *)
IsDone(k) == calls[k].who = "done" /\ calls[k].proc = proc
NoneDone == \A k \in DOMAIN calls : ~IsDone(k)
OneQuery ==
  /\ sem \in {0, 1}
  /\ reqs # <<>> \/ answer = "done" \/ ~NoneDone => sem = 1
  /\ reqs # <<>> \/ answer = "done" => NoneDone
  /\ reqs # <<>> => answer # "done"
  /\ \A j, k \in DOMAIN calls : IsDone(j) /\ IsDone(k) => j = k

(* Its rows follow what is read.                                           *)
RowsInOrder ==
  /\ Len(reqs) <= 1
  /\ \A q \in DOMAIN reqs :
       Ascending(reqs[q].rest) /\ \A i \in Range(reqs[q].rest) : i \notin Covered(wm)

SqlOrder ==
  /\ RowsInOrder
  /\ phase \in Early => reqs = <<>> /\ sem = 0
  /\ phase = "off" => answer = "none"
  /\ phase # "off" => OneQuery

PlainOrder ==
  /\ QueueOrder /\ MarksUniform
  /\ kind = "sqlserver" => SqlOrder

(* The program that wevtutil runs prints what is beyond all that was       *)
(* queued, and then its bookmark covers it; none is killed before stop().  *)
CallsOfNow ==
  /\ \A k \in DOMAIN calls :
       /\ calls[k].proc <= proc
       /\ phase # "off" /\ calls[k].proc = proc =>
            calls[k].who # "pause" /\ (calls[k].who = "stop" => phase = "stopping")
  /\ answer # "pause" /\ (answer = "stop" => phase = "stopping")

EventsInOrder ==
  /\ OwnThenQueue /\ Ascending(out)
  /\ \A i \in Range(own) \cup Range(queue), j \in Range(out) : i < j
  /\ Range(own) \cup Range(queue) \cup Range(out) \subseteq 1..avail

ProgramRuns ==
  /\ child # "run" => out = <<>>
  /\ reading = "no" => child = "none"
  /\ phase = "up" => child \notin {"killed", "denied"}
  /\ phase = "up" /\ child # "run" => Range(own) \cup Range(queue) \subseteq Covered(bookmark)
  /\ phase \in Early => queue = <<>> /\ child = "none"
  /\ phase \in Starting => own = <<>>

WevtutilOrder ==
  /\ SourceTypes /\ Uniform(bookmark) /\ out \in Seq(Items)
  /\ CallsOfNow /\ EventsInOrder /\ ProgramRuns

MongoOrder ==
  /\ queue = <<>> /\ own \in Seq(Items)
  /\ \A a, b \in DOMAIN own : a < b /\ ClassOf[own[a]] = ClassOf[own[b]] => own[a] < own[b]
  /\ phase = "off" \/ Range(own) \subseteq Covered(wm)
  /\ phase \in Starting => own = <<>>

Plain ==
  /\ kind \notin {"mongo", "wevtutil", "wevtutilend", "winpollids"}
  /\ kind \in {"sqlserver", "kafka"} => faults = 0
  /\ kind = "sqlserver" => bound.cursors = 1

OrderInv ==
  /\ bound \in Worlds /\ kind = bound.kind /\ faults \in Nat /\ pauses \in Nat
  /\ Plain => PlainOrder
  /\ Wevtutil /\ faults = 0 /\ pauses = 0 => WevtutilOrder
  /\ kind = "mongo" => MongoOrder
-----------------------------------------------------------------------------
(* Sequences that go up.                                                   *)
LEMMA AscendingTail ==
  ASSUME NEW s \in Seq(Items), s # <<>>, Ascending(s)
  PROVE  Ascending(Tail(s)) /\ \A i \in Range(Tail(s)) : Head(s) < i
<1> DEFINE t == Tail(s)
<1>1. /\ Len(s) \in Nat \ {0} /\ DOMAIN s = 1..Len(s) /\ Head(s) = s[1]
      /\ DOMAIN t = 1..(Len(s) - 1) /\ \A j \in 1..(Len(s) - 1) : t[j] = s[j + 1]
  OBVIOUS
<1> HIDE DEF t
<1>2. \A a, b \in 1..Len(s) : a < b => s[a] < s[b]
  BY <1>1 DEF Ascending
<1>3. ASSUME NEW a \in 1..(Len(s) - 1), NEW b \in 1..(Len(s) - 1), a < b
      PROVE  t[a] < t[b]
  <2>1. a + 1 \in 1..Len(s) /\ b + 1 \in 1..Len(s) /\ a + 1 < b + 1
    BY <1>1, <1>3
  <2> QED
    BY <1>1, <1>2, <2>1
<1>4. ASSUME NEW j \in 1..(Len(s) - 1)
      PROVE  Head(s) < t[j]
  <2>1. 1 \in 1..Len(s) /\ j + 1 \in 1..Len(s) /\ 1 < j + 1
    BY <1>1
  <2> QED
    BY <1>1, <1>2, <2>1
<1> QED
  BY <1>1, <1>3, <1>4 DEF Ascending, Range, t

LEMMA AscendingConcat ==
  ASSUME NEW s \in Seq(Items), NEW t \in Seq(Items), Ascending(s), Ascending(t),
         \A i \in Range(s), j \in Range(t) : i < j
  PROVE  Ascending(s \o t)
<1> DEFINE u == s \o t
           n == Len(s)
           k == Len(t)
<1>1. /\ u \in Seq(Items) /\ Len(u) = n + k
      /\ \A j \in 1 .. n + k : u[j] = IF j <= n THEN s[j] ELSE t[j - n]
  BY ConcatProperties
<1>2. n \in Nat /\ k \in Nat /\ DOMAIN s = 1..n /\ DOMAIN t = 1..k /\ DOMAIN u = 1..(n + k)
  BY <1>1
<1> HIDE DEF u, n, k
<1>3. SUFFICES ASSUME NEW a \in 1..(n + k), NEW b \in 1..(n + k), a < b
               PROVE  u[a] < u[b]
  BY <1>2 DEF Ascending, u
<1>4. CASE b <= n
  <2>1. a \in 1..n /\ b \in 1..n /\ u[a] = s[a] /\ u[b] = s[b]
    BY <1>1, <1>2, <1>3, <1>4
  <2> QED
    BY <1>2, <1>3, <2>1 DEF Ascending
<1>5. CASE a <= n /\ b > n
  <2>1. a \in 1..n /\ b - n \in 1..k /\ u[a] = s[a] /\ u[b] = t[b - n]
    BY <1>1, <1>2, <1>5
  <2>2. s[a] \in Range(s) /\ t[b - n] \in Range(t)
    BY <1>2, <2>1 DEF Range
  <2> QED
    BY <2>1, <2>2
<1>6. CASE a > n
  <2>1. /\ a - n \in 1..k /\ b - n \in 1..k /\ a - n < b - n
        /\ u[a] = t[a - n] /\ u[b] = t[b - n]
    BY <1>1, <1>2, <1>3, <1>6
  <2> QED
    BY <1>2, <2>1 DEF Ascending
<1> QED
  BY <1>2, <1>4, <1>5, <1>6

LEMMA AscendingAppend ==
  ASSUME NEW s \in Seq(Items), NEW x \in Items, Ascending(s), \A i \in Range(s) : i < x
  PROVE  Ascending(Append(s, x))
<1> DEFINE t == Append(s, x)
<1>1. /\ DOMAIN t = 1..(Len(s) + 1) /\ DOMAIN s = 1..Len(s) /\ Len(s) \in Nat
      /\ t[Len(s) + 1] = x /\ \A j \in 1..Len(s) : t[j] = s[j]
  OBVIOUS
<1> HIDE DEF t
<1>2. SUFFICES ASSUME NEW a \in 1..(Len(s) + 1), NEW b \in 1..(Len(s) + 1), a < b
               PROVE  t[a] < t[b]
  BY <1>1 DEF Ascending, t
<1>3. a \in 1..Len(s) /\ t[a] = s[a] /\ s[a] \in Range(s)
  BY <1>1, <1>2 DEF Range
<1>4. CASE b \in 1..Len(s)
  BY <1>1, <1>2, <1>3, <1>4 DEF Ascending
<1>5. CASE b = Len(s) + 1
  BY <1>1, <1>3, <1>5
<1> QED
  BY <1>1, <1>4, <1>5

LEMMA LastIsMost ==
  ASSUME NEW s \in Seq(Items), s # <<>>, Ascending(s)
  PROVE  Last(s) \in Range(s) /\ \A i \in Range(s) : i <= Last(s)
<1>1. DOMAIN s = 1..Len(s) /\ Len(s) \in 1..Len(s) /\ \A j \in 1..Len(s) : s[j] \in Nat
  BY ItemFacts
<1>2. ASSUME NEW j \in 1..Len(s)
      PROVE  s[j] <= s[Len(s)]
  <2>1. CASE j = Len(s)
    BY <1>1, <2>1
  <2>2. CASE j < Len(s)
    <3>1. s[j] < s[Len(s)]
      BY <1>1, <2>2 DEF Ascending
    <3> QED
      BY <1>1, <3>1
  <2>3. j = Len(s) \/ j < Len(s)
    OBVIOUS
  <2> QED
    BY <2>1, <2>2, <2>3
<1> QED
  BY <1>1, <1>2 DEF Last, Range

(* A read goes up, and beyond the mark that it starts from.                *)
LEMMA FirstInOrder ==
  ASSUME avail \in 0..MaxItems, NEW m \in Marks, NEW n \in Nat
  PROVE  /\ First(InOrder(Beyond(m)), n) \in Seq(Items)
         /\ Ascending(First(InOrder(Beyond(m)), n))
         /\ \A i \in Range(First(InOrder(Beyond(m)), n)) : i \in Beyond(m)
<1> DEFINE s == InOrder(Beyond(m))
<1>1. s \in Seq(Items) /\ Ascending(s) /\ \A i \in Range(s) : i \in Beyond(m)
  <2>1. Covered(m) \subseteq Items
    BY DEF Covered
  <2> QED
    BY <2>1, ReadFrom
<1> HIDE DEF s
<1> DEFINE f == First(s, n)
<1>2. /\ f \in Seq(Items) /\ DOMAIN f \subseteq DOMAIN s
      /\ \A j \in DOMAIN f : f[j] = s[j]
  BY <1>1, FirstOf
<1> HIDE DEF f
<1>3. Ascending(f)
  BY <1>1, <1>2 DEF Ascending
<1>4. \A i \in Range(f) : i \in Beyond(m)
  BY <1>1, <1>2 DEF Range
<1> QED
  BY <1>2, <1>3, <1>4 DEF f, s

(* What one mark for all items covers.                                     *)
LEMMA UniformFacts ==
  /\ Uniform(Upto(0)) /\ \A i \in Items : Uniform(Upto(i))
  /\ \A m : Uniform(m) =>
       /\ m \in Marks
       /\ \A i, j \in Items : i \in Covered(m) /\ j \notin Covered(m) => i < j
  /\ \A m : \A i \in Beyond(m) : i \notin Covered(m) \/ ~(Uniform(m))
<1>1. Uniform(Upto(0)) /\ \A i \in Items : Uniform(Upto(i))
  BY ItemFacts DEF Uniform
<1>2. ASSUME NEW k \in 0..MaxItems
      PROVE  /\ Upto(k) \in Marks
             /\ \A i \in Items : i \in Covered(Upto(k)) <=> i <= k
             /\ \A i \in Beyond(Upto(k)) : i \notin Covered(Upto(k))
  <2>1. k \in Nat /\ \A i \in Items : i \in Nat /\ ClassOf[i] \in Classes
    BY ItemFacts, Constants
  <2>2. \A i \in Items : i \in Covered(Upto(k)) <=> i <= k
    BY <2>1 DEF Covered, Upto
  <2>3. Upto(k) \in Marks
    BY DEF Upto, Marks
  <2>4. ASSUME NEW i \in Beyond(Upto(k)), i \in Covered(Upto(k))
        PROVE  FALSE
    <3>1. i \in Items /\ i <= k
      BY <2>2, <2>4 DEF Covered
    <3>2. i > Upto(k)[ClassOf[i]]
      BY <2>4 DEF Beyond
    <3> QED
      BY <2>1, <3>1, <3>2 DEF Upto
  <2> QED
    BY <2>2, <2>3, <2>4
<1>3. ASSUME NEW m, Uniform(m)
      PROVE  /\ m \in Marks
             /\ \A i, j \in Items : i \in Covered(m) /\ j \notin Covered(m) => i < j
             /\ \A i \in Beyond(m) : i \notin Covered(m)
  <2>1. PICK k \in 0..MaxItems : m = Upto(k)
    BY <1>3 DEF Uniform
  <2>2. k \in Nat /\ \A i \in Items : i \in Nat
    BY ItemFacts
  <2> QED
    BY <1>2, <2>1, <2>2
<1> QED
  BY <1>1, <1>3
-----------------------------------------------------------------------------
(* The first of a sequence of items, and the rest.                         *)
LEMMA HeadAndTail ==
  ASSUME NEW s \in Seq(Items), s # <<>>
  PROVE  /\ Head(s) \in Items /\ Tail(s) \in Seq(Items)
         /\ Range(s) = {Head(s)} \cup Range(Tail(s))
<1>1. Consecutive(s, Items)
  BY DEF Consecutive
<1> QED
  BY <1>1, ConsecutiveHead

(* How the phase goes on but for a start or an end.                        *)
GoesOn ==
  /\ phase' \in Early => phase \in Early
  /\ phase' \in Starting => phase \in Starting
  /\ (phase' = "off") = (phase = "off")

(* The queue stays; a mark that is given to a process that has read        *)
(* nothing fits anyhow.                                                    *)
LEMMA QueueStays ==
  ASSUME QueueOrder, GoesOn, UNCHANGED <<kind, own, queue, held>>,
         wm' = wm \/ (phase \in Starting /\ Uniform(wm'))
  PROVE  QueueOrder'
<1>1. OwnThenQueue'
  BY DEF QueueOrder, OwnThenQueue, Ascending, Range
<1>2. Uniform(wm')
  BY DEF QueueOrder
<1>3. phase \in Starting => Range(own) = {} /\ Range(queue) = {} /\ held = {}
  BY DEF QueueOrder, Starting, Early, Range
<1>4. phase' = "off" \/ Range(own) \cup Range(queue) \cup held \subseteq Covered(wm')
  <2>1. CASE wm' = wm
    BY <2>1 DEF QueueOrder, GoesOn
  <2>2. CASE phase \in Starting
    BY <1>3, <2>2
  <2> QED
    BY <2>1, <2>2
<1> QED
  BY <1>1, <1>2, <1>4 DEF QueueOrder, GoesOn, Uniform, Upto, Range, Covered

(* The first of the queue is given; what is given and queued is the same.  *)
LEMMA OwnGives ==
  ASSUME own \in Seq(Items), queue \in Seq(Items), OwnThenQueue, GiveFirst
  PROVE  /\ OwnThenQueue' /\ own' \in Seq(Items) /\ queue' \in Seq(Items)
         /\ Range(own') \cup Range(queue') = Range(own) \cup Range(queue)
<1> DEFINE h == Head(queue)
           t == Tail(queue)
<1>1. queue # <<>> /\ queue' = t /\ own' = Append(own, h)
  BY DEF GiveFirst, Give
<1>2. h \in Items /\ t \in Seq(Items) /\ Range(queue) = {h} \cup Range(t)
  BY <1>1, HeadAndTail
<1>3. Ascending(t) /\ \A i \in Range(t) : h < i
  BY <1>1, AscendingTail DEF OwnThenQueue
<1> HIDE DEF h, t
<1>4. own' \in Seq(Items) /\ Range(own') = Range(own) \cup {h}
  BY <1>1, <1>2, RangeAppend
<1>5. Ascending(own')
  BY <1>1, <1>2, AscendingAppend DEF OwnThenQueue
<1>6. \A i \in Range(own'), j \in Range(t) : i < j
  BY <1>2, <1>3, <1>4 DEF OwnThenQueue
<1>7. OwnThenQueue'
  BY <1>1, <1>3, <1>5, <1>6 DEF OwnThenQueue, Ascending, Range
<1> QED
  BY <1>1, <1>2, <1>4, <1>7

LEMMA QueueGives ==
  ASSUME SourceTypes, QueueOrder, GiveFirst, UNCHANGED <<kind, phase, held, wm>>
  PROVE  QueueOrder'
<1>1. /\ OwnThenQueue' /\ own' \in Seq(Items) /\ queue' \in Seq(Items)
      /\ Range(own') \cup Range(queue') = Range(own) \cup Range(queue)
  BY OwnGives DEF SourceTypes, QueueOrder
<1>2. phase \notin Early /\ phase \notin Starting /\ kind # "httpsm"
  BY DEF GiveFirst, QueueOrder, Early, Starting
<1> QED
  BY <1>1, <1>2 DEF QueueOrder, Uniform, Upto, Range, Covered

(* It goes elsewhere.                                                      *)
LEMMA QueueDrains ==
  ASSUME SourceTypes, QueueOrder, queue # <<>>, queue' = Tail(queue),
         UNCHANGED <<kind, phase, own, held, wm>>
  PROVE  QueueOrder'
<1> DEFINE h == Head(queue)
           t == Tail(queue)
<1>1. queue \in Seq(Items) /\ queue' = t
  BY DEF SourceTypes
<1>2. h \in Items /\ t \in Seq(Items) /\ Range(queue) = {h} \cup Range(t)
  BY <1>1, HeadAndTail
<1>3. Ascending(t)
  BY <1>1, AscendingTail DEF QueueOrder, OwnThenQueue
<1> HIDE DEF h, t
<1>4. Range(queue') \subseteq Range(queue) /\ Range(own') = Range(own)
  BY <1>1, <1>2 DEF Range
<1>5. OwnThenQueue'
  BY <1>1, <1>3, <1>4 DEF QueueOrder, OwnThenQueue, Ascending, Range
<1>6. phase \notin Early /\ phase \notin Starting /\ kind # "httpsm"
  BY DEF QueueOrder, Early, Starting
<1> QED
  BY <1>4, <1>5, <1>6 DEF QueueOrder, Uniform, Upto, Covered

(* Items beyond the mark are queued, and the mark covers them.             *)
LEMMA QueueGrows ==
  ASSUME SourceTypes, QueueOrder, phase \notin Early, kind # "httpsm",
         UNCHANGED <<kind, phase, own, held>>, NEW CONSTANT X \in SUBSET Items,
         Range(queue') = Range(queue) \cup X, Ascending(queue'),
         \A i \in X : i \notin Covered(wm),
         Uniform(wm'), Covered(wm) \cup X \subseteq Covered(wm')
  PROVE  QueueOrder'
<1>1. own \in Seq(Items)
  BY DEF SourceTypes
<1>2. phase # "off" /\ phase \notin Starting
  BY DEF Early, Starting
<1>3. Range(own) \subseteq Covered(wm) /\ Range(own) \subseteq Items
  BY <1>1, <1>2 DEF QueueOrder, Covered
<1>4. \A i \in Range(own), j \in X : i < j
  BY <1>3, UniformFacts DEF QueueOrder
<1>5. OwnThenQueue'
  BY <1>4 DEF QueueOrder, OwnThenQueue, Ascending, Range
<1>6. Range(own') \cup Range(queue') \cup held' \subseteq Covered(wm')
  BY <1>2, <1>3 DEF QueueOrder, Range
<1> QED
  BY <1>2, <1>5, <1>6 DEF QueueOrder, Uniform, Upto, Range, Covered

(* What is read from the mark is queued after what was read before.        *)
LEMMA ReadUniform ==
  ASSUME Uniform(wm), NEW CONSTANT items \in Seq(Items), items # <<>>, Ascending(items),
         \A i \in Range(items) : i \notin Covered(wm)
  PROVE  /\ Uniform(Upto(Last(items)))
         /\ Covered(wm) \cup Range(items) \subseteq Covered(Upto(Last(items)))
<1> DEFINE x == Last(items)
<1>1. x \in Range(items) /\ \A i \in Range(items) : i <= x
  BY LastIsMost
<1>2. Range(items) \subseteq Items
  BY DEF Range
<1> HIDE DEF x
<1>3. x \in Items /\ Uniform(Upto(x)) /\ Covered(Upto(x)) = {j \in Items : j <= x}
  BY <1>1, <1>2, UniformFacts, ItemFacts
<1>4. ASSUME NEW i \in Covered(wm)
      PROVE  i \in Covered(Upto(x))
  <2>1. i \in Items /\ i < x
    BY <1>1, <1>3, <1>4, UniformFacts DEF Covered
  <2> QED
    BY <1>3, <2>1, ItemFacts
<1> QED
  BY <1>1, <1>2, <1>3, <1>4 DEF x

LEMMA QueueReads ==
  ASSUME SourceTypes, QueueOrder, phase \notin Early, kind # "httpsm",
         UNCHANGED <<kind, phase, own, held>>, NEW CONSTANT items \in Seq(Items),
         Ascending(items), \A i \in Range(items) : i \in Beyond(wm),
         queue' = queue \o items,
         wm' = IF items = <<>> THEN wm ELSE Upto(Last(items))
  PROVE  QueueOrder'
<1>1. /\ queue \in Seq(Items) /\ Uniform(wm) /\ Ascending(queue)
      /\ Range(queue) \subseteq Covered(wm)
      /\ \A i \in Range(items) : i \notin Covered(wm)
  BY UniformFacts DEF SourceTypes, QueueOrder, OwnThenQueue, Early
<1>2. Range(items) \in SUBSET Items /\ Range(queue) \subseteq Items
  BY <1>1 DEF Range
<1>3. \A i \in Range(queue), j \in Range(items) : i < j
  BY <1>1, <1>2, UniformFacts
<1>4. Ascending(queue') /\ Range(queue') = Range(queue) \cup Range(items)
  BY <1>1, <1>3, AscendingConcat, RangeConcat
<1>5. CASE items = <<>>
  <2>1. Range(items) = {} /\ wm' = wm
    BY <1>5 DEF Range
  <2>2. PICK X \in SUBSET Items : X = Range(items)
    BY <1>2
  <2> QED
    BY <1>1, <1>4, <2>1, <2>2, QueueGrows
<1>6. CASE items # <<>>
  <2>1. Uniform(wm') /\ Covered(wm) \cup Range(items) \subseteq Covered(wm')
    BY <1>1, <1>6, ReadUniform
  <2>2. PICK X \in SUBSET Items : X = Range(items)
    BY <1>2
  <2> QED
    BY <1>1, <1>4, <2>1, <2>2, QueueGrows
<1> QED
  BY <1>5, <1>6
-----------------------------------------------------------------------------
(* The marks stored and on their way.                                      *)
LEMMA MarksStay ==
  ASSUME SourceTypes, MarksUniform, UNCHANGED calls, proc' \in {proc, proc + 1},
         db' = db \/ Uniform(db')
  PROVE  MarksUniform'
<1>1. proc \in Nat /\ \A k \in DOMAIN calls : calls[k].proc \in Nat
  <2>1. calls \in Seq(Call) /\ proc \in Nat
    BY DEF SourceTypes
  <2>2. \A k \in DOMAIN calls : calls[k] \in Call
    BY <2>1
  <2> QED
    BY <2>1, <2>2 DEF Call
<1>2. \A k \in DOMAIN calls : calls[k].proc <= proc'
  BY <1>1 DEF MarksUniform
<1> QED
  BY <1>2 DEF MarksUniform, Uniform, Upto

(* One more call of the store.                                             *)
IsCall(c, m, who, p) == c.val = m /\ c.who = who /\ c.proc = p

LEMMA CallAdded ==
  ASSUME NEW cs \in Seq(Call), NEW cmd \in {"get", "create", "save"}, NEW m \in Marks,
         NEW who \in Callers, NEW p \in Nat
  PROVE  /\ DOMAIN With(cs, cmd, m, who, p) = 1..(Len(cs) + 1)
         /\ DOMAIN cs = 1..Len(cs) /\ Len(cs) \in Nat
         /\ IsCall(With(cs, cmd, m, who, p)[Len(cs) + 1], m, who, p)
         /\ \A k \in 1..Len(cs) : With(cs, cmd, m, who, p)[k] = cs[k]
         /\ \A k \in DOMAIN With(cs, cmd, m, who, p) :
              \/ IsCall(With(cs, cmd, m, who, p)[k], m, who, p)
              \/ (k \in DOMAIN cs /\ With(cs, cmd, m, who, p)[k] = cs[k])
<1> DEFINE c == [cmd |-> cmd, val |-> m, who |-> who, proc |-> p]
           ds == Append(cs, c)
<1>1. c \in Call /\ IsCall(c, m, who, p)
  BY Constants DEF Call, IsCall
<1>2. With(cs, cmd, m, who, p) = ds
  BY DEF With
<1> HIDE DEF c
<1>3. /\ DOMAIN ds = 1..(Len(cs) + 1) /\ DOMAIN cs = 1..Len(cs) /\ Len(cs) \in Nat
      /\ ds[Len(cs) + 1] = c /\ \A k \in 1..Len(cs) : ds[k] = cs[k]
  BY <1>1
<1> HIDE DEF ds
<1>4. \A k \in DOMAIN ds : ds[k] = c \/ (k \in DOMAIN cs /\ ds[k] = cs[k])
  <2>1. \A k \in DOMAIN ds : k \in 1..Len(cs) \/ k = Len(cs) + 1
    BY <1>3
  <2> QED
    BY <1>3, <2>1
<1> QED
  BY <1>1, <1>2, <1>3, <1>4

LEMMA MarksSaved ==
  ASSUME SourceTypes, MarksUniform, NEW CONSTANT who \in Callers, Store(who),
         UNCHANGED <<db, proc>>, Uniform(wm')
  PROVE  MarksUniform'
<1> DEFINE m == wm'
<1>1. /\ calls \in Seq(Call) /\ proc \in Nat /\ m \in Marks
      /\ calls' = With(calls, "save", m, who, proc)
  BY UniformFacts DEF SourceTypes, Store, WithSave
<1> HIDE DEF m
<1>2. \A k \in DOMAIN calls' :
        \/ IsCall(calls'[k], m, who, proc)
        \/ (k \in DOMAIN calls /\ calls'[k] = calls[k])
  <2> DEFINE ds == With(calls, "save", m, who, proc)
  <2>1. \A k \in DOMAIN ds :
          \/ IsCall(ds[k], m, who, proc)
          \/ (k \in DOMAIN calls /\ ds[k] = calls[k])
    BY <1>1, CallAdded
  <2> HIDE DEF ds
  <2> QED
    BY <1>1, <2>1 DEF ds
<1>3. \A k \in DOMAIN calls' : Uniform(calls'[k].val) /\ calls'[k].proc <= proc
  BY <1>1, <1>2 DEF MarksUniform, m, IsCall
<1> QED
  BY <1>3 DEF MarksUniform, Uniform, Upto

(* The store does a step of one of its calls: those that are left are as   *)
(* they were, one is gone, or one is there for configure().                *)
Same(j, i) ==
  /\ i \in DOMAIN calls
  /\ calls'[j].val = calls[i].val /\ calls'[j].who = calls[i].who
  /\ calls'[j].proc = calls[i].proc
Later(j, k) == IF j < k THEN j ELSE j + 1

LEMMA CallServed ==
  ASSUME SourceTypes, NEW CONSTANT k \in DOMAIN calls, ServeGet(k, Saves) \/ Save(k)
  PROVE  \/ \A j \in DOMAIN calls' : Same(j, j)
         \/ \A j \in DOMAIN calls' : Same(j, Later(j, k))
         \/ /\ Saves /\ db # Missing
            /\ \A j \in DOMAIN calls' :
                 \/ (calls'[j].val = db /\ calls'[j].proc = proc /\ calls'[j].who = "configure")
                 \/ Same(j, Later(j, k))
<1>1. /\ calls \in Seq(Call) /\ proc \in Nat /\ db \in Marks \cup {Missing}
      /\ DOMAIN calls = 1..Len(calls)
  BY DEF SourceTypes
<1> DEFINE ds == Without(k)
<1>2. /\ ds \in Seq(Call)
      /\ \A j \in DOMAIN ds : Later(j, k) \in DOMAIN calls /\ ds[j] = calls[Later(j, k)]
  <2> DEFINE e == SubSeq(calls, 1, k - 1) \o SubSeq(calls, k + 1, Len(calls))
  <2>1. /\ e \in Seq(Call)
        /\ \A j \in DOMAIN e : \E i \in DOMAIN calls :
             i = (IF j < k THEN j ELSE j + 1) /\ e[j] = calls[i]
    BY <1>1, WithoutOne
  <2>2. ds = e
    BY DEF Without
  <2> HIDE DEF e, ds
  <2> QED
    BY <2>1, <2>2 DEF Later
<1> HIDE DEF ds
<1>3. CASE GetMisses(k) \/ Create(k)
  <2>1. PICK c \in {"get", "create"} : calls' = [calls EXCEPT ![k].cmd = c]
    BY <1>3 DEF GetMisses, Create
  <2>2. \A j \in DOMAIN calls : calls[j] \in Call
    BY <1>1
  <2>3. \A j \in DOMAIN calls' : Same(j, j)
    BY <2>1, <2>2 DEF Same, Call
  <2> QED
    BY <2>3
<1>4. CASE calls' = ds
  BY <1>2, <1>4 DEF Same
<1>5. CASE Saves /\ db # Missing /\ calls' = WithSave(ds, db, "configure", proc)
  <2>1. db \in Marks /\ "configure" \in Callers
    BY <1>1, <1>5, Constants
  <2>2. \A j \in DOMAIN calls' :
          \/ IsCall(calls'[j], db, "configure", proc)
          \/ (j \in DOMAIN ds /\ calls'[j] = ds[j])
    <3> DEFINE es == With(ds, "save", db, "configure", proc)
    <3>1. \A j \in DOMAIN es :
            \/ IsCall(es[j], db, "configure", proc)
            \/ (j \in DOMAIN ds /\ es[j] = ds[j])
      BY <1>1, <1>2, <2>1, CallAdded
    <3>2. calls' = es
      BY <1>5 DEF WithSave
    <3> HIDE DEF es
    <3> QED
      BY <3>1, <3>2
  <2>3. ASSUME NEW j \in DOMAIN calls'
        PROVE  \/ (calls'[j].val = db /\ calls'[j].proc = proc /\ calls'[j].who = "configure")
               \/ Same(j, Later(j, k))
    BY <1>2, <2>2 DEF Same, IsCall
  <2> QED
    BY <1>5, <2>3
<1> QED
  BY <1>3, <1>4, <1>5 DEF ServeGet, Save, GetHits, ds

LEMMA MarksServed ==
  ASSUME SourceTypes, MarksUniform, UNCHANGED proc, NEW CONSTANT k \in DOMAIN calls,
         ServeGet(k, Saves) \/ Save(k)
  PROVE  MarksUniform'
<1>1. proc \in Nat
  BY DEF SourceTypes
<1>2. \A j \in DOMAIN calls' : Uniform(calls'[j].val) /\ calls'[j].proc <= proc
  BY <1>1, CallServed DEF MarksUniform, Same
<1>3. db' = db \/ Uniform(db')
  <2>1. db' = db \/ db' = Placeholder \/ db' = calls[k].val
    BY DEF ServeGet, Save, GetMisses, Create, GetHits
  <2> QED
    BY <2>1, Constants, UniformFacts DEF MarksUniform
<1> QED
  BY <1>2, <1>3 DEF MarksUniform, Uniform, Upto
-----------------------------------------------------------------------------
(* Errors and pauses are counted and never forgotten.                      *)
Grows == /\ faults' \in {faults, faults + 1}
         /\ pauses' \in {pauses, pauses + 1}

LEMMA CommonGrows == Common \/ Exit => UNCHANGED <<faults, pauses>>
  BY DEF Common, Exit, Arrive, Configured, Saved, CalledBack, ServeStore, Configure, Ask, Die,
         pauseVars

LEMMA MongoGrows == MongoStep => Grows
  BY DEF Grows, MongoStep, MongoStart, MongoNext, MongoPause, MongoResume, MongoStop, FetchData,
         CollectionsFetched, RefreshTimer, sourceVars, pauseVars, StartsQuery, StillQueries,
         Exhausted, NextDocument, CursorFails, Fault

LEMMA SqlGrows == SqlStep => Grows
  BY DEF Grows, SqlStep, SqlStart, SqlNext, QuerySaved, Backlog, SqlPause, SqlStop, Row, Done,
         QueryFails, sourceVars, pauseVars, Fault

LEMMA HttpGrows == HttpStep => Grows
  BY DEF Grows, HttpStep, StartHttp, HttpNext, Answers, Fails, Fetched, PushLoop, SmNext,
         SmAnswers, SmSaved, SmFails, HttpPause, HttpResume, HttpStop, pauseVars, Fault

LEMMA WindowsGrows == WindowsStep => Grows
  BY DEF Grows, WindowsStep, WinpollStart, WinpollNext, WinpollSaved, WevtutilStart,
         WevtutilNext, Printed, Ends, EndsBadly, SetupReset, SetupFails, EndFetch,
         WevtutilFetched, Kill, WindowsPause, WindowsResume, WindowsStop, sourceVars, pauseVars,
         Fault

LEMMA KafkaGrows == KafkaConfigure \/ KafkaStep => Grows
  BY DEF Grows, KafkaConfigure, KafkaStep, KafkaStart, Reconnect, EachBatch, BatchEnds,
         BatchIgnored, Commit, KafkaNext, Ival, KafkaPause, KafkaResume, KafkaStop, Disconnect,
         sourceVars, pauseVars, Fault
-----------------------------------------------------------------------------
(* The queue and the marks, in the steps of every input.                   *)
LEMMA QueueBegins ==
  ASSUME QueueOrder, phase = "off", phase' \in Starting, own' = <<>>,
         UNCHANGED <<kind, wm, queue, held>>
  PROVE  QueueOrder'
<1>1. /\ Range(own') = {} /\ queue = <<>> /\ held = {} /\ Range(queue') = {}
      /\ Uniform(wm)
  BY DEF Range, QueueOrder, Early
<1>2. OwnThenQueue'
  BY <1>1 DEF OwnThenQueue, Ascending, Range
<1>3. phase' # "off"
  BY DEF Starting
<1> QED
  BY <1>1, <1>2, <1>3 DEF QueueOrder, Uniform, Upto, Range, Covered

LEMMA ConfigureInOrder ==
  ASSUME SourceTypes, QueueOrder, MarksUniform, Configure
  PROVE  QueueOrder' /\ MarksUniform'
<1>1. /\ phase = "off" /\ phase' \in Starting /\ own' = <<>> /\ proc' = proc + 1
      /\ UNCHANGED <<db, kind, wm, queue, held>>
      /\ calls' = With(calls, "get", Placeholder, "configure", proc')
      /\ calls \in Seq(Call) /\ proc \in Nat
  BY DEF Configure, Starting, WithGet, SourceTypes
<1>2. QueueOrder'
  BY <1>1, QueueBegins
<1>3. Placeholder = Upto(0) /\ Placeholder \in Marks /\ "configure" \in Callers
  BY Constants
<1>4. PICK p \in Nat : p = proc'
  BY <1>1
<1>5. \A k \in DOMAIN calls' :
        \/ IsCall(calls'[k], Placeholder, "configure", p)
        \/ (k \in DOMAIN calls /\ calls'[k] = calls[k])
  <2> DEFINE ds == With(calls, "get", Placeholder, "configure", p)
  <2>1. \A k \in DOMAIN ds :
          \/ IsCall(ds[k], Placeholder, "configure", p)
          \/ (k \in DOMAIN calls /\ ds[k] = calls[k])
    BY <1>1, <1>3, <1>4, CallAdded
  <2> HIDE DEF ds
  <2>2. calls' = ds
    BY <1>1, <1>4 DEF ds
  <2> QED
    BY <2>1, <2>2
<1>6. \A k \in DOMAIN calls : calls[k].proc \in Nat
  <2>1. \A k \in DOMAIN calls : calls[k] \in Call
    BY <1>1
  <2> QED
    BY <2>1 DEF Call
<1>7. \A k \in DOMAIN calls' : Uniform(calls'[k].val) /\ calls'[k].proc <= proc'
  BY <1>1, <1>3, <1>4, <1>5, <1>6, UniformFacts DEF MarksUniform, IsCall
<1>8. MarksUniform'
  BY <1>1, <1>7 DEF MarksUniform, Uniform, Upto
<1> QED
  BY <1>2, <1>8

LEMMA ServeInOrder ==
  ASSUME SourceTypes, QueueOrder, MarksUniform, ServeStore(Saves)
  PROVE  QueueOrder' /\ MarksUniform'
<1>1. PICK k \in DOMAIN calls :
        \/ ServeGet(k, Saves) /\ UNCHANGED answer
        \/ Save(k) /\ UNCHANGED <<phase, wm>>
  BY DEF ServeStore
<1>2. UNCHANGED <<kind, proc, own, queue, held>>
  BY DEF ServeStore, histVars
<1>3. MarksUniform'
  BY <1>1, <1>2, MarksServed
<1>4. \/ UNCHANGED <<phase, wm>>
      \/ phase = "get" /\ db # Missing /\ wm' = db /\ phase' \in {"save", "start"}
  BY <1>1 DEF ServeGet
<1>5. GoesOn
  BY <1>4 DEF GoesOn, Early, Starting
<1>6. wm' = wm \/ (phase \in Starting /\ Uniform(wm'))
  BY <1>4 DEF MarksUniform, Starting
<1> QED
  BY <1>2, <1>3, <1>5, <1>6, QueueStays

LEMMA CommonInOrder ==
  ASSUME SourceTypes, QueueOrder, MarksUniform, Common
  PROVE  QueueOrder' /\ MarksUniform'
<1>1. CASE Arrive \/ Configured \/ Saved \/ Ask
  <2>1. /\ UNCHANGED <<kind, own, queue, held, wm, calls, proc, db>>
        /\ UNCHANGED phase \/ (phase = "save" /\ phase' = "start")
    BY <1>1 DEF Arrive, Configured, Saved, CalledBack, Ask, storeVars, lifeVars, histVars
  <2>2. GoesOn
    BY <2>1 DEF GoesOn, Early, Starting
  <2> QED
    BY <2>1, <2>2, QueueStays, MarksStay
<1>2. CASE Configure
  BY <1>2, ConfigureInOrder
<1>3. CASE ServeStore(Saves)
  BY <1>3, ServeInOrder
<1> QED
  BY <1>1, <1>2, <1>3 DEF Common

LEMMA ExitInOrder ==
  ASSUME SourceTypes, QueueOrder, MarksUniform, Exit
  PROVE  QueueOrder' /\ MarksUniform'
<1>1. PICK n \in 0..Len(calls) : calls' = Surviving(n)
  BY DEF Exit, Die
<1>2. /\ phase' = "off" /\ wm' = Upto(0) /\ queue' = <<>> /\ held' = {}
      /\ UNCHANGED <<db, kind, proc, own>> /\ calls \in Seq(Call)
  BY DEF Exit, Die, SourceTypes
<1>3. QueueOrder'
  <2>1. Range(queue') = {}
    BY <1>2 DEF Range
  <2>2. OwnThenQueue'
    BY <1>2, <2>1 DEF QueueOrder, OwnThenQueue, Ascending, Range
  <2>3. Uniform(wm')
    BY <1>2, UniformFacts
  <2> QED
    BY <1>2, <2>2, <2>3 DEF QueueOrder, Starting, Uniform, Upto
<1>4. MarksUniform'
  <2>1. \A k \in DOMAIN calls' : k \in DOMAIN calls /\ calls'[k] = calls[k]
    BY <1>1, <1>2 DEF Surviving
  <2> QED
    BY <1>2, <2>1 DEF MarksUniform, Uniform, Upto
<1> QED
  BY <1>3, <1>4
-----------------------------------------------------------------------------
(* Steps in which nothing is read or given.                                *)
LEMMA Rests ==
  ASSUME SourceTypes, QueueOrder, MarksUniform, GoesOn,
         UNCHANGED <<kind, own, queue, held, wm, proc>>,
         UNCHANGED <<db, calls>> \/ (UNCHANGED db /\ \E who \in Callers : Store(who))
  PROVE  QueueOrder' /\ MarksUniform'
<1>1. QueueOrder' /\ Uniform(wm')
  BY QueueStays DEF QueueOrder
<1>2. CASE UNCHANGED <<db, calls>>
  BY <1>1, <1>2, MarksStay
<1>3. CASE UNCHANGED db /\ \E who \in Callers : Store(who)
  <2>1. PICK who \in Callers : Store(who)
    BY <1>3
  <2> QED
    BY <1>1, <1>3, <2>1, MarksSaved
<1> QED
  BY <1>1, <1>2, <1>3

(* What is read is queued, and the mark of it saved or not.                *)
LEMMA ReadsOn ==
  ASSUME SourceTypes, QueueOrder, MarksUniform, phase \notin Early, kind # "httpsm",
         UNCHANGED <<kind, phase, own, held, proc, db>>, NEW CONSTANT n \in Nat,
         queue' = queue \o First(InOrder(Beyond(wm)), n),
         wm' = IF First(InOrder(Beyond(wm)), n) = <<>> THEN wm
               ELSE Upto(Last(First(InOrder(Beyond(wm)), n))),
         UNCHANGED calls \/ \E who \in Callers : Store(who)
  PROVE  QueueOrder' /\ MarksUniform'
<1>1. avail \in 0..MaxItems /\ wm \in Marks
  BY DEF SourceTypes
<1>2. PICK items \in Seq(Items) : items = First(InOrder(Beyond(wm)), n)
  BY <1>1, FirstInOrder
<1>3. Ascending(items) /\ \A i \in Range(items) : i \in Beyond(wm)
  BY <1>1, <1>2, FirstInOrder
<1>4. /\ queue' = queue \o items
      /\ wm' = IF items = <<>> THEN wm ELSE Upto(Last(items))
  BY <1>2
<1>5. QueueOrder'
  BY <1>3, <1>4, QueueReads
<1>6. Uniform(wm')
  BY <1>5 DEF QueueOrder, Uniform, Upto
<1>7. CASE UNCHANGED calls
  BY <1>5, <1>7, MarksStay
<1>8. CASE \E who \in Callers : Store(who)
  <2>1. PICK who \in Callers : Store(who)
    BY <1>8
  <2> QED
    BY <1>5, <1>6, <2>1, MarksSaved
<1> QED
  BY <1>7, <1>8

LEMMA SmAnswersInOrder ==
  ASSUME SourceTypes, QueueOrder, MarksUniform, PublishesFirst, UNCHANGED kind, SmAnswers
  PROVE  QueueOrder' /\ MarksUniform'
<1>1. /\ kind = "httpsm" /\ phase = "up" /\ held = {} /\ Store("next") /\ "next" \in Callers
      /\ UNCHANGED <<db, phase, proc, queue, own>>
  BY Constants DEF SmAnswers, Up, PublishesFirst, lifeVars, histVars
<1>2. CASE UNCHANGED <<wm, held>>
  <2>1. GoesOn
    BY <1>1 DEF GoesOn
  <2>2. PICK who \in Callers : Store(who)
    BY <1>1
  <2> QED
    BY <1>1, <1>2, <2>1, <2>2, Rests
<1>3. CASE ~UNCHANGED <<wm, held>>
  <2> DEFINE s == InOrder(Beyond(wm))
             i == Head(s)
  <2>1. Beyond(wm) # {} /\ held' = {i} /\ wm' = Upto(i)
    BY <1>3 DEF SmAnswers
  <2>2. /\ Beyond(wm) \in SUBSET Items /\ Uniform(wm) /\ own \in Seq(Items)
        /\ queue = <<>> /\ Range(own) \subseteq Covered(wm) /\ OwnThenQueue
    BY <1>1, ItemFacts DEF Beyond, QueueOrder, SourceTypes
  <2>3. /\ s \in Seq(Items) /\ \A x \in Beyond(wm) : \E k \in DOMAIN s : s[k] = x
        /\ \A k \in DOMAIN s : s[k] \in Beyond(wm)
    BY <2>2, InOrderOf
  <2>4. i \in Items /\ i \in Beyond(wm)
    <3> HIDE DEF s
    <3>1. s # <<>>
      BY <2>1, <2>3
    <3> QED
      BY <2>2, <2>3, <3>1
  <2> HIDE DEF s, i
  <2>5. i \notin Covered(wm) /\ Uniform(Upto(i)) /\ i \in Covered(Upto(i))
    BY <2>2, <2>4, UniformFacts, ItemFacts
  <2>6. Range(own) \subseteq Items
    BY <2>2 DEF Range
  <2>7. \A j \in Range(own) : j < i
    BY <2>2, <2>4, <2>5, <2>6, UniformFacts
  <2>8. Range(own) \subseteq Covered(Upto(i))
    BY <2>4, <2>6, <2>7, ItemFacts
  <2>9. QueueOrder'
    <3>1. OwnThenQueue'
      BY <1>1, <2>2 DEF OwnThenQueue, Ascending, Range
    <3>2. Range(own') \cup Range(queue') \cup held' \subseteq Covered(wm')
      BY <1>1, <2>1, <2>2, <2>5, <2>8 DEF Range
    <3>3. \A a \in Range(own'), b \in held' : a < b
      BY <1>1, <2>1, <2>7 DEF Range
    <3> QED
      BY <1>1, <2>1, <2>2, <2>5, <3>1, <3>2, <3>3
      DEF QueueOrder, Early, Starting, Uniform, Upto, Range, Covered
  <2>10. Uniform(wm')
    BY <2>1, <2>5
  <2>11. PICK who \in Callers : Store(who)
    BY <1>1
  <2> QED
    BY <1>1, <2>9, <2>10, <2>11, MarksSaved
<1> QED
  BY <1>2, <1>3

LEMMA SmSavedInOrder ==
  ASSUME SourceTypes, QueueOrder, MarksUniform, PublishesFirst, UNCHANGED kind, SmSaved
  PROVE  QueueOrder' /\ MarksUniform'
<1>1. kind = "httpsm" /\ UNCHANGED <<db, calls, phase, proc, wm, queue>>
  BY DEF SmSaved, storeVars, lifeVars
<1>2. GoesOn
  BY <1>1 DEF GoesOn
<1>3. CASE UNCHANGED <<held, histVars>>
  BY <1>1, <1>2, <1>3, Rests DEF histVars
<1>4. CASE (\E i \in held : Give(i)) /\ held' = {}
  <2>1. PICK i \in held : Give(i)
    BY <1>4
  <2>2. /\ phase \notin Early /\ queue = <<>> /\ own \in Seq(Items) /\ OwnThenQueue
        /\ \A j \in Range(own) : j < i
        /\ Range(own) \cup {i} \subseteq Covered(wm) /\ own' = Append(own, i)
    BY <1>1, <2>1 DEF QueueOrder, Early, SourceTypes, Give
  <2>3. i \in Items
    BY <2>2 DEF Covered
  <2>4. Range(own') = Range(own) \cup {i} /\ Ascending(own')
    BY <2>2, <2>3, RangeAppend, AscendingAppend DEF OwnThenQueue
  <2>5. Range(queue') = {} /\ Ascending(queue')
    BY <1>1, <2>2 DEF Range, Ascending
  <2>6. OwnThenQueue'
    BY <2>4, <2>5 DEF OwnThenQueue, Ascending, Range
  <2>7. Range(own') \cup Range(queue') \cup held' \subseteq Covered(wm')
    BY <1>1, <1>4, <2>2, <2>4, <2>5
  <2>8. QueueOrder'
    BY <1>1, <1>4, <2>2, <2>6, <2>7
    DEF QueueOrder, Early, Starting, Uniform, Upto, Range, Covered
  <2> QED
    BY <1>1, <2>8, MarksStay
<1> QED
  BY <1>3, <1>4 DEF SmSaved

LEMMA PushInOrder ==
  ASSUME SourceTypes, QueueOrder, MarksUniform, UNCHANGED kind, PushLoop
  PROVE  QueueOrder' /\ MarksUniform'
<1>1. UNCHANGED <<db, calls, phase, proc, wm, held>>
  BY DEF PushLoop, storeVars, lifeVars
<1>2. GoesOn
  BY <1>1 DEF GoesOn
<1>3. PICK r \in 1..Loops : Sees(r) \/ Drain(r) \/ SetTimer(r) \/ LoopAgain(r)
  BY DEF PushLoop
<1>4. CASE Sees(r) \/ SetTimer(r) \/ LoopAgain(r)
  BY <1>1, <1>2, <1>4, Rests DEF Sees, SetTimer, LoopAgain, histVars
<1>5. CASE Drain(r)
  <2>1. QueueOrder'
    <3>1. CASE r = 1
      BY <1>1, <1>5, <3>1, QueueGives DEF Drain, GiveFirst
    <3>2. CASE r # 1
      BY <1>1, <1>5, <3>2, QueueDrains DEF Drain, histVars
    <3> QED
      BY <3>1, <3>2
  <2> QED
    BY <1>1, <2>1, MarksStay
<1> QED
  BY <1>3, <1>4, <1>5

LEMMA HttpInOrder ==
  ASSUME SourceTypes, QueueOrder, MarksUniform, kind = "httpsm" => PublishesFirst,
         UNCHANGED kind, Http, HttpStep
  PROVE  QueueOrder' /\ MarksUniform'
<1>1. CASE StartHttp
  <2>1. GoesOn
    BY <1>1 DEF StartHttp, GoesOn, Early, Starting
  <2> QED
    BY <1>1, <2>1, Rests DEF StartHttp, storeVars, histVars
<1>2. CASE HttpNext
  <2>1. UNCHANGED <<db, calls, phase, proc, wm, held>>
    BY <1>2 DEF HttpNext, storeVars, lifeVars
  <2>2. CASE GiveFirst
    BY <2>1, <2>2, QueueGives, MarksStay
  <2>3. CASE UNCHANGED <<queue, histVars>>
    BY <2>1, <2>3, Rests DEF GoesOn, histVars
  <2> QED
    BY <1>2, <2>2, <2>3 DEF HttpNext
<1>3. CASE Answers
  <2>1. /\ phase \notin Early /\ kind # "httpsm"
        /\ UNCHANGED <<phase, own, held, proc, db>>
        /\ Queued(First(InOrder(Beyond(wm)), Batch)) /\ Store(Waiter)
    BY <1>3 DEF Answers, Up, Early, ElasticAnswers, HttpAnswers, lifeVars, histVars
  <2>2. Waiter \in Callers /\ Batch \in Nat
    BY Constants, SourceAssumption DEF Waiter
  <2>3. \E who \in Callers : Store(who)
    BY <2>1, <2>2
  <2>4. PICK n \in Nat : n = Batch
    BY <2>2
  <2> QED
    BY <2>1, <2>3, <2>4, ReadsOn DEF Queued
<1>4. CASE Fails
  <2>1. /\ UNCHANGED <<phase, proc, wm, queue, held, own>>
        /\ ElasticFails \/ HttpFails
    BY <1>4 DEF Fails, lifeVars, histVars
  <2>2. Waiter \in Callers
    BY Constants DEF Waiter
  <2>3. UNCHANGED <<db, calls>> \/ (UNCHANGED db /\ \E who \in Callers : Store(who))
    BY <2>1, <2>2 DEF ElasticFails, HttpFails, NoStore, storeVars
  <2> QED
    BY <2>1, <2>3, Rests DEF GoesOn
<1>5. CASE Fetched \/ SmNext \/ SmFails
  BY <1>5, Rests DEF Fetched, SmNext, SmFails, storeVars, lifeVars, histVars, GoesOn
<1>6. CASE PushLoop
  BY <1>6, PushInOrder
<1>7. CASE SmAnswers \/ SmSaved
  BY <1>7, SmAnswersInOrder, SmSavedInOrder DEF SmAnswers, SmSaved
<1>8. CASE HttpPause \/ HttpStop
  <2>1. /\ UNCHANGED <<proc, wm, queue, held, own>>
        /\ UNCHANGED phase \/ (phase = "up" /\ phase' = "stopping")
        /\ ElasticSaves("pause") \/ ElasticSaves("stop")
    BY <1>8 DEF HttpPause, HttpStop, Up, lifeVars, histVars
  <2>2. UNCHANGED <<db, calls>> \/ (UNCHANGED db /\ \E who \in Callers : Store(who))
    BY <2>1, Constants DEF ElasticSaves, NoStore, storeVars
  <2>3. GoesOn
    BY <2>1 DEF GoesOn, Early, Starting
  <2> QED
    BY <2>1, <2>2, <2>3, Rests
<1>9. CASE HttpResume
  BY <1>9, Rests DEF HttpResume, storeVars, lifeVars, histVars, GoesOn
<1> QED
  BY <1>1, <1>2, <1>3, <1>4, <1>5, <1>6, <1>7, <1>8, <1>9 DEF HttpStep
-----------------------------------------------------------------------------
LEMMA KafkaInOrder ==
  ASSUME SourceTypes, QueueOrder, MarksUniform, UNCHANGED kind, kind = "kafka",
         KafkaConfigure \/ KafkaStep, ~Reconnect
  PROVE  QueueOrder' /\ MarksUniform'
<1>1. CASE KafkaConfigure
  <2>1. /\ phase = "off" /\ phase' \in Starting /\ own' = <<>> /\ proc' = proc + 1
        /\ UNCHANGED <<db, calls, wm, queue, held>>
    BY <1>1 DEF KafkaConfigure, Starting, storeVars
  <2> QED
    BY <2>1, QueueBegins, MarksStay
<1>2. CASE KafkaStart
  <2>1. /\ phase = "start" /\ phase' = "up" /\ UNCHANGED <<db, calls, proc, queue, held, own>>
        /\ wm' = IF db = Missing THEN Upto(0) ELSE db
    BY <1>2 DEF KafkaStart, storeVars, histVars
  <2>2. GoesOn /\ phase \in Starting
    BY <2>1 DEF GoesOn, Early, Starting
  <2>3. Uniform(wm')
    BY <2>1, UniformFacts DEF MarksUniform
  <2> QED
    BY <2>1, <2>2, <2>3, QueueStays, MarksStay
<1>3. CASE EachBatch
  <2>1. /\ phase \notin Early /\ UNCHANGED <<db, calls, phase, proc, own, held>>
        /\ First(InOrder(Beyond(wm)), Batch) # <<>>
        /\ queue' = queue \o First(InOrder(Beyond(wm)), Batch)
        /\ wm' = Upto(Last(First(InOrder(Beyond(wm)), Batch)))
    BY <1>3 DEF EachBatch, Early, storeVars, lifeVars, histVars
  <2>2. PICK n \in Nat : n = Batch
    BY SourceAssumption
  <2> QED
    BY <2>1, <2>2, ReadsOn
<1>4. CASE BatchIgnored
  <2> DEFINE b == First(InOrder(Beyond(wm)), Batch)
  <2>1. /\ phase = "stopping" /\ UNCHANGED <<db, calls, phase, proc, own, queue, held>>
        /\ b # <<>> /\ wm' = Upto(Last(b))
    BY <1>4 DEF BatchIgnored, storeVars, lifeVars, histVars
  <2>2. b \in Seq(Items) /\ Ascending(b) /\ \A i \in Range(b) : i \in Beyond(wm)
    BY FirstInOrder, SourceAssumption DEF SourceTypes
  <2> HIDE DEF b
  <2>3. PICK items \in Seq(Items) : items = b
    BY <2>2
  <2>4. /\ Uniform(wm) /\ \A i \in Range(items) : i \notin Covered(wm)
    BY <2>2, <2>3, UniformFacts DEF QueueOrder
  <2>5. Uniform(wm') /\ Covered(wm) \cup Range(items) \subseteq Covered(wm')
    BY <2>1, <2>2, <2>3, <2>4, ReadUniform
  <2>6. Range(own) \cup Range(queue) \cup held' \subseteq Covered(wm')
    BY <2>1, <2>3, <2>5 DEF QueueOrder
  <2>7. OwnThenQueue'
    BY <2>1 DEF QueueOrder, OwnThenQueue, Ascending, Range
  <2>8. QueueOrder'
    BY <2>1, <2>5, <2>6, <2>7
    DEF QueueOrder, Early, Starting, Uniform, Upto, Range, Covered
  <2> QED
    BY <2>1, <2>8, MarksStay
<1>5. CASE Commit
  <2>1. UNCHANGED <<calls, phase, proc, wm, own, queue, held>> /\ db' = wm /\ Uniform(wm)
    BY <1>5 DEF Commit, histVars, lifeVars, QueueOrder
  <2>2. GoesOn
    BY <2>1 DEF GoesOn
  <2> QED
    BY <2>1, <2>2, QueueStays, MarksStay
<1>6. CASE KafkaNext
  <2>1. GiveFirst /\ UNCHANGED <<db, calls, phase, proc, wm, held>>
    BY <1>6 DEF KafkaNext, storeVars, lifeVars
  <2> QED
    BY <2>1, QueueGives, MarksStay
<1>7. CASE BatchEnds \/ Ival \/ KafkaPause \/ KafkaResume \/ KafkaStop \/ Disconnect
  <2>1. /\ UNCHANGED <<db, calls, proc, wm, queue, held, own>>
        /\ UNCHANGED phase \/ (phase = "up" /\ phase' = "stopping")
    BY <1>7 DEF BatchEnds, Ival, KafkaPause, KafkaResume, KafkaStop, Disconnect, Up,
       sourceVars, storeVars, lifeVars, histVars
  <2>2. GoesOn
    BY <2>1 DEF GoesOn, Early, Starting
  <2> QED
    BY <2>1, <2>2, Rests
<1> QED
  BY <1>1, <1>2, <1>3, <1>4, <1>5, <1>6, <1>7 DEF KafkaStep

LEMMA WinpollInOrder ==
  ASSUME SourceTypes, QueueOrder, MarksUniform, UNCHANGED kind, kind = "winpoll",
         NoChild, WindowsStep
  PROVE  QueueOrder' /\ MarksUniform'
<1>1. child = "none" /\ ~Wevtutil
  BY DEF NoChild, Wevtutil
<1>2. CASE WinpollStart
  <2>1. GoesOn
    BY <1>2 DEF WinpollStart, GoesOn, Early, Starting
  <2> QED
    BY <1>2, <2>1, Rests DEF WinpollStart, storeVars, histVars
<1>3. CASE WinpollNext
  <2>1. phase \notin Early /\ UNCHANGED <<phase, proc>>
    BY <1>3 DEF WinpollNext, Up, Early, lifeVars
  <2>2. CASE GiveFirst /\ UNCHANGED <<storeVars, wm, held>>
    BY <2>1, <2>2, QueueGives, MarksStay DEF storeVars
  <2>3. CASE queue = <<>> /\ WinpollRead(ReadAll) /\ UNCHANGED histVars
    <3>1. /\ avail \in 0..MaxItems /\ wm \in Marks /\ ReadSize \in Nat
      BY WindowsAssumption DEF SourceTypes
    <3> DEFINE items == ReadAll
    <3>2. /\ queue' = queue \o items
          /\ wm' = IF items = <<>> THEN wm ELSE Upto(MaxId(items))
          /\ Store("next") /\ UNCHANGED <<db, held>>
          /\ items # <<>> => /\ MaxId(items) \in Range(items)
                             /\ \A j \in Range(items) : j <= MaxId(items)
      BY <2>3, <3>1, WinpollReads
    <3>3. items = First(InOrder(Beyond(wm)), ReadSize)
      BY DEF ReadAll
    <3>4. items \in Seq(Items) /\ Ascending(items)
      BY <3>1, <3>3, FirstInOrder
    <3> HIDE DEF items
    <3>5. items # <<>> => MaxId(items) = Last(items)
      <4>1. SUFFICES ASSUME items # <<>>
                     PROVE  MaxId(items) = Last(items)
        OBVIOUS
      <4>2. Last(items) \in Range(items) /\ \A i \in Range(items) : i <= Last(items)
        BY <3>4, <4>1, LastIsMost
      <4>3. Range(items) \subseteq Nat
        BY <3>4, ItemFacts DEF Range
      <4> QED
        BY <3>2, <4>1, <4>2, <4>3
    <3>6. wm' = IF items = <<>> THEN wm ELSE Upto(Last(items))
      BY <3>2, <3>5
    <3>7. \E who \in Callers : Store(who)
      BY <3>2, Constants
    <3>8. PICK n \in Nat : n = ReadSize
      BY <3>1
    <3>9. UNCHANGED own
      BY <2>3 DEF histVars
    <3> QED
      BY <2>1, <3>2, <3>3, <3>6, <3>7, <3>8, <3>9, ReadsOn
  <2>4. CASE UNCHANGED <<storeVars, wm, held, queue, histVars>>
    BY <2>1, <2>4, Rests DEF GoesOn, storeVars, histVars
  <2> QED
    BY <1>3, <2>2, <2>3, <2>4 DEF WinpollNext
<1>4. CASE WinpollSaved \/ WindowsResume \/ WindowsPause \/ WindowsStop
  <2>1. /\ UNCHANGED <<db, calls, proc, wm, queue, held, own>>
        /\ UNCHANGED phase \/ (phase = "up" /\ phase' = "stopping")
    BY <1>1, <1>4 DEF WinpollSaved, WindowsResume, WindowsPause, WindowsStop, Up, WevtutilSaves,
       NoStore, storeVars, lifeVars, histVars
  <2>2. GoesOn
    BY <2>1 DEF GoesOn, Early, Starting
  <2> QED
    BY <2>1, <2>2, Rests
<1> QED
  BY <1>1, <1>2, <1>3, <1>4 DEF WindowsStep, WevtutilStart, WevtutilNext, Printed, Ends,
     EndsBadly, SetupReset, SetupFails, EndFetch, WevtutilFetched, Kill
-----------------------------------------------------------------------------
(* The sqlserver input, whose queries read beyond the mark, and whose rows *)
(* move it.                                                                *)
LEMMA SqlRests ==
  ASSUME SqlOrder, GoesOn, UNCHANGED <<reqs, sem, calls, proc, wm>>, answer' \in {answer, "none"}
  PROVE  SqlOrder'
<1>1. RowsInOrder'
  BY DEF SqlOrder, RowsInOrder, Ascending, Range, Covered
<1>2. phase' # "off" => OneQuery'
  BY DEF SqlOrder, OneQuery, NoneDone, IsDone, GoesOn
<1> QED
  BY <1>1, <1>2 DEF SqlOrder, GoesOn

LEMMA SqlConfigures ==
  ASSUME SourceTypes, MarksUniform, SqlOrder, Configure, UNCHANGED <<reqs, sem>>
  PROVE  SqlOrder'
<1>1. /\ phase = "off" /\ phase' = "get" /\ proc' = proc + 1 /\ UNCHANGED <<wm, answer>>
      /\ calls' = With(calls, "get", Placeholder, "configure", proc')
      /\ calls \in Seq(Call) /\ proc \in Nat
  BY DEF Configure, WithGet, SourceTypes
<1>2. reqs = <<>> /\ sem = 0 /\ answer = "none"
  BY <1>1 DEF SqlOrder, Early
<1>3. PICK p \in Nat : p = proc'
  BY <1>1
<1>4. \A k \in DOMAIN calls' :
        \/ IsCall(calls'[k], Placeholder, "configure", p)
        \/ (k \in DOMAIN calls /\ calls'[k] = calls[k])
  <2> DEFINE ds == With(calls, "get", Placeholder, "configure", p)
  <2>1. \A k \in DOMAIN ds :
          \/ IsCall(ds[k], Placeholder, "configure", p)
          \/ (k \in DOMAIN calls /\ ds[k] = calls[k])
    BY <1>1, <1>3, CallAdded, Constants
  <2> HIDE DEF ds
  <2>2. calls' = ds
    BY <1>1, <1>3 DEF ds
  <2> QED
    BY <2>1, <2>2
<1>5. \A k \in DOMAIN calls : calls[k].proc \in Nat /\ calls[k].proc <= proc
  <2>1. \A k \in DOMAIN calls : calls[k] \in Call
    BY <1>1
  <2> QED
    BY <2>1 DEF Call, MarksUniform
<1>6. NoneDone'
  <2>1. SUFFICES ASSUME NEW k \in DOMAIN calls', calls'[k].who = "done", calls'[k].proc = proc'
                 PROVE  FALSE
    BY DEF NoneDone, IsDone
  <2>2. k \in DOMAIN calls /\ calls'[k] = calls[k]
    BY <1>4, <2>1 DEF IsCall
  <2> QED
    BY <1>1, <1>5, <2>1, <2>2
<1>7. OneQuery'
  BY <1>1, <1>2, <1>6 DEF OneQuery, NoneDone
<1>8. RowsInOrder'
  BY <1>2 DEF RowsInOrder
<1> QED
  BY <1>1, <1>2, <1>7, <1>8 DEF SqlOrder

(* The store answers a save of a query that has ended: there is no other.  *)
LEMMA SqlServes ==
  ASSUME SourceTypes, SqlOrder, kind = "sqlserver", ServeStore(Saves), UNCHANGED <<reqs, sem>>
  PROVE  SqlOrder'
<1>1. PICK k \in DOMAIN calls :
        \/ ServeGet(k, Saves) /\ UNCHANGED answer
        \/ /\ Save(k) /\ UNCHANGED <<phase, wm>>
           /\ answer' = IF calls[k].proc = proc /\ phase # "off"
                        THEN calls[k].who ELSE "none"
  BY DEF ServeStore
<1>2. UNCHANGED proc /\ answer = "none" /\ ~Saves
  BY DEF ServeStore, Saves, Http, Winpoll
<1>3. \/ \A j \in DOMAIN calls' : Same(j, j)
      \/ \A j \in DOMAIN calls' : Same(j, Later(j, k))
  BY <1>1, <1>2, CallServed
<1>4. \A j \in DOMAIN calls' : j \in Nat
  <2>1. DOMAIN calls' \subseteq Nat
    <3>1. calls \in Seq(Call)
      BY DEF SourceTypes
    <3>2. CASE \A j \in DOMAIN calls' : Same(j, j)
      BY <3>1, <3>2 DEF Same
    <3>3. CASE calls' = Without(k)
      <4> DEFINE e == SubSeq(calls, 1, k - 1) \o SubSeq(calls, k + 1, Len(calls))
      <4>1. e \in Seq(Call)
        BY <3>1, WithoutOne
      <4>2. calls' = e
        BY <3>3 DEF Without
      <4> HIDE DEF e
      <4> QED
        BY <4>1, <4>2
    <3> QED
      BY <1>1, <1>2, <3>1, <3>2, <3>3 DEF ServeGet, Save, GetMisses, Create, GetHits
  <2> QED
    BY <2>1
<1>5. \A i, j \in DOMAIN calls' : IsDone(i)' /\ IsDone(j)' /\ phase # "off" => i = j
  <2>1. SUFFICES ASSUME NEW i \in DOMAIN calls', NEW j \in DOMAIN calls',
                        IsDone(i)', IsDone(j)', phase # "off"
                 PROVE  i = j
    OBVIOUS
  <2>2. CASE \A x \in DOMAIN calls' : Same(x, x)
    BY <1>2, <2>1, <2>2 DEF IsDone, Same, SqlOrder, OneQuery
  <2>3. CASE \A x \in DOMAIN calls' : Same(x, Later(x, k))
    <3>1. IsDone(Later(i, k)) /\ IsDone(Later(j, k))
          /\ Later(i, k) \in DOMAIN calls /\ Later(j, k) \in DOMAIN calls
      BY <1>2, <2>1, <2>3 DEF IsDone, Same
    <3>2. Later(i, k) = Later(j, k)
      BY <2>1, <3>1 DEF SqlOrder, OneQuery
    <3>3. k \in Nat /\ i \in Nat /\ j \in Nat
      BY <1>4 DEF SourceTypes
    <3> QED
      BY <3>2, <3>3 DEF Later
  <2> QED
    BY <1>3, <2>2, <2>3
<1>6. ASSUME phase # "off"
      PROVE  NoneDone => NoneDone'
  BY <1>2, <1>3 DEF NoneDone, IsDone, Same
<1>7. RowsInOrder'
  <2>1. CASE UNCHANGED wm
    BY <2>1 DEF SqlOrder, RowsInOrder, Ascending, Range, Covered
  <2>2. CASE phase = "get"
    BY <2>2 DEF SqlOrder, Early, RowsInOrder
  <2> QED
    BY <1>1, <2>1, <2>2 DEF ServeGet
<1>8. phase' # "off" => OneQuery'
  <2>1. SUFFICES ASSUME phase' # "off"
                 PROVE  OneQuery'
    OBVIOUS
  <2>2. phase # "off"
    BY <1>1, <2>1 DEF ServeGet
  <2>3. OneQuery
    BY <2>2 DEF SqlOrder
  <2>4. CASE answer' = "done"
    <3>1. /\ Save(k) /\ IsDone(k) /\ calls' = Without(k)
          /\ \A j \in DOMAIN calls' : Same(j, Later(j, k))
      <4>1. Save(k) /\ IsDone(k) /\ calls' = Without(k)
        BY <1>1, <1>2, <2>2, <2>4 DEF IsDone, Save
      <4> DEFINE e == SubSeq(calls, 1, k - 1) \o SubSeq(calls, k + 1, Len(calls))
      <4>2. \A j \in DOMAIN e : \E i \in DOMAIN calls :
              i = (IF j < k THEN j ELSE j + 1) /\ e[j] = calls[i]
        BY WithoutOne DEF SourceTypes
      <4>3. calls' = e
        BY <4>1 DEF Without
      <4> HIDE DEF e
      <4>4. \A j \in DOMAIN calls' : Same(j, Later(j, k))
        BY <4>2, <4>3 DEF Same, Later
      <4> QED
        BY <4>1, <4>4
    <3>2. NoneDone'
      <4>1. SUFFICES ASSUME NEW j \in DOMAIN calls', IsDone(j)'
                     PROVE  FALSE
        BY DEF NoneDone
      <4>2. IsDone(Later(j, k)) /\ Later(j, k) \in DOMAIN calls
        BY <1>2, <3>1, <4>1 DEF IsDone, Same
      <4>3. Later(j, k) = k
        BY <2>3, <3>1, <4>2 DEF OneQuery
      <4>4. j \in Nat /\ k \in Nat
        BY <1>4 DEF SourceTypes
      <4> QED
        BY <4>3, <4>4 DEF Later
    <3>3. sem = 1 /\ reqs = <<>>
      BY <2>3, <3>1 DEF OneQuery, NoneDone
    <3> QED
      BY <1>5, <2>2, <2>4, <3>2, <3>3 DEF OneQuery, NoneDone
  <2>5. CASE answer' # "done"
    <3>1. NoneDone => NoneDone'
      BY <1>6, <2>2
    <3> QED
      BY <1>5, <2>2, <2>3, <2>5, <3>1 DEF OneQuery, NoneDone
  <2> QED
    BY <2>4, <2>5
<1>9. (phase' \in Early => phase \in Early) /\ (phase' = "off" => phase = "off" /\ answer' = "none")
  BY <1>1, <1>2 DEF ServeGet, Early
<1> QED
  BY <1>7, <1>8, <1>9 DEF SqlOrder
(* A query for what is beyond the mark: none runs, and none ends.          *)
LEMMA SqlQueries ==
  ASSUME SourceTypes, SqlOrder, bound.cursors = 1, Up, StartQuery,
         UNCHANGED <<calls, proc, phase, answer, wm>>
  PROVE  SqlOrder'
<1> DEFINE s == InOrder(Beyond(wm))
           new == [rest |-> s, paused |-> FALSE]
<1>1. phase = "up" /\ answer = "none" /\ OneQuery
  BY DEF Up, SqlOrder
<1>2. sem = 0 /\ reqs = <<>> /\ NoneDone
  BY <1>1 DEF StartQuery, Available, OneQuery
<1>3. sem' = 1 /\ reqs' = Append(reqs, new)
  BY <1>2 DEF StartQuery
<1>4. /\ s \in Seq(Items) /\ Ascending(s) /\ \A i \in Range(s) : i \in Beyond(wm)
      /\ avail \in 0..MaxItems /\ wm \in Marks
  <2>1. Covered(wm) \subseteq Items /\ avail \in 0..MaxItems /\ wm \in Marks
    BY DEF Covered, SourceTypes
  <2> QED
    BY <2>1, ReadFrom
<1>5. \A i \in Range(s) : i \notin Covered(wm)
  <2>1. SUFFICES ASSUME NEW i \in Range(s), i \in Covered(wm)
                 PROVE  FALSE
    OBVIOUS
  <2>2. i \in Items /\ i <= wm[ClassOf[i]] /\ i > wm[ClassOf[i]]
    BY <1>4, <2>1 DEF Covered, Beyond
  <2>3. i \in Nat /\ wm[ClassOf[i]] \in Nat
    BY <1>4, <2>2, ItemFacts, Constants DEF Marks
  <2> QED
    BY <2>2, <2>3
<1>6. new.rest = s
  OBVIOUS
<1> HIDE DEF s, new
<1>7. Len(reqs') = 1 /\ DOMAIN reqs' = {1} /\ reqs'[1] = new /\ reqs' # <<>>
  BY <1>2, <1>3
<1>8. RowsInOrder'
  BY <1>4, <1>5, <1>6, <1>7 DEF RowsInOrder, Ascending, Range, Covered
<1>9. OneQuery'
  BY <1>1, <1>2, <1>3 DEF OneQuery, NoneDone, IsDone
<1> QED
  BY <1>1, <1>8, <1>9 DEF SqlOrder, Early

(* One query runs at most: it is the first.                                *)
LEMMA SqlOne ==
  ASSUME SqlOrder, reqs \in Seq(Query), NEW q \in DOMAIN reqs
  PROVE  q = 1 /\ Len(reqs) = 1 /\ DOMAIN reqs = {1} /\ reqs # <<>>
<1>1. Len(reqs) <= 1 /\ Len(reqs) \in Nat /\ DOMAIN reqs = 1..Len(reqs)
  BY DEF SqlOrder, RowsInOrder
<1> QED
  BY <1>1

(* A row is beyond the mark and beyond what is queued; it is the mark.     *)
LEMMA RowInOrder ==
  ASSUME SourceTypes, QueueOrder, MarksUniform, SqlOrder, RowsFollow, UNCHANGED kind,
         kind = "sqlserver", NEW CONSTANT q \in DOMAIN reqs, Row(q)
  PROVE  QueueOrder' /\ MarksUniform' /\ SqlOrder'
<1> DEFINE rest == reqs[q].rest
           h == Head(rest)
           t == Tail(rest)
<1>1. /\ reqs \in Seq(Query) /\ reqs[q] \in Query /\ rest \in Seq(Items) /\ rest # <<>>
      /\ phase = "up" /\ answer = "none"
  BY SqlRest DEF RowsFollow, Row, Up
<1>2. /\ wm' = Upto(h) /\ queue' = Append(queue, h)
      /\ reqs' = [reqs EXCEPT ![q].rest = t]
      /\ UNCHANGED <<db, calls, proc, phase, held, answer, own, sem>>
  BY DEF Row, storeVars, lifeVars, histVars
<1>3. /\ h \in Items /\ t \in Seq(Items) /\ Range(rest) = {h} \cup Range(t)
      /\ Ascending(t) /\ \A i \in Range(t) : h < i
  BY <1>1, HeadAndTail, AscendingTail DEF SqlOrder, RowsInOrder
<1>4. q = 1 /\ Len(reqs) = 1 /\ DOMAIN reqs = {1} /\ reqs # <<>>
  BY <1>1, SqlOne
<1>5. h \notin Covered(wm)
  BY <1>3 DEF SqlOrder, RowsInOrder
<1>6. reqs'[1].rest = t /\ DOMAIN reqs' = {1} /\ Len(reqs') = 1 /\ reqs' # <<>>
  <2> DEFINE new == [reqs[q] EXCEPT !.rest = t]
  <2>1. reqs' = [reqs EXCEPT ![q] = new]
    BY <1>2
  <2>3. new \in Query /\ new.rest = t
    BY <1>1, <1>3 DEF Query
  <2> HIDE DEF new
  <2>2. DOMAIN reqs' = {1} /\ Len(reqs') = 1 /\ reqs'[1] = new /\ reqs' # <<>>
    BY <1>1, <1>4, <2>1, <2>3
  <2> QED
    BY <2>2, <2>3
<1> HIDE DEF rest, h, t
<1>7. /\ Uniform(wm) /\ queue \in Seq(Items) /\ Ascending(queue)
      /\ Range(queue) \subseteq Covered(wm) /\ Range(queue) \subseteq Items
      /\ phase \notin Early
  BY <1>1 DEF QueueOrder, OwnThenQueue, SourceTypes, Early, Covered
<1>8. \A i \in Covered(wm) : i \in Items /\ i < h
  BY <1>3, <1>5, <1>7, UniformFacts DEF Covered
<1>9. /\ Uniform(wm') /\ Covered(wm) \cup {h} \subseteq Covered(wm')
      /\ \A i \in Range(t) : i \notin Covered(wm')
  <2>1. Covered(Upto(h)) = {i \in Items : i <= h} /\ Uniform(Upto(h))
    BY <1>3, UniformFacts, ItemFacts
  <2>2. Covered(wm) \cup {h} \subseteq Covered(Upto(h))
    BY <1>3, <1>8, <2>1, ItemFacts
  <2>3. \A i \in Range(t) : i \notin Covered(Upto(h))
    <3>1. Range(t) \subseteq Items
      BY <1>3 DEF Range
    <3> QED
      BY <1>3, <2>1, <3>1, ItemFacts
  <2> QED
    BY <1>2, <2>1, <2>2, <2>3
<1>10. QueueOrder'
  <2>1. Ascending(queue') /\ Range(queue') = Range(queue) \cup {h}
    BY <1>2, <1>3, <1>7, <1>8, AscendingAppend, RangeAppend
  <2>2. PICK X \in SUBSET Items : X = {h}
    BY <1>3
  <2> QED
    BY <1>2, <1>5, <1>7, <1>9, <2>1, <2>2, QueueGrows
<1>11. MarksUniform'
  BY <1>2, MarksStay
<1>12. RowsInOrder'
  BY <1>3, <1>6, <1>9 DEF RowsInOrder, Ascending, Range, Covered
<1>13. OneQuery'
  BY <1>1, <1>2, <1>4, <1>6 DEF SqlOrder, OneQuery, NoneDone, IsDone
<1> QED
  BY <1>1, <1>2, <1>10, <1>11, <1>12, <1>13 DEF SqlOrder, Early

(* A query ends: its save takes the place of it.                           *)
LEMMA DoneInOrder ==
  ASSUME SourceTypes, SqlOrder, RowsFollow, Uniform(wm), NEW CONSTANT q \in DOMAIN reqs, Done(q)
  PROVE  SqlOrder'
<1>1. /\ reqs \in Seq(Query) /\ phase = "up" /\ answer = "none" /\ OneQuery
      /\ UNCHANGED <<proc, phase, wm, answer, sem>>
      /\ reqs' = SubSeq(reqs, 1, q - 1) \o SubSeq(reqs, q + 1, Len(reqs))
      /\ calls' = With(calls, "save", wm', "done", proc)
  BY DEF RowsFollow, Done, Up, SqlOrder, lifeVars, Store, WithSave
<1>2. q = 1 /\ Len(reqs) = 1 /\ reqs # <<>>
  BY <1>1, SqlOne
<1>3. reqs' = <<>>
  <2>1. reqs' \in Seq(Query) /\ Len(reqs') = Len(reqs) - 1
    BY <1>1, WithoutOne
  <2> QED
    BY <1>2, <2>1
<1>4. sem = 1 /\ NoneDone
  BY <1>1, <1>2 DEF OneQuery
<1> DEFINE ds == With(calls, "save", wm, "done", proc)
           n == Len(calls) + 1
<1>5. /\ DOMAIN ds = 1..n /\ DOMAIN calls = 1..Len(calls) /\ Len(calls) \in Nat
      /\ IsCall(ds[n], wm, "done", proc)
      /\ \A k \in 1..Len(calls) : ds[k] = calls[k]
  <2>1. calls \in Seq(Call) /\ wm \in Marks /\ "done" \in Callers /\ proc \in Nat
    BY Constants DEF SourceTypes
  <2> QED
    BY <2>1, CallAdded
<1>6. calls' = ds
  BY <1>1
<1> HIDE DEF ds
<1>7. \A k \in DOMAIN calls' : IsDone(k)' => k = n
  <2>1. SUFFICES ASSUME NEW k \in DOMAIN calls', IsDone(k)', k # n
                 PROVE  FALSE
    OBVIOUS
  <2>2. k \in DOMAIN calls /\ calls'[k] = calls[k]
    BY <1>5, <1>6, <2>1
  <2> QED
    BY <1>1, <1>4, <2>1, <2>2 DEF NoneDone, IsDone
<1>8. OneQuery'
  BY <1>1, <1>3, <1>4, <1>7 DEF OneQuery
<1>9. RowsInOrder'
  BY <1>3 DEF RowsInOrder
<1> QED
  BY <1>1, <1>8, <1>9 DEF SqlOrder, Early

LEMMA BacklogInOrder ==
  ASSUME SqlOrder, RowsFollow, Backlog
  PROVE  SqlOrder'
<1>1. /\ reqs \in Seq(Query) /\ reqs # <<>>
      /\ UNCHANGED <<calls, proc, phase, wm, answer, sem>>
  BY DEF RowsFollow, Backlog, sourceVars, storeVars, lifeVars
<1>2. PICK b \in BOOLEAN : reqs' = [reqs EXCEPT ![Len(reqs)].paused = b]
  BY DEF Backlog
<1>3. DOMAIN reqs' = DOMAIN reqs /\ Len(reqs') = Len(reqs) /\ reqs' # <<>>
      /\ \A p \in DOMAIN reqs : reqs'[p].rest = reqs[p].rest
  <2>1. \A p \in DOMAIN reqs : reqs[p] \in Query
    BY <1>1
  <2>2. reqs' \in Seq(Query) /\ DOMAIN reqs' = DOMAIN reqs /\ Len(reqs') = Len(reqs)
    <3> DEFINE q == Len(reqs)
               new == [reqs[q] EXCEPT !.paused = b]
    <3>1. reqs' = [reqs EXCEPT ![q] = new]
      BY <1>2
    <3>2. new \in Query /\ q \in DOMAIN reqs
      BY <1>1, <2>1 DEF Query
    <3> HIDE DEF q, new
    <3> QED
      BY <1>1, <3>1, <3>2
  <2>3. \A p \in DOMAIN reqs : reqs'[p].rest = reqs[p].rest
    BY <1>2, <2>1 DEF Query
  <2> QED
    BY <1>1, <2>2, <2>3
<1>4. RowsInOrder'
  BY <1>1, <1>3 DEF SqlOrder, RowsInOrder, Ascending, Range, Covered
<1>5. phase # "off" => OneQuery'
  BY <1>1, <1>3 DEF SqlOrder, OneQuery, NoneDone, IsDone
<1> QED
  BY <1>1, <1>4, <1>5 DEF SqlOrder

LEMMA SqlInOrder ==
  ASSUME SourceTypes, QueueOrder, MarksUniform, SqlOrder, RowsFollow, UNCHANGED kind,
         kind = "sqlserver", bound.cursors = 1, SqlStep, \A q \in DOMAIN reqs : ~QueryFails(q)
  PROVE  QueueOrder' /\ MarksUniform' /\ SqlOrder'
<1>1. CASE SqlStart \/ SqlPause \/ SqlStop
  <2>1. /\ UNCHANGED <<db, calls, proc, wm, queue, held, own, answer, reqs, sem>>
        /\ \/ UNCHANGED phase
           \/ phase = "up" /\ phase' = "stopping"
           \/ phase = "start" /\ phase' = "up"
    BY <1>1 DEF SqlStart, SqlPause, SqlStop, Up, storeVars, lifeVars, histVars, sqlVars
  <2>2. GoesOn
    BY <2>1 DEF GoesOn, Early, Starting
  <2> QED
    BY <2>1, <2>2, Rests, SqlRests
<1>2. CASE SqlNext
  <2>1. Up /\ UNCHANGED <<db, calls, phase, proc, wm, held, answer>> /\ GoesOn
    BY <1>2 DEF SqlNext, storeVars, lifeVars, GoesOn
  <2>2. CASE GiveFirst /\ UNCHANGED sqlVars
    BY <2>1, <2>2, QueueGives, MarksStay, SqlRests DEF sqlVars
  <2>3. CASE StartQuery /\ UNCHANGED <<queue, histVars>>
    BY <2>1, <2>3, Rests, SqlQueries DEF histVars
  <2> QED
    BY <1>2, <2>2, <2>3 DEF SqlNext
<1>3. CASE QuerySaved
  <2>1. /\ UNCHANGED <<db, calls, phase, proc, wm, queue, held, own, reqs>>
        /\ answer = "done" /\ answer' = "none" /\ sem' = sem - 1
    BY <1>3 DEF QuerySaved, storeVars, lifeVars, histVars
  <2>2. GoesOn
    BY <2>1 DEF GoesOn
  <2>3. phase # "off" /\ OneQuery
    BY <2>1 DEF SqlOrder
  <2>4. sem = 1 /\ reqs = <<>> /\ NoneDone
    BY <2>1, <2>3 DEF OneQuery
  <2>5. OneQuery' /\ RowsInOrder'
    BY <2>1, <2>4 DEF OneQuery, NoneDone, IsDone, RowsInOrder
  <2>6. SqlOrder'
    BY <2>1, <2>4, <2>5 DEF SqlOrder
  <2> QED
    BY <2>1, <2>2, <2>6, Rests
<1>4. CASE Backlog
  <2>1. UNCHANGED <<db, calls, phase, proc, wm, queue, held, own>>
    BY <1>4 DEF Backlog, sourceVars, storeVars, lifeVars, histVars
  <2>2. GoesOn
    BY <2>1 DEF GoesOn
  <2> QED
    BY <1>4, <2>1, <2>2, Rests, BacklogInOrder
<1>5. ASSUME NEW CONSTANT q \in DOMAIN reqs, Row(q)
      PROVE  QueueOrder' /\ MarksUniform' /\ SqlOrder'
  BY <1>5, RowInOrder
<1>6. ASSUME NEW CONSTANT q \in DOMAIN reqs, Done(q)
      PROVE  QueueOrder' /\ MarksUniform' /\ SqlOrder'
  <2>1. /\ UNCHANGED <<db, phase, proc, wm, queue, held, own>> /\ Uniform(wm)
        /\ \E who \in Callers : Store(who)
    BY <1>6, Constants DEF Done, lifeVars, histVars, QueueOrder
  <2>2. GoesOn
    BY <2>1 DEF GoesOn
  <2> QED
    BY <1>6, <2>1, <2>2, Rests, DoneInOrder
<1> QED
  BY <1>1, <1>2, <1>3, <1>4, <1>5, <1>6 DEF SqlStep
-----------------------------------------------------------------------------
(* The wevtutil input.  The types of the source, whatever its steps do.    *)
LEMMA TypesSaved ==
  ASSUME SourceTypes, NEW CONSTANT who \in Callers, Store(who), wm' \in Marks
  PROVE  calls' \in Seq(Call)
<1> DEFINE m == wm'
<1>1. /\ calls \in Seq(Call) /\ proc \in Nat /\ m \in Marks
      /\ calls' = With(calls, "save", m, who, proc)
      /\ \A k \in DOMAIN calls : Covered(calls[k].val) \subseteq Items
      /\ Covered(m) \subseteq Items
  BY DEF SourceTypes, Store, WithSave, Covered
<1> HIDE DEF m
<1> QED
  BY <1>1, AppendsCall

LEMMA TypesStay ==
  ASSUME SourceTypes, UNCHANGED <<avail, bound, proc, db>>, bookmark' \in Marks, wm' \in Marks,
         queue' \in Seq(Items), own' \in Seq(Items),
         UNCHANGED calls \/ \E who \in Callers : Store(who)
  PROVE  SourceTypes'
<1>1. calls' \in Seq(Call)
  <2>1. CASE UNCHANGED calls
    BY <2>1 DEF SourceTypes
  <2>2. CASE \E who \in Callers : Store(who)
    <3>1. PICK who \in Callers : Store(who)
      BY <2>2
    <3> QED
      BY <3>1, TypesSaved
  <2> QED
    BY <2>1, <2>2
<1> QED
  BY <1>1 DEF SourceTypes

LEMMA TypesServed ==
  ASSUME SourceTypes, ServeStore(Saves), UNCHANGED familyVars
  PROVE  SourceTypes'
<1>1. PICK k \in DOMAIN calls :
        \/ ServeGet(k, Saves) /\ UNCHANGED answer
        \/ Save(k) /\ UNCHANGED <<phase, wm>>
  BY DEF ServeStore
<1>2. UNCHANGED <<bound, proc, avail, queue, own, bookmark>>
  BY DEF ServeStore, histVars, familyVars, windowsVars
<1>3. /\ calls \in Seq(Call) /\ \A j \in DOMAIN calls : Covered(calls[j].val) \subseteq Items
      /\ db \in Marks \cup {Missing} /\ (db # Missing => Covered(db) \subseteq Items)
      /\ proc \in Nat
  BY DEF SourceTypes, Covered
<1>4. /\ calls' \in Seq(Call) /\ db' \in Marks \cup {Missing}
      /\ UNCHANGED wm \/ (wm' = db /\ db # Missing)
  BY <1>1, <1>3, Served
<1> QED
  BY <1>2, <1>3, <1>4 DEF SourceTypes

LEMMA TypesConfigured ==
  ASSUME SourceTypes, Configure, UNCHANGED familyVars
  PROVE  SourceTypes'
<1>1. /\ calls \in Seq(Call) /\ proc \in Nat /\ proc' = proc + 1 /\ proc' \in Nat
      /\ calls' = With(calls, "get", Placeholder, "configure", proc')
      /\ Placeholder \in Marks /\ "configure" \in Callers
      /\ UNCHANGED <<db, bound, avail, wm, queue, bookmark>> /\ own' = <<>>
  BY Constants DEF Configure, WithGet, SourceTypes, familyVars, windowsVars
<1>2. \A k \in DOMAIN calls : Covered(calls[k].val) \subseteq Items
  BY DEF Covered
<1>3. Covered(Placeholder) \subseteq Items
  BY DEF Covered
<1>4. calls' \in Seq(Call)
  BY <1>1, <1>2, <1>3, AppendsCall
<1> QED
  BY <1>1, <1>4 DEF SourceTypes

LEMMA TypesAtExit ==
  ASSUME SourceTypes, Exit
  PROVE  SourceTypes'
<1>1. PICK n \in 0..Len(calls) : calls' = Surviving(n)
  BY DEF Exit, Die
<1>2. calls' \in Seq(Call)
  BY <1>1 DEF SourceTypes, Surviving
<1> QED
  BY <1>2, Constants DEF Exit, Die, WindowsReset, SourceTypes
-----------------------------------------------------------------------------
(* Who waits for the store.                                                *)
NotEarlier ==
  /\ phase' # "off" => phase # "off"
  /\ phase = "stopping" => phase' = "stopping"

LEMMA CallsRest ==
  ASSUME CallsOfNow, NotEarlier, UNCHANGED <<calls, proc>>, answer' \in {answer, "none"}
  PROVE  CallsOfNow'
  BY DEF CallsOfNow, NotEarlier

LEMMA CallsSaved ==
  ASSUME SourceTypes, CallsOfNow, NotEarlier, UNCHANGED proc, answer' \in {answer, "none"},
         wm \in Marks, UNCHANGED wm,
         NEW CONSTANT who \in {"next", "fetch", "stop"}, who = "stop" => phase' = "stopping",
         Store(who)
  PROVE  CallsOfNow'
<1>1. /\ calls \in Seq(Call) /\ proc \in Nat /\ who \in Callers
      /\ calls' = With(calls, "save", wm, who, proc)
  BY Constants DEF SourceTypes, Store, WithSave
<1>2. \A k \in DOMAIN calls' :
        \/ IsCall(calls'[k], wm, who, proc)
        \/ (k \in DOMAIN calls /\ calls'[k] = calls[k])
  <2> DEFINE ds == With(calls, "save", wm, who, proc)
  <2>1. \A k \in DOMAIN ds :
          \/ IsCall(ds[k], wm, who, proc)
          \/ (k \in DOMAIN calls /\ ds[k] = calls[k])
    BY <1>1, CallAdded
  <2>2. calls' = ds
    BY <1>1
  <2> HIDE DEF ds
  <2> QED
    BY <2>1, <2>2
<1>3. ASSUME NEW k \in DOMAIN calls'
      PROVE  /\ calls'[k].proc <= proc
             /\ phase' # "off" /\ calls'[k].proc = proc =>
                  calls'[k].who # "pause" /\ (calls'[k].who = "stop" => phase' = "stopping")
  <2>1. CASE IsCall(calls'[k], wm, who, proc)
    BY <1>1, <2>1 DEF IsCall
  <2>2. CASE k \in DOMAIN calls /\ calls'[k] = calls[k]
    BY <2>2 DEF CallsOfNow, NotEarlier
  <2> QED
    BY <1>2, <2>1, <2>2
<1>4. answer' # "pause" /\ (answer' = "stop" => phase' = "stopping")
  BY DEF CallsOfNow, NotEarlier
<1> QED
  BY <1>3, <1>4 DEF CallsOfNow

LEMMA CallsServed ==
  ASSUME SourceTypes, CallsOfNow, ~Saves, ServeStore(Saves)
  PROVE  CallsOfNow'
<1>1. PICK k \in DOMAIN calls :
        \/ ServeGet(k, Saves) /\ UNCHANGED answer
        \/ /\ Save(k) /\ UNCHANGED <<phase, wm>>
           /\ answer' = IF calls[k].proc = proc /\ phase # "off"
                        THEN calls[k].who ELSE "none"
  BY DEF ServeStore
<1>2. UNCHANGED proc
  BY DEF ServeStore
<1>3. \A j \in DOMAIN calls' : \E i \in DOMAIN calls : Same(j, i)
  <2>1. \/ \A j \in DOMAIN calls' : Same(j, j)
        \/ \A j \in DOMAIN calls' : Same(j, Later(j, k))
    BY <1>1, CallServed
  <2> QED
    BY <2>1 DEF Same
<1>4. UNCHANGED phase \/ (phase = "get" /\ phase' = "start")
  BY <1>1 DEF ServeGet
<1>5. ASSUME NEW j \in DOMAIN calls'
      PROVE  /\ calls'[j].proc <= proc
             /\ phase' # "off" /\ calls'[j].proc = proc =>
                  calls'[j].who # "pause" /\ (calls'[j].who = "stop" => phase' = "stopping")
  BY <1>3, <1>4 DEF Same, CallsOfNow
<1>6. answer' # "pause" /\ (answer' = "stop" => phase' = "stopping")
  BY <1>1, <1>4 DEF CallsOfNow, ServeGet
<1> QED
  BY <1>2, <1>5, <1>6 DEF CallsOfNow

LEMMA CallsConfigured ==
  ASSUME SourceTypes, CallsOfNow, Configure
  PROVE  CallsOfNow'
<1>1. /\ calls \in Seq(Call) /\ proc \in Nat /\ proc' = proc + 1 /\ phase = "off"
      /\ calls' = With(calls, "get", Placeholder, "configure", proc')
      /\ Placeholder \in Marks /\ "configure" \in Callers /\ UNCHANGED answer
  BY Constants DEF Configure, WithGet, SourceTypes
<1>2. PICK p \in Nat : p = proc'
  BY <1>1
<1>3. \A k \in DOMAIN calls' :
        \/ IsCall(calls'[k], Placeholder, "configure", p)
        \/ (k \in DOMAIN calls /\ calls'[k] = calls[k])
  <2> DEFINE ds == With(calls, "get", Placeholder, "configure", p)
  <2>1. \A k \in DOMAIN ds :
          \/ IsCall(ds[k], Placeholder, "configure", p)
          \/ (k \in DOMAIN calls /\ ds[k] = calls[k])
    BY <1>1, <1>2, CallAdded
  <2>2. calls' = ds
    BY <1>1, <1>2
  <2> HIDE DEF ds
  <2> QED
    BY <2>1, <2>2
<1>4. \A k \in DOMAIN calls : calls[k].proc \in Nat /\ calls[k].proc <= proc
  <2>1. \A k \in DOMAIN calls : calls[k] \in Call
    BY <1>1
  <2> QED
    BY <2>1 DEF Call, CallsOfNow
<1>5. \A k \in DOMAIN calls' : calls'[k].proc <= p /\ (calls'[k].proc = p => calls'[k].who = "configure")
  BY <1>1, <1>2, <1>3, <1>4 DEF IsCall
<1>6. answer # "stop"
  BY <1>1 DEF CallsOfNow
<1> QED
  BY <1>1, <1>2, <1>5, <1>6 DEF CallsOfNow

LEMMA CallsAtExit ==
  ASSUME SourceTypes, CallsOfNow, Exit
  PROVE  CallsOfNow'
<1>1. PICK n \in 0..Len(calls) : calls' = Surviving(n)
  BY DEF Exit, Die
<1>2. \A k \in DOMAIN calls' : k \in DOMAIN calls /\ calls'[k] = calls[k]
  BY <1>1 DEF SourceTypes, Surviving
<1> QED
  BY <1>2 DEF CallsOfNow, Exit, Die
-----------------------------------------------------------------------------
(* Steps in which no event is printed or given.                            *)
LEMMA EventsRest ==
  ASSUME SourceTypes, EventsInOrder, UNCHANGED <<own, queue>>, out' \in {out, <<>>},
         avail' \in 0..MaxItems, avail <= avail'
  PROVE  EventsInOrder'
<1>1. Range(out') \subseteq Range(out) /\ Ascending(out')
  BY DEF EventsInOrder, Ascending, Range
<1>2. 1..avail \subseteq 1..avail'
  BY Constants DEF SourceTypes
<1>3. OwnThenQueue'
  BY DEF EventsInOrder, OwnThenQueue, Ascending, Range
<1>4. Range(own)' = Range(own) /\ Range(queue)' = Range(queue) /\ Range(out)' = Range(out')
      /\ Ascending(out)' = Ascending(out')
  BY DEF Range, Ascending
<1> QED
  BY <1>1, <1>2, <1>3, <1>4 DEF EventsInOrder

(* The program is started: it prints what is beyond its bookmark, which    *)
(* covers what was read before.                                            *)
LEMMA LaunchInOrder ==
  ASSUME SourceTypes, Uniform(bookmark), EventsInOrder, NEW CONSTANT as, Launch(as),
         Range(own) \cup Range(queue) \subseteq Covered(bookmark),
         UNCHANGED <<own, queue, avail>>
  PROVE  EventsInOrder' /\ out' \in Seq(Items)
<1> DEFINE s == First(InOrder(Beyond(bookmark)), Batch)
<1>1. /\ avail \in 0..MaxItems /\ bookmark \in Marks /\ Batch \in Nat
      /\ own \in Seq(Items) /\ queue \in Seq(Items)
  BY SourceAssumption DEF SourceTypes
<1>2. /\ s \in Seq(Items) /\ Ascending(s) /\ \A i \in Range(s) : i \in Beyond(bookmark)
  BY <1>1, FirstInOrder
<1>3. out' = s
  BY DEF Launch
<1> HIDE DEF s
<1>4. Range(s) \subseteq Items /\ Range(own) \cup Range(queue) \subseteq Items
  BY <1>1, <1>2 DEF Range
<1>5. \A i \in Range(own) \cup Range(queue), j \in Range(s) : i < j
  BY <1>2, <1>4, UniformFacts
<1>6. Range(s) \subseteq 1..avail
  BY <1>2 DEF Beyond
<1>7. OwnThenQueue'
  BY DEF EventsInOrder, OwnThenQueue, Ascending, Range
<1>8. /\ Range(own)' = Range(own) /\ Range(queue)' = Range(queue) /\ Range(out)' = Range(s)
      /\ Ascending(out)' = Ascending(s)
  BY <1>3 DEF Range, Ascending
<1> QED
  BY <1>2, <1>3, <1>5, <1>6, <1>7, <1>8 DEF EventsInOrder

LEMMA PrintedInOrder ==
  ASSUME SourceTypes, EventsInOrder, out \in Seq(Items), Printed
  PROVE  EventsInOrder' /\ queue' \in Seq(Items) /\ out' \in Seq(Items)
<1> DEFINE h == Head(out)
           t == Tail(out)
<1>1. /\ out # <<>> /\ out' = t /\ queue' = Append(queue, h) /\ UNCHANGED <<own, avail>>
      /\ queue \in Seq(Items)
  BY DEF Printed, histVars, SourceTypes
<1>2. /\ h \in Items /\ t \in Seq(Items) /\ Range(out) = {h} \cup Range(t)
      /\ Ascending(t) /\ \A i \in Range(t) : h < i
  BY <1>1, HeadAndTail, AscendingTail DEF EventsInOrder
<1> HIDE DEF h, t
<1>3. \A i \in Range(own) \cup Range(queue) : i < h
  BY <1>2 DEF EventsInOrder
<1>4. /\ queue' \in Seq(Items) /\ Ascending(queue') /\ Range(queue') = Range(queue) \cup {h}
  BY <1>1, <1>2, <1>3, RangeAppend, AscendingAppend DEF EventsInOrder, OwnThenQueue
<1>5. \A i \in Range(own), j \in Range(queue') : i < j
  BY <1>3, <1>4 DEF EventsInOrder, OwnThenQueue
<1>6. OwnThenQueue'
  BY <1>1, <1>4, <1>5 DEF EventsInOrder, OwnThenQueue, Ascending, Range
<1>7. \A i \in Range(own) \cup Range(queue'), j \in Range(t) : i < j
  BY <1>2, <1>4 DEF EventsInOrder
<1>8. Range(own) \cup Range(queue') \cup Range(t) \subseteq 1..avail
  BY <1>2, <1>4 DEF EventsInOrder
<1>9. /\ Range(own)' = Range(own) /\ Range(queue)' = Range(queue') /\ Range(out)' = Range(t)
      /\ Ascending(out)' = Ascending(t)
  BY <1>1 DEF Range, Ascending
<1> QED
  BY <1>1, <1>2, <1>4, <1>6, <1>7, <1>8, <1>9 DEF EventsInOrder

(* The program ends: its bookmark covers all that was read.                *)
LEMMA EndsInOrder ==
  ASSUME SourceTypes, Uniform(bookmark), EventsInOrder, Ends
  PROVE  Uniform(bookmark') /\ Range(own) \cup Range(queue) \subseteq Covered(bookmark')
<1> DEFINE new == Range(queue) \cup Range(own)
<1>1. /\ new \in SUBSET Items /\ new \subseteq 1..avail
      /\ bookmark' = IF \E i \in new : i \in Beyond(bookmark)
                     THEN Upto(CHOOSE i \in new : \A j \in new : j <= i)
                     ELSE bookmark
  BY DEF SourceTypes, EventsInOrder, Ends, Range
<1> HIDE DEF new
<1>2. CASE \E i \in new : i \in Beyond(bookmark)
  <2> DEFINE last == CHOOSE i \in new : \A j \in new : j <= i
  <2>1. \E i \in new : \A j \in new : j <= i
    BY <1>1, <1>2, LastOf
  <2>2. last \in new /\ \A j \in new : j <= last
    BY <2>1
  <2>3. bookmark' = Upto(last)
    BY <1>1, <1>2
  <2> HIDE DEF last
  <2>4. last \in Items
    BY <1>1, <2>2
  <2> QED
    BY <1>1, <2>2, <2>3, <2>4, ItemFacts, UniformFacts DEF new
<1>3. CASE ~\E i \in new : i \in Beyond(bookmark)
  <2>1. bookmark' = bookmark /\ bookmark \in Marks
    BY <1>1, <1>3 DEF SourceTypes
  <2>2. ASSUME NEW i \in new
        PROVE  i \in Covered(bookmark)
    <3>1. i \in Items /\ i \in 1..avail /\ ~(i > bookmark[ClassOf[i]])
      BY <1>1, <1>3 DEF Beyond
    <3>2. i \in Nat /\ bookmark[ClassOf[i]] \in Nat
      BY <2>1, <3>1, ItemFacts, Constants DEF Marks
    <3> QED
      BY <3>1, <3>2 DEF Covered
  <2> QED
    BY <2>1, <2>2 DEF new
<1> QED
  BY <1>2, <1>3
-----------------------------------------------------------------------------
(* How the phase goes on when the program does nothing.                    *)
Onwards ==
  \/ UNCHANGED phase
  \/ phase \in Starting /\ phase' \in Starting
  \/ phase = "up" /\ phase' = "stopping"

LEMMA ProgramStays ==
  ASSUME ProgramRuns, Onwards, UNCHANGED <<own, queue, child, out, bookmark, reading>>
  PROVE  ProgramRuns'
<1>1. Range(own)' = Range(own) /\ Range(queue)' = Range(queue)
      /\ Covered(bookmark)' = Covered(bookmark)
  BY DEF Range, Covered
<1> QED
  BY <1>1 DEF ProgramRuns, Onwards, Early, Starting

LEMMA WevtutilRests ==
  ASSUME WevtutilOrder, Onwards, answer' \in {answer, "none"},
         UNCHANGED <<own, queue, child, out, bookmark, reading, avail, bound, proc, db, wm>>,
         \/ UNCHANGED calls
         \/ \E who \in {"next", "fetch", "stop"} :
              Store(who) /\ (who = "stop" => phase' = "stopping")
  PROVE  WevtutilOrder'
<1>1. /\ wm \in Marks /\ bookmark \in Marks /\ queue \in Seq(Items) /\ own \in Seq(Items)
      /\ avail \in 0..MaxItems
  BY DEF WevtutilOrder, SourceTypes
<1>2. UNCHANGED calls \/ \E who \in Callers : Store(who)
  BY Constants
<1>3. SourceTypes'
  BY <1>1, <1>2, TypesStay DEF WevtutilOrder
<1>4. EventsInOrder'
  BY <1>1, EventsRest, Constants DEF WevtutilOrder
<1>5. ProgramRuns'
  BY ProgramStays DEF WevtutilOrder
<1>6. NotEarlier
  BY DEF Onwards, NotEarlier, Starting
<1>7. CallsOfNow'
  <2>1. CASE UNCHANGED calls
    BY <1>6, <2>1, CallsRest DEF WevtutilOrder
  <2>2. CASE ~UNCHANGED calls
    <3>1. PICK who \in {"next", "fetch", "stop"} :
            Store(who) /\ (who = "stop" => phase' = "stopping")
      BY <2>2
    <3> QED
      BY <1>1, <1>6, <3>1, CallsSaved DEF WevtutilOrder
  <2> QED
    BY <2>1, <2>2
<1> QED
  BY <1>3, <1>4, <1>5, <1>7 DEF WevtutilOrder, Uniform, Upto

LEMMA WevtutilLaunches ==
  ASSUME WevtutilOrder, NEW CONSTANT as \in {"first", "asked"}, Launch(as),
         \/ phase = "up" /\ reading = "no"
         \/ phase = "start",
         phase' = "up", UNCHANGED <<own, queue, avail, bound, proc, db, calls, wm, answer>>
  PROVE  WevtutilOrder'
<1>1. /\ wm \in Marks /\ bookmark \in Marks /\ queue \in Seq(Items) /\ own \in Seq(Items)
      /\ child' = "run" /\ bookmark' = bookmark /\ reading' = as
  BY DEF WevtutilOrder, SourceTypes, Launch
<1>2. Range(own) \cup Range(queue) \subseteq Covered(bookmark)
  <2>1. CASE phase = "start"
    <3>1. Range(own) = {} /\ Range(queue) = {}
      BY <2>1 DEF WevtutilOrder, ProgramRuns, Early, Starting, Range
    <3> QED
      BY <3>1
  <2>2. CASE phase = "up" /\ reading = "no"
    BY <2>2 DEF WevtutilOrder, ProgramRuns
  <2> QED
    BY <2>1, <2>2
<1>3. EventsInOrder' /\ out' \in Seq(Items)
  BY <1>2, LaunchInOrder DEF WevtutilOrder
<1>4. SourceTypes'
  BY <1>1, TypesStay DEF WevtutilOrder
<1>5. CallsOfNow'
  <2>1. NotEarlier
    BY DEF NotEarlier
  <2> QED
    BY <2>1, CallsRest DEF WevtutilOrder
<1>6. ProgramRuns'
  BY <1>1 DEF ProgramRuns, Early, Starting
<1> QED
  BY <1>1, <1>3, <1>4, <1>5, <1>6 DEF WevtutilOrder, Uniform, Upto

LEMMA WevtutilGives ==
  ASSUME WevtutilOrder, GiveFirst, phase = "up",
         UNCHANGED <<phase, child, out, bookmark, reading, avail, bound, proc, db, calls, wm,
                     answer>>
  PROVE  WevtutilOrder'
<1>1. /\ wm \in Marks /\ bookmark \in Marks /\ queue \in Seq(Items) /\ own \in Seq(Items)
      /\ OwnThenQueue
  BY DEF WevtutilOrder, SourceTypes, EventsInOrder
<1>2. /\ OwnThenQueue' /\ own' \in Seq(Items) /\ queue' \in Seq(Items)
      /\ Range(own') \cup Range(queue') = Range(own) \cup Range(queue)
  BY <1>1, OwnGives
<1>3. /\ Range(own)' = Range(own') /\ Range(queue)' = Range(queue') /\ Range(out)' = Range(out)
      /\ Ascending(out)' = Ascending(out) /\ Covered(bookmark)' = Covered(bookmark)
  BY DEF Range, Ascending, Covered
<1>4. EventsInOrder'
  BY <1>2, <1>3 DEF WevtutilOrder, EventsInOrder
<1>5. ProgramRuns'
  BY <1>2, <1>3 DEF WevtutilOrder, ProgramRuns, Early, Starting
<1>6. SourceTypes'
  BY <1>1, <1>2, TypesStay DEF WevtutilOrder
<1>7. CallsOfNow'
  <2>1. NotEarlier
    BY DEF NotEarlier
  <2> QED
    BY <2>1, CallsRest DEF WevtutilOrder
<1> QED
  BY <1>4, <1>5, <1>6, <1>7 DEF WevtutilOrder, Uniform, Upto

LEMMA WevtutilPrints ==
  ASSUME WevtutilOrder, Printed
  PROVE  WevtutilOrder'
<1>1. /\ phase = "up" /\ child = "run" /\ wm \in Marks /\ bookmark \in Marks /\ own \in Seq(Items)
      /\ UNCHANGED <<db, calls, avail, bound, proc, phase, wm, reading, answer, own, bookmark,
                     child>>
  BY DEF Printed, Up, WevtutilOrder, SourceTypes, storeVars, lifeVars, histVars
<1>2. EventsInOrder' /\ queue' \in Seq(Items) /\ out' \in Seq(Items)
  BY PrintedInOrder DEF WevtutilOrder
<1>3. SourceTypes'
  BY <1>1, <1>2, TypesStay DEF WevtutilOrder
<1>4. CallsOfNow'
  <2>1. NotEarlier
    BY <1>1 DEF NotEarlier
  <2> QED
    BY <1>1, <2>1, CallsRest DEF WevtutilOrder
<1>5. ProgramRuns'
  BY <1>1 DEF WevtutilOrder, ProgramRuns, Early, Starting
<1> QED
  BY <1>1, <1>2, <1>3, <1>4, <1>5 DEF WevtutilOrder, Uniform, Upto

(* The program ends, by itself, or killed by stop(); then its bookmark may *)
(* be made anew, as nothing is read any more.                              *)
LEMMA WevtutilEnds ==
  ASSUME WevtutilOrder, Ends \/ SetupReset \/ Kill
  PROVE  WevtutilOrder'
<1>1. /\ wm \in Marks /\ bookmark \in Marks /\ own \in Seq(Items) /\ queue \in Seq(Items)
      /\ avail \in 0..MaxItems /\ avail \in Nat
      /\ UNCHANGED <<db, calls, avail, bound, proc, phase, wm, reading, own, queue>>
      /\ phase \in {"up", "stopping"}
      /\ answer' \in {answer, "none"} /\ out' \in {out, <<>>}
  <2>1. /\ wm \in Marks /\ bookmark \in Marks /\ own \in Seq(Items) /\ queue \in Seq(Items)
        /\ avail \in 0..MaxItems /\ avail \in Nat
    BY Constants DEF WevtutilOrder, SourceTypes
  <2>2. CASE Ends \/ SetupReset
    BY <2>1, <2>2 DEF Ends, SetupReset, Up, sourceVars, storeVars, lifeVars, histVars
  <2>3. CASE Kill
    <3>1. answer = "stop" /\ phase = "stopping"
      BY <2>3 DEF Kill, WevtutilOrder, CallsOfNow
    <3> QED
      BY <2>1, <2>3, <3>1 DEF Kill, storeVars, lifeVars, histVars
  <2> QED
    BY <2>2, <2>3
<1>2. EventsInOrder'
  BY <1>1, EventsRest DEF WevtutilOrder
<1>3. Uniform(bookmark') /\ bookmark' \in Marks
  <2>1. CASE Ends
    BY <2>1, EndsInOrder, UniformFacts DEF WevtutilOrder
  <2>2. CASE SetupReset
    <3>1. bookmark' \in {Upto(avail), Upto(0)} /\ 0 \in 0..MaxItems
      BY <2>2, Constants DEF SetupReset
    <3>2. Uniform(bookmark')
      BY <1>1, <3>1 DEF Uniform
    <3> QED
      BY <3>2, UniformFacts
  <2>3. CASE Kill
    BY <1>1, <2>3 DEF Kill, WevtutilOrder
  <2> QED
    BY <2>1, <2>2, <2>3
<1>4. SourceTypes'
  BY <1>1, <1>3, TypesStay DEF WevtutilOrder
<1>5. CallsOfNow'
  <2>1. NotEarlier
    BY <1>1 DEF NotEarlier
  <2> QED
    BY <1>1, <2>1, CallsRest DEF WevtutilOrder
<1>6. ProgramRuns'
  <2>0. Range(own)' = Range(own) /\ Range(queue)' = Range(queue)
        /\ Covered(bookmark)' = Covered(bookmark')
    BY <1>1 DEF Range, Covered
  <2>1. CASE Ends
    <3>1. Range(own) \cup Range(queue) \subseteq Covered(bookmark')
      BY <2>1, EndsInOrder DEF WevtutilOrder
    <3>2. /\ child = "run" /\ child' = "closed" /\ out' = <<>> /\ phase' = "up" /\ reading' = reading
      BY <1>1, <2>1 DEF Ends, Up
    <3> QED
      BY <1>1, <2>0, <3>1, <3>2 DEF WevtutilOrder, ProgramRuns, Early, Starting
  <2>2. CASE SetupReset
    <3>1. /\ child = "killed" /\ child' = "closed" /\ out' = out
      BY <2>2 DEF SetupReset
    <3>2. phase = "stopping"
      BY <1>1, <3>1 DEF WevtutilOrder, ProgramRuns
    <3> QED
      BY <1>1, <3>1, <3>2 DEF WevtutilOrder, ProgramRuns, Early, Starting
  <2>3. CASE Kill
    <3>1. phase = "stopping"
      BY <2>3 DEF Kill, WevtutilOrder, CallsOfNow
    <3>2. CASE child = "run"
      BY <1>1, <2>3, <3>1, <3>2 DEF Kill, WevtutilOrder, ProgramRuns, Early, Starting
    <3>3. CASE child # "run"
      BY <1>1, <2>3, <3>1, <3>3 DEF Kill, WevtutilOrder, ProgramRuns, Early, Starting
    <3> QED
      BY <3>2, <3>3
  <2> QED
    BY <2>1, <2>2, <2>3
<1>7. out' \in Seq(Items)
  <2>1. out \in Seq(Items) /\ <<>> \in Seq(Items)
    BY DEF WevtutilOrder
  <2> QED
    BY <1>1, <2>1
<1> QED
  BY <1>2, <1>3, <1>4, <1>5, <1>6, <1>7 DEF WevtutilOrder, Uniform, Upto

LEMMA WevtutilFetchEnds ==
  ASSUME WevtutilOrder, EndFetch
  PROVE  WevtutilOrder'
<1>1. /\ wm \in Marks /\ bookmark \in Marks /\ own \in Seq(Items) /\ queue \in Seq(Items)
      /\ avail \in 0..MaxItems
      /\ UNCHANGED <<db, avail, bound, proc, phase, wm, own, queue, bookmark, out, answer>>
      /\ phase = "up" /\ child = "closed" /\ child' = "none"
  BY DEF WevtutilOrder, ProgramRuns, SourceTypes, EndFetch, Up, lifeVars, histVars
<1>2. PICK who \in {"next", "fetch", "stop"} : Store(who) /\ who # "stop"
  BY DEF EndFetch
<1>3. EventsInOrder'
  BY <1>1, EventsRest, Constants DEF WevtutilOrder
<1>4. SourceTypes'
  BY <1>1, <1>2, TypesStay, Constants DEF WevtutilOrder
<1>5. CallsOfNow'
  <2>1. NotEarlier
    BY <1>1 DEF NotEarlier
  <2> QED
    BY <1>1, <1>2, <2>1, CallsSaved DEF WevtutilOrder
<1>6. ProgramRuns'
  <2>1. Range(own)' = Range(own) /\ Range(queue)' = Range(queue)
        /\ Covered(bookmark)' = Covered(bookmark)
    BY <1>1 DEF Range, Covered
  <2> QED
    BY <1>1, <2>1 DEF WevtutilOrder, ProgramRuns, Early, Starting
<1> QED
  BY <1>1, <1>3, <1>4, <1>5, <1>6 DEF WevtutilOrder, Uniform, Upto

LEMMA WevtutilInOrder ==
  ASSUME WevtutilOrder, Wevtutil, WindowsStep, UNCHANGED <<faults, pauses, kind, bound>>,
         faults \in Nat, pauses \in Nat
  PROVE  WevtutilOrder'
<1>1. ~Winpoll
  BY DEF Wevtutil, Winpoll
<1>2. CASE WevtutilStart
  BY <1>2, WevtutilLaunches DEF WevtutilStart, storeVars, histVars
<1>3. CASE WevtutilNext
  <2>1. phase = "up" /\ UNCHANGED <<phase, db, calls, avail, proc, wm, answer>>
    BY <1>3 DEF WevtutilNext, Up, storeVars, lifeVars
  <2>2. CASE GiveFirst /\ UNCHANGED <<reading, windowsVars>>
    BY <2>1, <2>2, WevtutilGives DEF windowsVars
  <2>3. CASE queue = <<>> /\ FetchEvents /\ UNCHANGED <<queue, histVars>>
    <3>1. CASE reading = "no" /\ Launch("asked")
      BY <2>1, <2>3, <3>1, WevtutilLaunches DEF histVars
    <3>2. CASE UNCHANGED <<reading, windowsVars>>
      BY <2>1, <2>3, <3>2, WevtutilRests DEF Onwards, windowsVars, histVars
    <3> QED
      BY <2>3, <3>1, <3>2 DEF FetchEvents
  <2>4. CASE UNCHANGED <<queue, histVars, reading, windowsVars>>
    BY <2>1, <2>4, WevtutilRests DEF Onwards, windowsVars, histVars
  <2> QED
    BY <1>3, <2>2, <2>3, <2>4 DEF WevtutilNext
<1>4. CASE Printed
  BY <1>4, WevtutilPrints
<1>5. CASE Ends \/ SetupReset \/ Kill
  BY <1>5, WevtutilEnds
<1>6. CASE EndFetch
  BY <1>6, WevtutilFetchEnds
<1>7. CASE WevtutilFetched \/ WindowsResume
  BY <1>7, WevtutilRests DEF WevtutilFetched, WindowsResume, Onwards, storeVars,
     lifeVars, histVars, windowsVars
<1>8. CASE WindowsStop
  <2>1. /\ phase = "up" /\ phase' = "stopping" /\ Store("stop")
        /\ UNCHANGED <<own, queue, child, out, bookmark, reading, avail, bound, proc, db, wm,
                       answer>>
    BY <1>8 DEF WindowsStop, Up, WevtutilSaves, histVars, windowsVars
  <2> QED
    BY <2>1, WevtutilRests DEF Onwards
<1>9. ~EndsBadly /\ ~SetupFails /\ ~WindowsPause
  BY DEF EndsBadly, SetupFails, Fault, WindowsPause
<1> QED
  BY <1>1, <1>2, <1>3, <1>4, <1>5, <1>6, <1>7, <1>8, <1>9
     DEF WindowsStep, WinpollStart, WinpollNext, WinpollSaved
LEMMA WevtutilArrives ==
  ASSUME WevtutilOrder, bound \in Worlds, Arrive, UNCHANGED familyVars
  PROVE  WevtutilOrder'
<1>1. /\ wm \in Marks /\ bookmark \in Marks /\ queue \in Seq(Items) /\ own \in Seq(Items)
      /\ UNCHANGED <<own, queue, child, out, bookmark, reading, bound, proc, db, calls, wm,
                     phase, answer>>
      /\ avail' = avail + 1 /\ avail < bound.items
  BY DEF WevtutilOrder, SourceTypes, Arrive, familyVars, windowsVars, storeVars, lifeVars, histVars
<1>2. avail' \in 0..MaxItems /\ avail' <= bound.items /\ avail <= avail'
  <2>1. /\ bound.items \in 0..MaxItems /\ MaxItems \in Nat /\ avail \in 0..MaxItems
    BY SourceAssumption DEF WevtutilOrder, SourceTypes
  <2> QED
    BY <1>1, <2>1
<1>3. SourceTypes'
  BY <1>1, <1>2 DEF WevtutilOrder, SourceTypes
<1>4. EventsInOrder'
  BY <1>1, <1>2, EventsRest DEF WevtutilOrder
<1>5. ProgramRuns'
  BY <1>1, ProgramStays DEF WevtutilOrder, Onwards
<1>6. CallsOfNow'
  BY <1>1 DEF WevtutilOrder, CallsOfNow
<1> QED
  BY <1>1, <1>3, <1>4, <1>5, <1>6 DEF WevtutilOrder, Uniform, Upto

LEMMA WevtutilConfigures ==
  ASSUME WevtutilOrder, Configure, UNCHANGED familyVars
  PROVE  WevtutilOrder'
<1>1. /\ UNCHANGED <<queue, child, out, bookmark, reading, avail, bound>>
      /\ phase = "off" /\ phase' = "get" /\ own' = <<>>
  BY DEF Configure, familyVars, windowsVars
<1>2. SourceTypes' /\ CallsOfNow'
  BY TypesConfigured, CallsConfigured DEF WevtutilOrder
<1>3. /\ Range(own') = {} /\ Range(own)' = {} /\ queue = <<>> /\ child = "none"
      /\ Range(queue)' = Range(queue) /\ Range(out)' = Range(out) /\ Ascending(own)'
  BY <1>1 DEF WevtutilOrder, ProgramRuns, Early, Range, Ascending
<1>4. OwnThenQueue'
  BY <1>1, <1>3 DEF WevtutilOrder, EventsInOrder, OwnThenQueue, Ascending
<1>5. EventsInOrder'
  BY <1>1, <1>3, <1>4 DEF WevtutilOrder, EventsInOrder, Ascending
<1>6. ProgramRuns'
  BY <1>1, <1>3 DEF WevtutilOrder, ProgramRuns, Early, Starting
<1> QED
  BY <1>1, <1>2, <1>5, <1>6 DEF WevtutilOrder, Uniform, Upto

LEMMA WevtutilServes ==
  ASSUME WevtutilOrder, Wevtutil, ServeStore(Saves), UNCHANGED familyVars
  PROVE  WevtutilOrder'
<1>1. ~Saves
  BY DEF Wevtutil, Saves, Http, Winpoll
<1>2. PICK k \in DOMAIN calls : ServeGet(k, Saves) \/ UNCHANGED phase
  BY DEF ServeStore
<1>3. /\ UNCHANGED <<own, queue, child, out, bookmark, reading, avail>>
      /\ UNCHANGED phase \/ (phase = "get" /\ phase' = "start")
  BY <1>1, <1>2 DEF ServeStore, ServeGet, histVars, familyVars, windowsVars
<1>4. SourceTypes' /\ CallsOfNow'
  BY <1>1, TypesServed, CallsServed DEF WevtutilOrder
<1>5. EventsInOrder'
  BY <1>3, EventsRest, Constants DEF WevtutilOrder, SourceTypes
<1>6. ProgramRuns'
  BY <1>3, ProgramStays DEF WevtutilOrder, Onwards, Starting
<1> QED
  BY <1>3, <1>4, <1>5, <1>6 DEF WevtutilOrder, Uniform, Upto

LEMMA WevtutilCommon ==
  ASSUME WevtutilOrder, Wevtutil, bound \in Worlds, Common
  PROVE  WevtutilOrder'
<1>1. UNCHANGED familyVars /\ ~Saved
  BY DEF Common, Saved
<1>2. CASE Arrive
  BY <1>1, <1>2, WevtutilArrives
<1>3. CASE Configured \/ Ask
  BY <1>1, <1>3, WevtutilRests DEF Configured, Ask, Onwards, Starting, storeVars, lifeVars,
     histVars, familyVars, windowsVars
<1>4. CASE ServeStore(Saves)
  BY <1>1, <1>4, WevtutilServes
<1>5. CASE Configure
  BY <1>1, <1>5, WevtutilConfigures
<1> QED
  BY <1>1, <1>2, <1>3, <1>4, <1>5 DEF Common

LEMMA WevtutilExits ==
  ASSUME WevtutilOrder, Exit
  PROVE  WevtutilOrder'
<1>1. /\ UNCHANGED <<own, bookmark, avail>> /\ queue' = <<>> /\ out' = <<>> /\ child' = "none"
      /\ phase' = "off"
  BY DEF Exit, Die, WindowsReset
<1>2. SourceTypes' /\ CallsOfNow'
  BY TypesAtExit, CallsAtExit DEF WevtutilOrder
<1>3. Range(queue)' = {} /\ Range(out)' = {} /\ Range(own)' = Range(own)
  BY <1>1 DEF Range
<1>4. OwnThenQueue'
  BY <1>1, <1>3 DEF WevtutilOrder, EventsInOrder, OwnThenQueue, Ascending
<1>5. EventsInOrder'
  BY <1>1, <1>3, <1>4 DEF WevtutilOrder, EventsInOrder, Ascending
<1>6. ProgramRuns'
  BY <1>1 DEF ProgramRuns, Starting
<1>7. out' \in Seq(Items)
  BY <1>1
<1> QED
  BY <1>1, <1>2, <1>5, <1>6, <1>7 DEF WevtutilOrder, Uniform, Upto
-----------------------------------------------------------------------------
(* The mongo input: within each collection.                                *)
LEMMA MongoRests ==
  ASSUME MongoOrder, UNCHANGED <<own, queue>>, wm' = wm \/ phase \in Starting \/ phase' = "off",
         phase' \in Starting => phase \in Starting, phase' = "off" \/ phase # "off"
  PROVE  MongoOrder'
<1>1. phase' = "off" \/ Range(own) \subseteq Covered(wm')
  <2>1. CASE phase \in Starting
    <3>1. Range(own) = {}
      BY <2>1 DEF MongoOrder, Range
    <3> QED
      BY <3>1
  <2>2. CASE wm' = wm
    BY <2>2 DEF MongoOrder
  <2> QED
    BY <2>1, <2>2
<1> QED
  BY <1>1 DEF MongoOrder, Range, Covered

LEMMA DocumentInOrder ==
  ASSUME MongoInv, MongoOrder, phase = "up", UNCHANGED <<phase, queue>>,
         NEW CONSTANT c \in Classes, NextDocument(c)
  PROVE  MongoOrder'
<1> DEFINE rest == cursor[c].rest
           h == Head(rest)
           n == Len(own)
<1>1. /\ rest \in Seq(Items) /\ rest # <<>> /\ wm \in Marks /\ Follows(rest, c)
      /\ own \in Seq(Items)
  <2>1. cursor[c] \in Cursors
    BY DEF MongoInv, MongoTypes
  <2> QED
    BY <2>1 DEF MongoInv, MongoTypes, MongoOrder, NextDocument, Cursors
<1>2. wm' = [wm EXCEPT ![c] = h] /\ own' = Append(own, h)
  BY DEF NextDocument, Give
<1>3. h \in Items /\ ClassOf[h] = c /\ wm[c] < h
  <2>1. 1 \in DOMAIN rest /\ h = rest[1] /\ rest[1] \in Items
    BY <1>1
  <2> QED
    BY <1>1, <2>1 DEF Follows
<1> HIDE DEF rest, h
<1>4. /\ n \in Nat /\ DOMAIN own = 1..n /\ own' \in Seq(Items) /\ DOMAIN own' = 1..(n + 1)
      /\ own'[n + 1] = h /\ \A j \in 1..n : own'[j] = own[j] /\ own[j] \in Items
  BY <1>1, <1>2, <1>3
<1>5. \A j \in 1..n : own[j] <= wm[ClassOf[own[j]]]
  <2>1. Range(own) \subseteq Covered(wm)
    BY DEF MongoOrder
  <2> QED
    BY <1>4, <2>1 DEF Covered, Range
<1> HIDE DEF n
<1>6. /\ \A i \in Items : i \in Nat /\ ClassOf[i] \in Classes
      /\ \A x \in Classes : wm[x] \in Nat
      /\ wm'[c] = h /\ \A x \in Classes : x # c => wm'[x] = wm[x]
  <2>1. \A i \in Items : i \in Nat /\ ClassOf[i] \in Classes
    BY ItemFacts, Constants
  <2>2. \A x \in Classes : wm[x] \in Nat
    BY <1>1, Constants DEF Marks
  <2>3. DOMAIN wm = Classes
    BY <1>1 DEF Marks
  <2>4. wm'[c] = h /\ \A x \in Classes : x # c => wm'[x] = wm[x]
    BY <1>2, <2>3
  <2> QED
    BY <2>1, <2>2, <2>4
<1>7. ASSUME NEW a \in 1..(n + 1), NEW b \in 1..(n + 1), a < b,
             ClassOf[own'[a]] = ClassOf[own'[b]]
      PROVE  own'[a] < own'[b]
  <2>1. CASE b \in 1..n
    BY <1>4, <1>7, <2>1 DEF MongoOrder
  <2>2. CASE b = n + 1
    <3>1. a \in 1..n
      BY <1>4, <1>7, <2>2
    <3>2. own'[a] = own[a] /\ own[a] \in Items /\ own[a] <= wm[c] /\ own'[b] = h
      BY <1>3, <1>4, <1>5, <1>7, <2>2, <3>1
    <3> QED
      BY <1>3, <1>6, <3>2
  <2>3. b \in 1..n \/ b = n + 1
    BY <1>4
  <2> QED
    BY <2>1, <2>2, <2>3
<1>8. ASSUME NEW j \in 1..(n + 1)
      PROVE  own'[j] \in Items /\ own'[j] <= wm'[ClassOf[own'[j]]]
  <2>1. CASE j \in 1..n
    <3> DEFINE x == own[j]
    <3>1. x \in Items /\ x <= wm[ClassOf[x]] /\ own'[j] = x
      BY <1>4, <1>5, <2>1
    <3> HIDE DEF x
    <3>2. CASE ClassOf[x] = c
      BY <1>3, <1>6, <3>1, <3>2
    <3>3. CASE ClassOf[x] # c
      BY <1>6, <3>1, <3>3
    <3> QED
      BY <3>2, <3>3
  <2>2. CASE j = n + 1
    BY <1>3, <1>4, <1>6, <2>2
  <2>3. j \in 1..n \/ j = n + 1
    BY <1>4
  <2> QED
    BY <2>1, <2>2, <2>3
<1>9. Range(own') \subseteq Covered(wm')
  BY <1>4, <1>8 DEF Range, Covered
<1>10. queue' = <<>> /\ phase' \notin Starting
  BY DEF MongoOrder, Starting
<1>11. \A a, b \in DOMAIN own' : a < b /\ ClassOf[own'[a]] = ClassOf[own'[b]] => own'[a] < own'[b]
  BY <1>4, <1>7
<1> QED
  BY <1>4, <1>9, <1>10, <1>11 DEF MongoOrder, Range, Covered

LEMMA MongoInOrder ==
  ASSUME MongoInv, MongoOrder, MongoStep
  PROVE  MongoOrder'
<1>1. CASE MongoStart \/ MongoPause \/ MongoResume \/ MongoStop
  BY <1>1, MongoRests DEF MongoStart, MongoPause, MongoResume, MongoStop, MayResume, Up,
     FetchCollections, lifeVars, histVars, Starting
<1>2. CASE \E c \in Classes : FetchData(c)
  BY <1>2, MongoRests DEF FetchData, Up, sourceVars, lifeVars, histVars, Starting
<1>3. ASSUME NEW CONSTANT r \in RefreshIds, CollectionsFetched(r)
      PROVE  MongoOrder'
  <2>1. UNCHANGED <<own, queue, wm, phase>>
    BY <1>3 DEF CollectionsFetched, lifeVars, histVars
  <2> QED
    BY <2>1 DEF MongoOrder, Range, Covered
<1>4. ASSUME NEW CONSTANT r \in RefreshIds, RefreshTimer(r)
      PROVE  MongoOrder'
  BY <1>4, MongoRests DEF RefreshTimer, lifeVars, histVars, Starting
<1>5. CASE MongoNext
  <2>1. phase = "up" /\ UNCHANGED <<phase, queue>> /\ cols # <<>> /\ cols \in Seq(Classes)
    BY <1>5 DEF MongoNext, Up, lifeVars, MongoInv, MongoTypes
  <2>2. PICK c \in Classes : \/ StartsQuery(c) \/ StillQueries(c) \/ Exhausted(c)
                             \/ NextDocument(c) \/ CursorFails(c)
    BY <1>5, <2>1 DEF MongoNext
  <2>3. CASE NextDocument(c)
    BY <2>1, <2>3, DocumentInOrder
  <2>4. CASE StartsQuery(c) \/ StillQueries(c) \/ Exhausted(c) \/ CursorFails(c)
    BY <2>1, <2>4, MongoRests DEF StartsQuery, StillQueries, Exhausted, CursorFails, histVars
  <2> QED
    BY <2>2, <2>3, <2>4
<1> QED
  BY <1>1, <1>2, <1>3, <1>4, <1>5 DEF MongoStep

LEMMA MongoCommon ==
  ASSUME MongoOrder, Common \/ Exit
  PROVE  MongoOrder'
<1>1. CASE Arrive \/ Configured \/ Saved \/ Ask
  <2>1. /\ UNCHANGED <<own, queue, wm>>
        /\ UNCHANGED phase \/ (phase \in Starting /\ phase' \in Starting)
    BY <1>1 DEF Arrive, Configured, Saved, CalledBack, Ask, lifeVars, histVars, Starting
  <2> QED
    BY <2>1 DEF MongoOrder, Starting, Range, Covered
<1>2. CASE Configure
  <2>1. own' = <<>> /\ UNCHANGED queue /\ Range(own)' = {}
    BY <1>2 DEF Configure, Range
  <2> QED
    BY <2>1 DEF MongoOrder
<1>3. CASE ServeStore(Saves)
  <2>1. PICK k \in DOMAIN calls : ServeGet(k, Saves) \/ UNCHANGED <<phase, wm>>
    BY <1>3 DEF ServeStore
  <2>2. /\ UNCHANGED <<own, queue>>
        /\ UNCHANGED <<phase, wm>> \/ (phase \in Starting /\ phase' \in Starting)
    BY <1>3, <2>1 DEF ServeStore, ServeGet, histVars, Starting
  <2>3. CASE UNCHANGED <<phase, wm>>
    BY <2>2, <2>3 DEF MongoOrder, Range, Covered
  <2>4. CASE phase \in Starting /\ phase' \in Starting
    BY <2>2, <2>4, MongoRests DEF Starting
  <2> QED
    BY <2>2, <2>3, <2>4
<1>4. CASE Exit
  BY <1>4 DEF Exit, Die, MongoOrder, Starting
<1> QED
  BY <1>1, <1>2, <1>3, <1>4 DEF Common
-----------------------------------------------------------------------------
LEMMA PlainCommon ==
  ASSUME SourceTypes, PlainOrder, UNCHANGED kind, Common
  PROVE  PlainOrder'
<1>1. QueueOrder' /\ MarksUniform'
  BY CommonInOrder DEF PlainOrder
<1>2. ASSUME kind = "sqlserver"
      PROVE  SqlOrder'
  <2>1. SqlOrder /\ MarksUniform /\ UNCHANGED <<reqs, sem>>
    BY <1>2 DEF PlainOrder, Common, familyVars, sqlVars
  <2>2. CASE Arrive \/ Configured \/ Saved \/ Ask
    <3>1. /\ UNCHANGED <<calls, proc, wm>> /\ answer' \in {answer, "none"}
          /\ UNCHANGED phase \/ (phase = "save" /\ phase' = "start")
      BY <2>2 DEF Arrive, Configured, Saved, CalledBack, Ask, storeVars, lifeVars
    <3>2. GoesOn
      BY <3>1 DEF GoesOn, Early, Starting
    <3> QED
      BY <2>1, <3>1, <3>2, SqlRests
  <2>3. CASE Configure
    BY <2>1, <2>3, SqlConfigures
  <2>4. CASE ServeStore(Saves)
    BY <1>2, <2>1, <2>4, SqlServes
  <2> QED
    BY <2>2, <2>3, <2>4 DEF Common
<1> QED
  BY <1>1, <1>2 DEF PlainOrder

LEMMA PlainExit ==
  ASSUME SourceTypes, PlainOrder, UNCHANGED kind, Exit
  PROVE  PlainOrder'
<1>1. QueueOrder' /\ MarksUniform'
  BY ExitInOrder DEF PlainOrder
<1>2. reqs' = <<>> /\ sem' = 0 /\ answer' = "none" /\ phase' = "off"
  BY DEF Exit, Die, SqlReset
<1>3. SqlOrder'
  BY <1>2 DEF SqlOrder, RowsInOrder
<1> QED
  BY <1>1, <1>3 DEF PlainOrder

LEMMA PlainSteps ==
  ASSUME SeenInv, OrderInv, Plain', UNCHANGED <<kind, bound>>, Next
  PROVE  PlainOrder'
<1>1. faults \in Nat /\ (kind \in {"sqlserver", "kafka"} => faults' = 0)
      /\ kind \notin {"mongo", "wevtutil", "wevtutilend", "winpollids"}
      /\ (kind = "sqlserver" => bound.cursors = 1)
  BY DEF OrderInv, Plain
<1>2. Common \/ Exit => UNCHANGED faults
  BY CommonGrows
<1>3. Sql \/ Kafka => Grows
  BY SqlGrows, KafkaGrows DEF Sql, Kafka
<1>4. Plain
  <2>1. CASE kind \in {"sqlserver", "kafka"}
    <3>1. faults' \in {faults, faults + 1}
      BY <1>2, <1>3, <2>1 DEF Next, Mongo, OfHttp, Http, Windows, Winpoll, Wevtutil, Grows
    <3>2. faults = 0
      BY <1>1, <2>1, <3>1
    <3> QED
      BY <1>1, <3>2 DEF Plain
  <2>2. CASE kind \notin {"sqlserver", "kafka"}
    BY <1>1, <2>2 DEF Plain
  <2> QED
    BY <2>1, <2>2
<1>5. PlainOrder /\ QueueOrder /\ MarksUniform /\ (kind = "sqlserver" => SqlOrder)
  BY <1>4 DEF OrderInv, PlainOrder
<1>6. /\ OneMarkInv /\ SourceTypes /\ (kind = "sqlserver" => RowsFollow)
      /\ (kind = "httpsm" => PublishesFirst) /\ NoChild
  BY <1>1 DEF SeenInv, OneMark, OneMarkInv
<1>7. CASE Common
  BY <1>5, <1>6, <1>7, PlainCommon
<1>8. CASE Exit
  BY <1>5, <1>6, <1>8, PlainExit
<1>9. CASE Sql
  <2>1. kind = "sqlserver" /\ SqlStep /\ bound.cursors = 1
    BY <1>4, <1>9 DEF Sql, Plain
  <2>2. \A q \in DOMAIN reqs : ~QueryFails(q)
    BY <1>1, <2>1 DEF QueryFails, Fault
  <2>3. QueueOrder' /\ MarksUniform' /\ SqlOrder'
    BY <1>5, <1>6, <2>1, <2>2, SqlInOrder
  <2> QED
    BY <2>3 DEF PlainOrder
<1>10. CASE OfHttp
  <2>1. Http /\ HttpStep /\ kind # "sqlserver"
    BY <1>10 DEF OfHttp, Http
  <2>2. QueueOrder' /\ MarksUniform'
    BY <1>5, <1>6, <2>1, HttpInOrder
  <2> QED
    BY <2>1, <2>2 DEF PlainOrder
<1>11. CASE Windows
  <2>1. kind = "winpoll" /\ WindowsStep
    BY <1>1, <1>11 DEF Windows, Winpoll, Wevtutil
  <2>2. QueueOrder' /\ MarksUniform'
    BY <1>5, <1>6, <2>1, WinpollInOrder
  <2> QED
    BY <2>1, <2>2 DEF PlainOrder
<1>12. CASE Kafka
  <2>1. kind = "kafka" /\ (KafkaConfigure \/ KafkaStep)
    BY <1>12 DEF Kafka
  <2>2. ~Reconnect
    BY <1>1, <2>1 DEF Reconnect, Fault
  <2>3. QueueOrder' /\ MarksUniform'
    BY <1>5, <1>6, <2>1, <2>2, KafkaInOrder
  <2> QED
    BY <2>1, <2>3 DEF PlainOrder
<1>13. ~Mongo
  BY <1>1 DEF Mongo
<1> QED
  BY <1>7, <1>8, <1>9, <1>10, <1>11, <1>12, <1>13 DEF Next

LEMMA WevtutilSteps ==
  ASSUME OrderInv, Wevtutil, faults' = 0, pauses' = 0, UNCHANGED <<kind, bound>>, Next
  PROVE  WevtutilOrder'
<1>1. Grows /\ faults \in Nat /\ pauses \in Nat /\ bound \in Worlds
  BY CommonGrows, WindowsGrows DEF OrderInv, Wevtutil, Next, Mongo, Sql, OfHttp, Http, Windows,
     Kafka, Grows
<1>2. faults = 0 /\ pauses = 0
  BY <1>1 DEF Grows
<1>3. WevtutilOrder
  BY <1>2 DEF OrderInv
<1>4. CASE Common
  BY <1>1, <1>3, <1>4, WevtutilCommon
<1>5. CASE Exit
  BY <1>3, <1>5, WevtutilExits
<1>6. CASE Windows
  BY <1>1, <1>2, <1>3, <1>6, WevtutilInOrder DEF Windows
<1> QED
  BY <1>4, <1>5, <1>6 DEF Next, Wevtutil, Mongo, Sql, OfHttp, Http, Kafka

LEMMA MongoSteps ==
  ASSUME IInv, OrderInv, kind = "mongo", Next
  PROVE  MongoOrder'
<1>1. MongoInv /\ MongoOrder
  BY DEF IInv, OrderInv
<1>2. CASE Common \/ Exit
  BY <1>1, <1>2, MongoCommon
<1>3. CASE Mongo
  BY <1>1, <1>3, MongoInOrder DEF Mongo
<1> QED
  BY <1>2, <1>3 DEF Next, Sql, OfHttp, Http, Windows, Winpoll, Wevtutil, Kafka

LEMMA OrderInitHolds == Init => OrderInv
<1> SUFFICES ASSUME Init
             PROVE  OrderInv
  OBVIOUS
<1>1. /\ bound \in Worlds /\ kind = bound.kind /\ avail = 0 /\ proc = 0 /\ phase = "off"
      /\ db = Missing /\ calls = <<>> /\ wm = Upto(0) /\ bookmark = Upto(0)
      /\ queue = <<>> /\ own = <<>> /\ held = {} /\ reading = "no" /\ answer = "none"
      /\ reqs = <<>> /\ sem = 0 /\ out = <<>> /\ child = "none" /\ faults = 0 /\ pauses = 0
  BY DEF Init, SourceInit, StoreInit, SqlInit, WindowsInit
<1>2. bound.items \in 0..MaxItems /\ MaxItems \in Nat
  BY <1>1, SourceAssumption
<1>3. SourceTypes
  BY <1>1, <1>2, Constants DEF SourceTypes
<1>4. Uniform(Upto(0)) /\ Range(own) = {} /\ Range(queue) = {} /\ Range(out) = {}
  BY <1>1, UniformFacts DEF Range
<1>5. OwnThenQueue /\ Ascending(out)
  BY <1>1, <1>4 DEF OwnThenQueue, Ascending
<1>6. QueueOrder /\ MarksUniform
  BY <1>1, <1>4, <1>5 DEF QueueOrder, MarksUniform, Starting
<1>7. SqlOrder
  BY <1>1 DEF SqlOrder, RowsInOrder
<1>8. WevtutilOrder
  <2>1. EventsInOrder /\ ProgramRuns /\ CallsOfNow
    BY <1>1, <1>4, <1>5 DEF EventsInOrder, ProgramRuns, CallsOfNow, Starting
  <2> QED
    BY <1>1, <1>3, <1>4, <2>1 DEF WevtutilOrder
<1>9. MongoOrder
  BY <1>1 DEF MongoOrder, Starting
<1> QED
  BY <1>1, <1>6, <1>7, <1>8, <1>9 DEF OrderInv, PlainOrder

LEMMA OrderStutters ==
  ASSUME SeenInv, OrderInv, UNCHANGED vars
  PROVE  OrderInv'
<1>1. /\ UNCHANGED <<db, calls, avail, kind, bound, proc, phase, wm, queue, held, reading, answer,
                     faults, pauses, own>>
      /\ UNCHANGED <<bookmark, child, out, reqs, sem>>
  BY DEF vars, familyVars, sourceVars, storeVars, lifeVars, pauseVars, histVars, sqlVars,
     windowsVars
<1>2. GoesOn
  BY <1>1 DEF GoesOn
<1>3. ASSUME Plain
      PROVE  PlainOrder'
  <2>1. SourceTypes /\ QueueOrder /\ MarksUniform /\ (kind = "sqlserver" => SqlOrder)
    BY <1>3 DEF SeenInv, OneMark, OneMarkInv, OrderInv, Plain, PlainOrder
  <2>2. QueueOrder' /\ MarksUniform'
    BY <1>1, <1>2, <2>1, Rests
  <2>3. kind = "sqlserver" => SqlOrder'
    BY <1>1, <1>2, <2>1, SqlRests
  <2> QED
    BY <1>1, <2>2, <2>3 DEF PlainOrder
<1>4. WevtutilOrder => WevtutilOrder'
  BY <1>1, WevtutilRests DEF Onwards
<1>5. MongoOrder => MongoOrder'
  BY <1>1 DEF MongoOrder, Range, Covered
<1> QED
  BY <1>1, <1>3, <1>4, <1>5 DEF OrderInv, Plain, Wevtutil

LEMMA OrderNextHolds == IInv /\ SeenInv /\ OrderInv /\ [Next]_vars => OrderInv'
<1> SUFFICES ASSUME IInv, SeenInv, OrderInv, [Next]_vars
             PROVE  OrderInv'
  OBVIOUS
<1>1. CASE UNCHANGED vars
  BY <1>1, OrderStutters
<1>2. CASE Next
  <2>1. UNCHANGED <<kind, bound>>
    BY <1>2, SqlKind, HttpKind, WindowsKind, KafkaKind, MongoKind, CommonKind
       DEF Next, Mongo, Sql, OfHttp, Windows, Kafka
  <2>2. Grows
    BY <1>2, CommonGrows, MongoGrows, SqlGrows, HttpGrows, WindowsGrows, KafkaGrows
       DEF Next, Mongo, Sql, OfHttp, Windows, Kafka, Grows
  <2>3. faults' \in Nat /\ pauses' \in Nat
    BY <2>2 DEF OrderInv, Grows
  <2>4. Plain' => PlainOrder'
    BY <1>2, <2>1, PlainSteps
  <2>5. Wevtutil' /\ faults' = 0 /\ pauses' = 0 => WevtutilOrder'
    BY <1>2, <2>1, WevtutilSteps DEF Wevtutil
  <2>6. kind' = "mongo" => MongoOrder'
    BY <1>2, <2>1, MongoSteps
  <2> QED
    BY <2>1, <2>3, <2>4, <2>5, <2>6 DEF OrderInv
<1> QED
  BY <1>1, <1>2

(* What a process reads goes up and its mark covers it; the rows of a      *)
(* query and the events of a program follow what was read; one query runs  *)
(* at a time, if the input may not run more and until one fails            *)
(* (sqlserver.js, elastic.js, http.js,                                     *)
(* httpsm.js, windows-poll.js, windows_legacy, kafkajs.js, mongo.js).      *)
THEOREM OrderInvariance == Spec => []OrderInv
<1> QED
  BY OrderInitHolds, OrderNextHolds, Invariance, SeenInvariance, PTL DEF Spec

(* Within one process the entries come once and in the order of the        *)
(* source, for mongo of each collection, but for errors of sqlserver and   *)
(* kafka, and for wevtutil after a reset, in any order of pauses, crashes  *)
(* and answers of the store (lib/input).                                   *)
THEOREM ItemsInSourceOrder == Spec => []InSourceOrder
<1>1. IInv /\ SeenInv /\ OrderInv => InSourceOrder
  <2> SUFFICES ASSUME IInv, SeenInv, OrderInv,
                      ~(kind \in {"sqlserver", "kafka"} /\ faults > 0),
                      ~(kind = "sqlserver" /\ bound.cursors > 1),
                      ~(Wevtutil /\ faults + pauses > 0), kind # "winpollids"
               PROVE  Ordered(own \o queue)
    BY DEF InSourceOrder
  <2>1. faults \in Nat /\ pauses \in Nat
    BY DEF OrderInv
  <2>4. ~(bound.cursors > 1) => bound.cursors = 1
    <3>1. bound.cursors \in Nat \ {0}
      BY BuffAssumption DEF OrderInv
    <3> QED
      BY <3>1
  <2>2. CASE kind = "mongo"
    <3>1. MongoOrder
      BY <2>2 DEF OrderInv
    <3>2. own \o queue = own
      BY <3>1 DEF MongoOrder
    <3> QED
      BY <2>2, <3>1, <3>2 DEF MongoOrder, Ordered
  <2>3. CASE kind # "mongo"
    <3>1. own \in Seq(Items) /\ queue \in Seq(Items) /\ OwnThenQueue
      <4>1. CASE Wevtutil
        <5>1. faults = 0 /\ pauses = 0
          BY <2>1, <4>1
        <5> QED
          BY <4>1, <5>1 DEF OrderInv, WevtutilOrder, EventsInOrder, SourceTypes
      <4>2. CASE ~Wevtutil
        <5>1. Plain
          BY <2>1, <2>3, <2>4, <4>2 DEF Plain, Wevtutil
        <5>2. SourceTypes
          BY <2>3, <4>2 DEF SeenInv, OneMark, OneMarkInv, Wevtutil
        <5> QED
          BY <5>1, <5>2 DEF OrderInv, PlainOrder, QueueOrder, SourceTypes
      <4> QED
        BY <4>1, <4>2
    <3>2. Ascending(own \o queue)
      BY <3>1, AscendingConcat DEF OwnThenQueue
    <3> QED
      BY <2>3, <3>2 DEF Ascending, Ordered
  <2> QED
    BY <2>2, <2>3
<1> QED
  BY <1>1, Invariance, SeenInvariance, OrderInvariance, PTL
=============================================================================
