---------------------------- MODULE Engine_proofs ----------------------------
(***************************************************************************)
(* Of the properties of Engine, proved for all its constants: what the     *)
(* streams of a process hold, and that each flow takes the entries of each *)
(* input in their order and skips none.                                    *)
(***************************************************************************)
EXTENDS Engine, Operators_proofs, TLAPS

(***************************************************************************)
(* What is in a sequence of entries.                                       *)
(***************************************************************************)

LEMMA RawFacts ==
  ASSUME NEW x \in Entry, NEW i
  PROVE  /\ IsRaw(x, i) <=> x = Raw(i, x.n)
         /\ x.n \in Nat \ {0}
         /\ \A n : x = Raw(i, n) => IsRaw(x, i) /\ n = x.n
  BY DEF Entry, IsRaw, Raw

LEMMA HasAppend ==
  ASSUME NEW seq \in Seq(Entry), NEW x \in Entry, NEW i
  PROVE  \A n : Has(Append(seq, x), i, n) <=> Has(seq, i, n) \/ x = Raw(i, n)
<1>1. /\ Len(Append(seq, x)) = Len(seq) + 1 /\ Len(seq) \in Nat
      /\ \A k \in 1..Len(seq) : Append(seq, x)[k] = seq[k]
      /\ Append(seq, x)[Len(seq) + 1] = x
  BY AppendProperties
<1> HIDE DEF Entry
<1> QED
  BY <1>1 DEF Has

LEMMA HasTail ==
  ASSUME NEW seq \in Seq(Entry), seq # <<>>, NEW i
  PROVE  \A n : Has(seq, i, n) <=> Has(Tail(seq), i, n) \/ Head(seq) = Raw(i, n)
<1>1. /\ Len(Tail(seq)) = Len(seq) - 1 /\ Len(seq) \in Nat \ {0}
      /\ \A k \in 1..Len(Tail(seq)) : Tail(seq)[k] = seq[k + 1]
      /\ Head(seq) = seq[1]
  OBVIOUS
<1>2. \A k \in 1..Len(seq) : k = 1 \/ (k - 1 \in 1..Len(Tail(seq)) /\ seq[k] = Tail(seq)[k - 1])
  BY <1>1
<1>3. \A k \in 1..Len(Tail(seq)) : k + 1 \in 1..Len(seq)
  BY <1>1
<1>4. 1 \in 1..Len(seq)
  BY <1>1
<1> QED
  BY <1>1, <1>2, <1>3, <1>4 DEF Has

LEMMA HasNone == \A i, n : ~Has(<<>>, i, n)
<1>1. Len(<<>>) = 0
  BY EmptySeq
<1> QED
  BY <1>1 DEF Has

LEMMA HasSome ==
  ASSUME NEW seq \in Seq(Entry), NEW i
  PROVE  /\ \A k \in 1..Len(seq) : IsRaw(seq[k], i) => Has(seq, i, seq[k].n)
         /\ \A n : Has(seq, i, n) => n \in Nat \ {0}
<1>1. \A k \in 1..Len(seq) : seq[k] \in Entry
  OBVIOUS
<1>2. ASSUME NEW k \in 1..Len(seq), IsRaw(seq[k], i)
      PROVE  Has(seq, i, seq[k].n)
  <2>1. seq[k] = Raw(i, seq[k].n)
    BY <1>1, <1>2, RawFacts
  <2> QED
    BY <2>1 DEF Has
<1>3. ASSUME NEW n, Has(seq, i, n)
      PROVE  n \in Nat \ {0}
  <2>1. PICK k \in 1..Len(seq) : seq[k] = Raw(i, n)
    BY <1>3 DEF Has
  <2>2. n = seq[k].n /\ seq[k].n \in Nat \ {0}
    BY <1>1, <2>1, RawFacts
  <2> QED
    BY <2>2
<1> QED
  BY <1>2, <1>3

LEMMA RisingAppend ==
  ASSUME NEW seq \in Seq(Entry), NEW x \in Entry, NEW i, Rising(seq, i),
         IsRaw(x, i) => \A n \in Nat : Has(seq, i, n) => n <= x.n
  PROVE  Rising(Append(seq, x), i)
<1>1. /\ Len(Append(seq, x)) = Len(seq) + 1 /\ Len(seq) \in Nat
      /\ \A k \in 1..Len(seq) : Append(seq, x)[k] = seq[k]
      /\ Append(seq, x)[Len(seq) + 1] = x
  BY AppendProperties
<1>2. \A k \in 1..Len(seq) : seq[k] \in Entry /\ seq[k].n \in Nat
  BY RawFacts
<1>3. \A k \in 1..Len(seq) : IsRaw(x, i) /\ IsRaw(seq[k], i) => seq[k].n <= x.n
  BY <1>2, HasSome
<1> HIDE DEF Entry
<1> QED
  BY <1>1, <1>3 DEF Rising

LEMMA RisingTail ==
  ASSUME NEW seq \in Seq(Entry), seq # <<>>, NEW i, Rising(seq, i)
  PROVE  /\ Rising(Tail(seq), i)
         /\ IsRaw(Head(seq), i) => \A n : Has(Tail(seq), i, n) => Head(seq).n <= n
<1>1. /\ Len(Tail(seq)) = Len(seq) - 1 /\ Len(seq) \in Nat \ {0}
      /\ \A k \in 1..Len(Tail(seq)) : Tail(seq)[k] = seq[k + 1]
      /\ Head(seq) = seq[1]
  OBVIOUS
<1>2. \A k \in 1..Len(Tail(seq)) : k + 1 \in 1..Len(seq) /\ 1 < k + 1 /\ k \in Int
  BY <1>1
<1>3. 1 \in 1..Len(seq) /\ \A k \in 1..Len(seq) : seq[k] \in Entry
  BY <1>1
<1>4. Rising(Tail(seq), i)
  BY <1>1, <1>2 DEF Rising
<1>5. ASSUME IsRaw(Head(seq), i), NEW n, Has(Tail(seq), i, n)
      PROVE  Head(seq).n <= n
  <2>1. PICK k \in 1..Len(Tail(seq)) : Tail(seq)[k] = Raw(i, n)
    BY <1>5 DEF Has
  <2>2. seq[k + 1] = Raw(i, n) /\ k + 1 \in 1..Len(seq) /\ 1 < k + 1
    BY <1>1, <1>2, <2>1
  <2>3. IsRaw(seq[k + 1], i) /\ seq[k + 1].n = n
    BY <2>2 DEF IsRaw, Raw
  <2> QED
    BY <1>1, <1>3, <1>5, <2>2, <2>3 DEF Rising
<1> QED
  BY <1>4, <1>5

LEMMA ClimbingAppend ==
  ASSUME NEW seq \in Seq(Entry), NEW x \in Entry, NEW i, Climbing(seq, i),
         IsRaw(x, i) => \A n \in Nat : Has(seq, i, n) => n < x.n
  PROVE  Climbing(Append(seq, x), i)
<1>1. /\ Len(Append(seq, x)) = Len(seq) + 1 /\ Len(seq) \in Nat
      /\ \A k \in 1..Len(seq) : Append(seq, x)[k] = seq[k]
      /\ Append(seq, x)[Len(seq) + 1] = x
  BY AppendProperties
<1>2. \A k \in 1..Len(seq) : seq[k] \in Entry /\ seq[k].n \in Nat
  BY RawFacts
<1>3. \A k \in 1..Len(seq) : IsRaw(x, i) /\ IsRaw(seq[k], i) => seq[k].n < x.n
  BY <1>2, HasSome
<1> HIDE DEF Entry
<1> QED
  BY <1>1, <1>3 DEF Climbing

LEMMA ClimbingTail ==
  ASSUME NEW seq \in Seq(Entry), seq # <<>>, NEW i, Climbing(seq, i)
  PROVE  /\ Climbing(Tail(seq), i)
         /\ IsRaw(Head(seq), i) => \A n : Has(Tail(seq), i, n) => Head(seq).n < n
<1>1. /\ Len(Tail(seq)) = Len(seq) - 1 /\ Len(seq) \in Nat \ {0}
      /\ \A k \in 1..Len(Tail(seq)) : Tail(seq)[k] = seq[k + 1]
      /\ Head(seq) = seq[1]
  OBVIOUS
<1>2. \A k \in 1..Len(Tail(seq)) : k + 1 \in 1..Len(seq) /\ 1 < k + 1 /\ k \in Int
  BY <1>1
<1>3. 1 \in 1..Len(seq) /\ \A k \in 1..Len(seq) : seq[k] \in Entry
  BY <1>1
<1>4. Climbing(Tail(seq), i)
  BY <1>1, <1>2 DEF Climbing
<1>5. ASSUME IsRaw(Head(seq), i), NEW n, Has(Tail(seq), i, n)
      PROVE  Head(seq).n < n
  <2>1. PICK k \in 1..Len(Tail(seq)) : Tail(seq)[k] = Raw(i, n)
    BY <1>5 DEF Has
  <2>2. seq[k + 1] = Raw(i, n) /\ k + 1 \in 1..Len(seq) /\ 1 < k + 1
    BY <1>1, <1>2, <2>1
  <2>3. IsRaw(seq[k + 1], i) /\ seq[k + 1].n = n
    BY <2>2 DEF IsRaw, Raw
  <2> QED
    BY <1>1, <1>3, <1>5, <2>2, <2>3 DEF Climbing
<1> QED
  BY <1>4, <1>5

(***************************************************************************)
(* What an append and a tail do to the entries of one input.               *)
(***************************************************************************)

LEMMA TimesOccurs ==
  ASSUME NEW seq, NEW i, NEW n
  PROVE  TimesIn(seq, i, n) = Occurs(seq, {Raw(i, n)})
<1>1. {k \in 1..Len(seq) : seq[k] = Raw(i, n)}
        = {k \in 1..Len(seq) : seq[k] \in {Raw(i, n)}}
  OBVIOUS
<1> QED
  BY <1>1 DEF TimesIn, Occurs

LEMMA TimesType ==
  ASSUME NEW seq \in Seq(Entry), NEW i, NEW n
  PROVE  TimesIn(seq, i, n) \in Nat
  BY TimesOccurs, OccursType

LEMMA TimesEmpty ==
  ASSUME NEW i, NEW n
  PROVE  TimesIn(<<>>, i, n) = 0
  BY TimesOccurs, OccursEmpty

LEMMA TimesAppend ==
  ASSUME NEW seq \in Seq(Entry), NEW x \in Entry, NEW i, NEW n
  PROVE  TimesIn(Append(seq, x), i, n)
           = TimesIn(seq, i, n) + (IF x = Raw(i, n) THEN 1 ELSE 0)
<1> DEFINE S == {Raw(i, n)}
<1>1. /\ TimesIn(Append(seq, x), i, n) = Occurs(Append(seq, x), S)
      /\ TimesIn(seq, i, n) = Occurs(seq, S)
  BY TimesOccurs
<1>2. x \in S <=> x = Raw(i, n)
  OBVIOUS
<1> HIDE DEF S
<1>3. Occurs(Append(seq, x), S) = Occurs(seq, S) + (IF x \in S THEN 1 ELSE 0)
  BY OccursAppend
<1> QED
  BY <1>1, <1>2, <1>3

LEMMA TimesTail ==
  ASSUME NEW seq \in Seq(Entry), seq # <<>>, NEW i, NEW n
  PROVE  TimesIn(seq, i, n)
           = TimesIn(Tail(seq), i, n) + (IF Head(seq) = Raw(i, n) THEN 1 ELSE 0)
<1> DEFINE S == {Raw(i, n)}
<1>1. /\ TimesIn(Tail(seq), i, n) = Occurs(Tail(seq), S)
      /\ TimesIn(seq, i, n) = Occurs(seq, S)
  BY TimesOccurs
<1>2. Head(seq) \in S <=> Head(seq) = Raw(i, n)
  OBVIOUS
<1> HIDE DEF S
<1>3. Occurs(seq, S) = Occurs(Tail(seq), S) + (IF Head(seq) \in S THEN 1 ELSE 0)
  BY OccursTail
<1> QED
  BY <1>1, <1>2, <1>3

(* t holds the same entries of i as s; or, after them, k times the m-th; or *)
(* all of them but the first, which is the m-th.                           *)
Alike(s, t, i) ==
  /\ Rising(s, i) => Rising(t, i)
  /\ \A n : Has(t, i, n) <=> Has(s, i, n)
  /\ \A n : TimesIn(t, i, n) = TimesIn(s, i, n)

Gains(s, t, i, m, k) ==
  /\ Rising(s, i) /\ (\A n : Has(s, i, n) => n <= m) => Rising(t, i)
  /\ \A n : Has(t, i, n) <=> Has(s, i, n) \/ n = m
  /\ \A n : n # m => TimesIn(t, i, n) = TimesIn(s, i, n)
  /\ TimesIn(t, i, m) = TimesIn(s, i, m) + k

Loses(s, t, i, m) ==
  /\ Rising(s, i) => Rising(t, i) /\ \A n : Has(t, i, n) => m <= n
  /\ \A n : Has(s, i, n) <=> Has(t, i, n) \/ n = m
  /\ \A n : n # m => TimesIn(t, i, n) = TimesIn(s, i, n)
  /\ TimesIn(s, i, m) = TimesIn(t, i, m) + 1

LEMMA AppendOther ==
  ASSUME NEW seq \in Seq(Entry), NEW x \in Entry, NEW i, ~IsRaw(x, i)
  PROVE  Alike(seq, Append(seq, x), i)
<1>1. \A n : x # Raw(i, n)
  BY RawFacts
<1>2. \A n : Has(Append(seq, x), i, n) <=> Has(seq, i, n)
  BY <1>1, HasAppend
<1>3. \A n : TimesIn(Append(seq, x), i, n) = TimesIn(seq, i, n)
  <2> TAKE n
  <2>1. TimesIn(Append(seq, x), i, n) = TimesIn(seq, i, n) + 0
    BY <1>1, TimesAppend
  <2>2. TimesIn(seq, i, n) \in Nat
    BY TimesType
  <2> QED
    BY <2>1, <2>2
<1>4. Rising(seq, i) => Rising(Append(seq, x), i)
  BY RisingAppend
<1> QED
  BY <1>2, <1>3, <1>4 DEF Alike

LEMMA AppendRaw ==
  ASSUME NEW seq \in Seq(Entry), NEW x \in Entry, NEW i, IsRaw(x, i)
  PROVE  Gains(seq, Append(seq, x), i, x.n, 1)
<1>1. x = Raw(i, x.n) /\ \A n : x = Raw(i, n) => n = x.n
  BY RawFacts
<1>2. \A n : Has(Append(seq, x), i, n) <=> Has(seq, i, n) \/ n = x.n
  BY <1>1, HasAppend
<1>3. ASSUME NEW n, n # x.n
      PROVE  TimesIn(Append(seq, x), i, n) = TimesIn(seq, i, n)
  <2>1. TimesIn(Append(seq, x), i, n) = TimesIn(seq, i, n) + 0
    BY <1>1, <1>3, TimesAppend
  <2>2. TimesIn(seq, i, n) \in Nat
    BY TimesType
  <2> QED
    BY <2>1, <2>2
<1>4. TimesIn(Append(seq, x), i, x.n) = TimesIn(seq, i, x.n) + 1
  BY <1>1, TimesAppend
<1>5. Rising(seq, i) /\ (\A n : Has(seq, i, n) => n <= x.n) => Rising(Append(seq, x), i)
  BY RisingAppend
<1> QED
  BY <1>2, <1>3, <1>4, <1>5 DEF Gains

LEMMA DropOther ==
  ASSUME NEW seq \in Seq(Entry), seq # <<>>, NEW i, ~IsRaw(Head(seq), i)
  PROVE  Alike(seq, Tail(seq), i)
<1>1. Head(seq) \in Entry /\ Tail(seq) \in Seq(Entry)
  OBVIOUS
<1>2. \A n : Head(seq) # Raw(i, n)
  BY <1>1, RawFacts
<1>3. \A n : Has(Tail(seq), i, n) <=> Has(seq, i, n)
  BY <1>2, HasTail
<1>4. \A n : TimesIn(Tail(seq), i, n) = TimesIn(seq, i, n)
  <2> TAKE n
  <2>1. TimesIn(seq, i, n) = TimesIn(Tail(seq), i, n) + 0
    BY <1>2, TimesTail
  <2>2. TimesIn(Tail(seq), i, n) \in Nat
    BY <1>1, TimesType
  <2> QED
    BY <2>1, <2>2
<1>5. Rising(seq, i) => Rising(Tail(seq), i)
  BY RisingTail
<1> QED
  BY <1>3, <1>4, <1>5 DEF Alike

LEMMA DropRaw ==
  ASSUME NEW seq \in Seq(Entry), seq # <<>>, NEW i, IsRaw(Head(seq), i)
  PROVE  Loses(seq, Tail(seq), i, Head(seq).n)
<1> DEFINE x == Head(seq)
<1>1. x \in Entry /\ Tail(seq) \in Seq(Entry)
  OBVIOUS
<1>2. x = Raw(i, x.n) /\ \A n : x = Raw(i, n) => n = x.n
  BY <1>1, RawFacts
<1> HIDE DEF x
<1>3. \A n : Has(seq, i, n) <=> Has(Tail(seq), i, n) \/ n = x.n
  BY <1>2, HasTail DEF x
<1>4. ASSUME NEW n, n # x.n
      PROVE  TimesIn(Tail(seq), i, n) = TimesIn(seq, i, n)
  <2>1. TimesIn(seq, i, n) = TimesIn(Tail(seq), i, n) + 0
    BY <1>2, <1>4, TimesTail DEF x
  <2>2. TimesIn(Tail(seq), i, n) \in Nat
    BY <1>1, TimesType
  <2> QED
    BY <2>1, <2>2
<1>5. TimesIn(seq, i, x.n) = TimesIn(Tail(seq), i, x.n) + 1
  BY <1>2, TimesTail DEF x
<1>6. Rising(seq, i) => Rising(Tail(seq), i) /\ \A n : Has(Tail(seq), i, n) => x.n <= n
  BY RisingTail DEF x
<1> QED
  BY <1>3, <1>4, <1>5, <1>6 DEF Loses, x

(***************************************************************************)
(* What a stream holds.                                                    *)
(***************************************************************************)

(* Two sequences with the same elements are the same.                      *)
LEMMA SameElements ==
  ASSUME NEW T, NEW a \in Seq(T), NEW b \in Seq(T), Len(a) = Len(b),
         \A k \in 1..Len(a) : a[k] = b[k]
  PROVE  a = b
  OBVIOUS

LEMMA ConcatAppend ==
  ASSUME NEW T, NEW a \in Seq(T), NEW b \in Seq(T), NEW x \in T
  PROVE  a \o Append(b, x) = Append(a \o b, x)
<1>1. /\ Append(b, x) \in Seq(T) /\ Len(Append(b, x)) = Len(b) + 1
      /\ \A k \in 1..Len(b) : Append(b, x)[k] = b[k]
      /\ Append(b, x)[Len(b) + 1] = x
      /\ Len(a) \in Nat /\ Len(b) \in Nat
  BY AppendProperties
<1> DEFINE c == a \o b
           d == Append(b, x)
           l == a \o d
           r == Append(c, x)
<1>2. /\ c \in Seq(T) /\ Len(c) = Len(a) + Len(b)
      /\ \A k \in 1..Len(c) : c[k] = IF k <= Len(a) THEN a[k] ELSE b[k - Len(a)]
  BY ConcatProperties
<1>3. d \in Seq(T)
  BY <1>1
<1>4. Len(d) = Len(b) + 1 /\ (\A k \in 1..Len(b) : d[k] = b[k]) /\ d[Len(b) + 1] = x
  BY <1>1
<1> HIDE DEF c, d
<1>5. /\ l \in Seq(T) /\ Len(l) = Len(a) + Len(d)
      /\ \A k \in 1..Len(l) : l[k] = IF k <= Len(a) THEN a[k] ELSE d[k - Len(a)]
  BY <1>3, ConcatProperties
<1>6. /\ r \in Seq(T) /\ Len(r) = Len(c) + 1
      /\ \A k \in 1..Len(c) : r[k] = c[k]
      /\ r[Len(c) + 1] = x
  <2>1. c \in Seq(T)
    BY <1>2
  <2> QED
    BY <2>1, AppendProperties
<1> HIDE DEF l, r
<1>7. Len(l) = Len(r)
  BY <1>1, <1>2, <1>4, <1>5, <1>6
<1>8. \A k \in 1..Len(l) : l[k] = r[k]
  <2> TAKE k \in 1..Len(l)
  <2>0. k \in Nat \ {0} /\ k <= Len(a) + Len(b) + 1
    <3>1. Len(l) = Len(a) + Len(b) + 1
      BY <1>1, <1>4, <1>5
    <3> QED
      BY <1>1, <3>1
  <2>1. CASE k <= Len(a)
    <3>1. k \in 1..Len(c)
      BY <1>1, <1>2, <2>0, <2>1
    <3>2. l[k] = a[k] /\ r[k] = c[k] /\ c[k] = a[k]
      BY <1>2, <1>5, <1>6, <2>1, <3>1
    <3> QED
      BY <3>2
  <2>2. CASE k > Len(a) /\ k <= Len(a) + Len(b)
    <3>1. k - Len(a) \in 1..Len(b) /\ k \in 1..Len(c) /\ ~(k <= Len(a))
      BY <1>1, <1>2, <2>2
    <3>2. l[k] = d[k - Len(a)] /\ r[k] = c[k] /\ c[k] = b[k - Len(a)]
      BY <1>2, <1>5, <1>6, <3>1
    <3>3. d[k - Len(a)] = b[k - Len(a)]
      BY <1>4, <3>1
    <3> QED
      BY <3>2, <3>3
  <2>3. CASE k = Len(a) + Len(b) + 1
    <3>1. k - Len(a) = Len(b) + 1 /\ k = Len(c) + 1 /\ ~(k <= Len(a))
      BY <1>1, <1>2, <2>3
    <3>2. l[k] = d[k - Len(a)]
      BY <1>5, <3>1
    <3> QED
      BY <1>4, <1>6, <3>1, <3>2
  <2>4. k <= Len(a) \/ (k > Len(a) /\ k <= Len(a) + Len(b)) \/ k = Len(a) + Len(b) + 1
    BY <1>1, <2>0
  <2> QED
    BY <2>1, <2>2, <2>3, <2>4
<1>9. l = r
  BY <1>5, <1>6, <1>7, <1>8, SameElements
<1> QED
  BY <1>9 DEF l, r, c, d

LEMMA ConcatTail ==
  ASSUME NEW T, NEW a \in Seq(T), NEW b \in Seq(T), a # <<>>
  PROVE  /\ a \o b # <<>> /\ Head(a \o b) = Head(a)
         /\ Tail(a \o b) = Tail(a) \o b
<1> DEFINE c == a \o b
           t == Tail(a)
           l == Tail(c)
           r == t \o b
<1>1. /\ Len(a) \in Nat \ {0} /\ Len(b) \in Nat
      /\ Head(a) = a[1]
  OBVIOUS
<1>2. /\ t \in Seq(T) /\ Len(t) = Len(a) - 1
      /\ \A k \in 1..Len(t) : t[k] = a[k + 1]
  OBVIOUS
<1>3. /\ c \in Seq(T) /\ Len(c) = Len(a) + Len(b)
      /\ \A k \in 1..Len(c) : c[k] = IF k <= Len(a) THEN a[k] ELSE b[k - Len(a)]
  BY ConcatProperties
<1> HIDE DEF c, t
<1>4. c # <<>> /\ Head(c) = Head(a)
  <2>1. Len(c) >= 1 /\ 1 \in 1..Len(c) /\ 1 <= Len(a)
    BY <1>1, <1>3
  <2>2. c[1] = a[1]
    BY <1>3, <2>1
  <2>3. c # <<>> /\ Head(c) = c[1]
    BY <1>3, <2>1
  <2> QED
    BY <1>1, <2>2, <2>3
<1>5. /\ l \in Seq(T) /\ Len(l) = Len(c) - 1
      /\ \A k \in 1..Len(l) : l[k] = c[k + 1]
  BY <1>3, <1>4
<1>6. /\ r \in Seq(T) /\ Len(r) = Len(t) + Len(b)
      /\ \A k \in 1..Len(r) : r[k] = IF k <= Len(t) THEN t[k] ELSE b[k - Len(t)]
  BY <1>2, ConcatProperties
<1> HIDE DEF l, r
<1>7. Len(l) = Len(r)
  BY <1>1, <1>2, <1>3, <1>5, <1>6
<1>8. \A k \in 1..Len(l) : l[k] = r[k]
  <2> TAKE k \in 1..Len(l)
  <2>0. k \in Nat /\ k + 1 \in 1..Len(c) /\ k \in 1..Len(r)
    BY <1>1, <1>2, <1>3, <1>5, <1>7
  <2>1. CASE k <= Len(t)
    <3>1. k + 1 <= Len(a) /\ k \in 1..Len(t)
      BY <1>1, <1>2, <2>0, <2>1
    <3>2. l[k] = a[k + 1] /\ r[k] = t[k]
      BY <1>3, <1>5, <1>6, <2>0, <2>1, <3>1
    <3> QED
      BY <1>2, <3>1, <3>2
  <2>2. CASE ~(k <= Len(t))
    <3> DEFINE m == k + 1
    <3>1. ~(m <= Len(a)) /\ m - Len(a) = k - Len(t) /\ m \in 1..Len(c)
      BY <1>1, <1>2, <2>0, <2>2
    <3>2. l[k] = c[m]
      BY <1>5
    <3> HIDE DEF m
    <3>3. c[m] = b[m - Len(a)]
      BY <1>3, <3>1
    <3>4. r[k] = b[k - Len(t)]
      BY <1>6, <2>0, <2>2
    <3> QED
      BY <3>1, <3>2, <3>3, <3>4
  <2> QED
    BY <2>1, <2>2
<1>9. l = r
  BY <1>5, <1>6, <1>7, <1>8, SameElements
<1> QED
  BY <1>4, <1>9 DEF l, r, c, t

(* The first of b may as well be the last of a.                            *)
LEMMA ConcatMove ==
  ASSUME NEW T, NEW a \in Seq(T), NEW b \in Seq(T), b # <<>>
  PROVE  Append(a, Head(b)) \o Tail(b) = a \o b
<1>1. Head(b) \in T /\ Tail(b) \in Seq(T) /\ <<>> \in Seq(T) /\ <<Head(b)>> \in Seq(T)
  BY EmptySeq
<1>2. b = <<Head(b)>> \o Tail(b)
  <2> DEFINE h == <<Head(b)>>
             t == Tail(b)
             r == h \o t
  <2>1. /\ Len(b) \in Nat \ {0} /\ Head(b) = b[1]
        /\ Len(t) = Len(b) - 1 /\ \A k \in 1..Len(t) : t[k] = b[k + 1]
    OBVIOUS
  <2>2. Len(h) = 1 /\ h[1] = b[1]
    BY <2>1
  <2>3. /\ r \in Seq(T) /\ Len(r) = Len(h) + Len(t)
        /\ \A k \in 1..Len(r) : r[k] = IF k <= Len(h) THEN h[k] ELSE t[k - Len(h)]
    BY <1>1, ConcatProperties
  <2> HIDE DEF h, t, r
  <2>4. Len(r) = Len(b) /\ \A k \in 1..Len(b) : r[k] = b[k]
    <3>1. Len(r) = Len(b)
      BY <2>1, <2>2, <2>3
    <3>2. ASSUME NEW k \in 1..Len(b)
          PROVE  r[k] = b[k]
      <4>1. CASE k = 1
        BY <2>1, <2>2, <2>3, <3>1, <4>1
      <4>2. CASE k # 1
        <5>1. ~(k <= Len(h)) /\ k - Len(h) = k - 1 /\ k - 1 \in 1..Len(t) /\ (k - 1) + 1 = k
          BY <2>1, <2>2, <4>2
        <5>2. r[k] = t[k - 1]
          BY <2>3, <3>1, <5>1
        <5> QED
          BY <2>1, <5>1, <5>2
      <4> QED
        BY <4>1, <4>2
    <3> QED
      BY <3>1, <3>2
  <2>5. b = r
    BY <2>3, <2>4, SameElements
  <2> QED
    BY <2>5 DEF r, h, t
<1>3. Append(a, Head(b)) = a \o <<Head(b)>>
  <2>1. a \o Append(<<>>, Head(b)) = Append(a \o <<>>, Head(b))
    BY <1>1, ConcatAppend
  <2>2. a \o <<>> = a /\ Append(<<>>, Head(b)) = <<Head(b)>>
    BY ConcatEmptySeq
  <2> QED
    BY <2>1, <2>2
<1>4. (a \o <<Head(b)>>) \o Tail(b) = a \o (<<Head(b)>> \o Tail(b))
  BY <1>1, ConcatAssociative
<1> QED
  BY <1>2, <1>3, <1>4

LEMMA EntriesType ==
  ASSUME NEW w \in Seq(Chunk)
  PROVE  /\ EntriesOf(w) \in Seq(Entry) /\ Len(EntriesOf(w)) = Len(w)
         /\ \A k \in 1..Len(w) : EntriesOf(w)[k] = w[k].entry /\ w[k].entry \in Entry
<1>1. \A k \in 1..Len(w) : w[k] \in Chunk
  OBVIOUS
<1>2. \A k \in 1..Len(w) : w[k].entry \in Entry
  BY <1>1 DEF Chunk
<1>3. Len(w) \in Nat
  OBVIOUS
<1> QED
  BY <1>2, <1>3 DEF EntriesOf

LEMMA EntriesEmpty == EntriesOf(<<>>) = <<>>
<1>1. <<>> \in Seq(Chunk) /\ Len(<<>>) = 0
  BY EmptySeq
<1>2. EntriesOf(<<>>) \in Seq(Entry) /\ Len(EntriesOf(<<>>)) = 0
  BY <1>1, EntriesType
<1> QED
  BY <1>2

LEMMA EntriesAppend ==
  ASSUME NEW w \in Seq(Chunk), NEW c \in Chunk
  PROVE  EntriesOf(Append(w, c)) = Append(EntriesOf(w), c.entry)
<1> DEFINE l == EntriesOf(Append(w, c))
           v == EntriesOf(w)
           r == Append(v, c.entry)
<1>1. /\ Append(w, c) \in Seq(Chunk) /\ Len(Append(w, c)) = Len(w) + 1 /\ Len(w) \in Nat
      /\ \A k \in 1..Len(w) : Append(w, c)[k] = w[k]
      /\ Append(w, c)[Len(w) + 1] = c
  BY AppendProperties
<1>2. /\ l \in Seq(Entry) /\ Len(l) = Len(w) + 1
      /\ \A k \in 1..(Len(w) + 1) : l[k] = Append(w, c)[k].entry
  BY <1>1, EntriesType
<1>3. /\ v \in Seq(Entry) /\ Len(v) = Len(w)
      /\ \A k \in 1..Len(w) : v[k] = w[k].entry
  BY EntriesType
<1>4. c.entry \in Entry
  BY DEF Chunk
<1> HIDE DEF v, l
<1>5. /\ r \in Seq(Entry) /\ Len(r) = Len(w) + 1
      /\ \A k \in 1..Len(w) : r[k] = v[k]
      /\ r[Len(w) + 1] = c.entry
  BY <1>3, <1>4, AppendProperties
<1> HIDE DEF r
<1>6. \A k \in 1..Len(l) : l[k] = r[k]
  BY <1>1, <1>2, <1>3, <1>5
<1>7. l = r
  BY <1>2, <1>5, <1>6, SameElements
<1> QED
  BY <1>7 DEF l, r, v

LEMMA EntriesTail ==
  ASSUME NEW w \in Seq(Chunk), w # <<>>
  PROVE  /\ EntriesOf(w) # <<>> /\ Head(EntriesOf(w)) = Head(w).entry
         /\ EntriesOf(Tail(w)) = Tail(EntriesOf(w))
         /\ Head(w) \in Chunk /\ Head(w).entry \in Entry
<1> DEFINE v == EntriesOf(w)
           l == EntriesOf(Tail(w))
           r == Tail(v)
<1>1. /\ Len(w) \in Nat \ {0} /\ Head(w) = w[1] /\ Head(w) \in Chunk
      /\ Tail(w) \in Seq(Chunk) /\ Len(Tail(w)) = Len(w) - 1
      /\ \A k \in 1..Len(Tail(w)) : Tail(w)[k] = w[k + 1]
  OBVIOUS
<1>2. /\ v \in Seq(Entry) /\ Len(v) = Len(w)
      /\ \A k \in 1..Len(w) : v[k] = w[k].entry /\ w[k].entry \in Entry
  BY EntriesType
<1>3. /\ l \in Seq(Entry) /\ Len(l) = Len(w) - 1
      /\ \A k \in 1..(Len(w) - 1) : l[k] = Tail(w)[k].entry
  BY <1>1, EntriesType
<1> HIDE DEF v, l
<1>4. v # <<>> /\ Head(v) = Head(w).entry /\ Head(w).entry \in Entry
  <2>1. v # <<>> /\ Head(v) = v[1] /\ 1 \in 1..Len(w)
    BY <1>1, <1>2
  <2> QED
    BY <1>1, <1>2, <2>1
<1>5. /\ r \in Seq(Entry) /\ Len(r) = Len(v) - 1
      /\ \A k \in 1..Len(r) : r[k] = v[k + 1]
  BY <1>2, <1>4
<1> HIDE DEF r
<1>6. \A k \in 1..Len(l) : l[k] = r[k]
  <2> TAKE k \in 1..Len(l)
  <2>1. k \in 1..Len(Tail(w)) /\ k \in 1..(Len(w) - 1) /\ k + 1 \in 1..Len(w) /\ k \in 1..Len(r)
    BY <1>1, <1>2, <1>3, <1>5
  <2> QED
    BY <1>1, <1>2, <1>3, <1>5, <2>1
<1>7. l = r
  BY <1>2, <1>3, <1>5, <1>6, SameElements
<1> QED
  BY <1>1, <1>4, <1>7 DEF l, r, v

LEMMA Limits == BypassMAX \in Nat \ {0} /\ MaxPending \in Nat \ {0}
  BY LimitsAssumption

(* The limits of a world, which no step changes.                           *)
LEMMA WorldType ==
  ASSUME NEW w \in Worlds
  PROVE  /\ w.route \in [Flows -> Targets] /\ w.most \in [Inputs -> Nat]
         /\ \A i \in Inputs : w.most[i] \in Nat
         /\ w.room \in Nat \ {0} /\ w.pauses \in 0..MaxPauses
  BY ConfigAssumption

LEMMA RoomType ==
  ASSUME GraphTypeOK
  PROVE  FilterMAX \in Nat \ {0}
  BY WorldType DEF GraphTypeOK, FilterMAX

LEMMA CargoType ==
  ASSUME NEW s \in Bypasses
  PROVE  Cargo(s) \in Seq(Entry)
<1>1. s.out \in Seq(Entry) /\ s.writes \in Seq(Chunk)
  BY DEF Bypasses
<1>2. Untransformed(s) \in Seq(Chunk)
  <2>1. s.writes # <<>> => Tail(s.writes) \in Seq(Chunk)
    BY <1>1
  <2>2. <<>> \in Seq(Chunk)
    BY EmptySeq
  <2> QED
    BY <2>1, <2>2 DEF Untransformed
<1>3. EntriesOf(Untransformed(s)) \in Seq(Entry)
  BY <1>2, EntriesType
<1> QED
  BY <1>1, <1>3, ConcatProperties DEF Cargo

(* A stream with nothing in it holds no cargo.                             *)
LEMMA CargoEmpty == Cargo(Bypass) = <<>> /\ BypassTypeOK(Bypass)
<1>1. Bypass.out = <<>> /\ Bypass.writes = <<>> /\ Bypass.needDrain = FALSE
  BY DEF Bypass
<1>2. Cargo(Bypass) = <<>> \o <<>>
  BY <1>1, EntriesEmpty DEF Cargo, Untransformed
<1>3. <<>> \o <<>> = <<>>
  OBVIOUS
<1>4. Bypass \in Bypasses
  BY EmptySeq DEF Bypass, Bypasses
<1>5. Len(<<>>) = 0
  BY EmptySeq
<1> QED
  BY <1>1, <1>2, <1>3, <1>4, <1>5, Limits DEF BypassTypeOK

(* write() puts the entry at the end.                                      *)
LEMMA CargoPass ==
  ASSUME NEW s, BypassTypeOK(s), NEW c \in Chunk
  PROVE  /\ BypassTypeOK(Pass(s, c))
         /\ Cargo(Pass(s, c)) = Append(Cargo(s), c.entry)
         /\ c.entry \in Entry
<1> DEFINE t == Pass(s, c)
           e == c.entry
           n == Len(s.out)
<1>1. /\ s = [out |-> s.out, writes |-> s.writes, needDrain |-> s.needDrain]
      /\ s.out \in Seq(Entry) /\ s.writes \in Seq(Chunk) /\ s.needDrain \in BOOLEAN
      /\ n \in Nat /\ n <= BypassMAX
      /\ s.writes # <<>> <=> n = BypassMAX
  BY DEF BypassTypeOK, Bypasses
<1>2. e \in Entry
  BY DEF Chunk
<1>3. /\ t = [out |-> t.out, writes |-> t.writes, needDrain |-> t.needDrain]
      /\ t.out = IF s.writes = <<>> THEN Append(s.out, e) ELSE s.out
      /\ t.writes = IF Holds(s) THEN Append(s.writes, c) ELSE s.writes
      /\ t.needDrain = (s.needDrain \/ ~PassHasRoom(s))
  <2> DEFINE o == IF s.writes = <<>> THEN Append(s.out, e) ELSE s.out
             w == IF Holds(s) THEN Append(s.writes, c) ELSE s.writes
             d == (s.needDrain \/ ~PassHasRoom(s))
  <2>1. t = [s EXCEPT !.out = o, !.writes = w, !.needDrain = d]
    BY DEF Pass
  <2> HIDE DEF o, w, d, t
  <2>2. t = [out |-> o, writes |-> w, needDrain |-> d]
    BY <1>1, <2>1
  <2> QED
    BY <2>2 DEF o, w, d
<1>4. Holds(s) <=> s.writes # <<>> \/ n + 1 >= BypassMAX
  BY DEF Holds
<1>5. /\ Append(s.out, e) \in Seq(Entry) /\ Len(Append(s.out, e)) = n + 1
      /\ Append(s.writes, c) \in Seq(Chunk) /\ Append(s.writes, c) # <<>>
  <2>1. Append(s.out, e) \in Seq(Entry) /\ Len(Append(s.out, e)) = n + 1
    BY <1>1, <1>2, AppendProperties
  <2>2. Append(s.writes, c) \in Seq(Chunk) /\ Append(s.writes, c) # <<>>
    BY <1>1, AppendProperties
  <2> QED
    BY <2>1, <2>2
<1>6. t.needDrain \in BOOLEAN
  BY <1>1, <1>3
<1> HIDE DEF t, e, n
<1>7. CASE s.writes = <<>>
  <2>1. t.out = Append(s.out, e) /\ n < BypassMAX
    BY <1>1, <1>3, <1>7, Limits
  <2>2. EntriesOf(Untransformed(s)) = <<>>
    BY <1>7, EntriesEmpty DEF Untransformed
  <2>3. EntriesOf(Untransformed(t)) = <<>>
    <3>1. CASE Holds(s)
      <4>1. t.writes = Append(<<>>, c)
        BY <1>3, <1>7, <3>1
      <4>2. Append(<<>>, c) # <<>> /\ Tail(Append(<<>>, c)) = <<>>
        OBVIOUS
      <4> QED
        BY <4>1, <4>2, EntriesEmpty DEF Untransformed
    <3>2. CASE ~Holds(s)
      BY <1>3, <1>7, <3>2, EntriesEmpty DEF Untransformed
    <3> QED
      BY <3>1, <3>2
  <2>4. Cargo(s) = s.out /\ Cargo(t) = Append(s.out, e)
    <3>1. Cargo(s) = s.out \o <<>> /\ Cargo(t) = Append(s.out, e) \o <<>>
      BY <2>1, <2>2, <2>3 DEF Cargo
    <3>2. s.out \o <<>> = s.out /\ Append(s.out, e) \o <<>> = Append(s.out, e)
      BY <1>1, <1>5, ConcatEmptySeq
    <3> QED
      BY <3>1, <3>2
  <2>5. BypassTypeOK(t)
    <3>1. t \in Bypasses
      BY <1>1, <1>3, <1>5, <1>6, <2>1 DEF Bypasses
    <3>2. Len(t.out) = n + 1 /\ n + 1 <= BypassMAX
      BY <1>1, <1>5, <2>1, Limits
    <3>3. t.writes # <<>> <=> n + 1 = BypassMAX
      BY <1>1, <1>3, <1>4, <1>5, <1>7, <2>1, Limits
    <3> QED
      BY <3>1, <3>2, <3>3 DEF BypassTypeOK
  <2> QED
    BY <1>2, <2>4, <2>5 DEF t, e
<1>8. CASE s.writes # <<>>
  <2>1. t.out = s.out /\ t.writes = Append(s.writes, c)
    BY <1>3, <1>4, <1>8
  <2>2. /\ Untransformed(s) = Tail(s.writes) /\ Tail(s.writes) \in Seq(Chunk)
        /\ Untransformed(t) = Append(Tail(s.writes), c)
    <3>1. Tail(Append(s.writes, c)) = Append(Tail(s.writes), c) /\ Tail(s.writes) \in Seq(Chunk)
      BY <1>1, <1>8
    <3> QED
      BY <1>5, <1>8, <2>1, <3>1 DEF Untransformed
  <2> DEFINE u == EntriesOf(Tail(s.writes))
  <2>3. u \in Seq(Entry) /\ EntriesOf(Append(Tail(s.writes), c)) = Append(u, e)
    BY <2>2, EntriesType, EntriesAppend DEF e
  <2>4. Cargo(s) = s.out \o u /\ Cargo(t) = s.out \o Append(u, e)
    BY <2>1, <2>2, <2>3 DEF Cargo
  <2> HIDE DEF u
  <2>5. Cargo(t) = Append(Cargo(s), e)
    <3>1. s.out \o Append(u, e) = Append(s.out \o u, e)
      BY <1>1, <1>2, <2>3, ConcatAppend
    <3> QED
      BY <2>4, <3>1
  <2>6. BypassTypeOK(t)
    <3>1. t \in Bypasses
      BY <1>1, <1>3, <1>5, <1>6, <2>1 DEF Bypasses
    <3> QED
      BY <1>1, <1>5, <1>8, <2>1, <3>1 DEF BypassTypeOK, n
  <2> QED
    BY <1>2, <2>5, <2>6 DEF t, e
<1> QED
  BY <1>7, <1>8

(* read() takes the entry at the head, which is the first transformed.     *)
LEMMA CargoRead ==
  ASSUME NEW s, BypassTypeOK(s), s.out # <<>>
  PROVE  /\ BypassTypeOK(Read(s))
         /\ Cargo(s) # <<>> /\ Head(Cargo(s)) = Head(s.out) /\ Head(s.out) \in Entry
         /\ Cargo(Read(s)) = Tail(Cargo(s))
<1> DEFINE t == Read(s)
           rest == IF s.writes = <<>> THEN <<>> ELSE Tail(s.writes)
           n == Len(s.out)
           u == EntriesOf(rest)
           o == Tail(s.out)
<1>1. /\ s = [out |-> s.out, writes |-> s.writes, needDrain |-> s.needDrain]
      /\ s.out \in Seq(Entry) /\ s.writes \in Seq(Chunk) /\ s.needDrain \in BOOLEAN
      /\ n \in Nat /\ n <= BypassMAX
      /\ s.writes # <<>> <=> n = BypassMAX
  BY DEF BypassTypeOK, Bypasses
<1>2. /\ o \in Seq(Entry) /\ Len(o) = n - 1 /\ Head(s.out) \in Entry /\ n \in Nat \ {0}
  BY <1>1
<1>3. rest \in Seq(Chunk)
  <2>1. s.writes # <<>> => Tail(s.writes) \in Seq(Chunk)
    BY <1>1
  <2>2. <<>> \in Seq(Chunk)
    BY EmptySeq
  <2> QED
    BY <2>1, <2>2
<1>4. /\ t = [out |-> t.out, writes |-> t.writes, needDrain |-> t.needDrain]
      /\ t.out = IF rest = <<>> THEN o ELSE Append(o, Head(rest).entry)
      /\ t.writes = rest
      /\ t.needDrain = s.needDrain
  <2> DEFINE q == IF rest = <<>> THEN o ELSE Append(o, Head(rest).entry)
  <2>1. t = [s EXCEPT !.out = q, !.writes = rest]
    BY DEF Read
  <2> HIDE DEF q, t, rest
  <2>2. t = [out |-> q, writes |-> rest, needDrain |-> s.needDrain]
    BY <1>1, <2>1
  <2> QED
    BY <2>2 DEF q
<1>5. u \in Seq(Entry)
  BY <1>3, EntriesType
<1>6. Cargo(s) = s.out \o u
  BY DEF Cargo, Untransformed
<1>7. s.writes = <<>> => rest = <<>>
  OBVIOUS
<1> HIDE DEF t, rest, n, o, u
<1>8. Cargo(s) # <<>> /\ Head(Cargo(s)) = Head(s.out) /\ Tail(Cargo(s)) = o \o u
  <2>1. /\ s.out \o u # <<>> /\ Head(s.out \o u) = Head(s.out)
        /\ Tail(s.out \o u) = Tail(s.out) \o u
    BY <1>1, <1>5, ConcatTail
  <2> QED
    BY <1>6, <2>1 DEF o
<1>9. Cargo(t) = o \o u /\ BypassTypeOK(t)
  <2>1. CASE rest = <<>>
    <3>1. t.out = o /\ t.writes = <<>>
      BY <1>4, <2>1
    <3>2. u = <<>> /\ EntriesOf(Untransformed(t)) = <<>>
      BY <2>1, <3>1, EntriesEmpty DEF u, Untransformed
    <3>3. t \in Bypasses
      BY <1>1, <1>2, <1>3, <1>4, <3>1 DEF Bypasses
    <3>4. Len(t.out) < BypassMAX
      BY <1>1, <1>2, <3>1, Limits
    <3>5. BypassTypeOK(t)
      BY <1>2, <3>1, <3>3, <3>4, Limits DEF BypassTypeOK
    <3>6. Cargo(t) = o \o u
      BY <3>1, <3>2 DEF Cargo
    <3> QED
      BY <3>5, <3>6
  <2>2. CASE rest # <<>>
    <3>1. /\ t.out = Append(o, Head(rest).entry) /\ t.writes = rest
          /\ Untransformed(t) = Tail(rest)
      BY <1>4, <2>2 DEF Untransformed
    <3>2. /\ u # <<>> /\ Head(u) = Head(rest).entry /\ EntriesOf(Tail(rest)) = Tail(u)
          /\ Head(rest).entry \in Entry
      BY <1>3, <2>2, EntriesTail DEF u
    <3>3. Cargo(t) = Append(o, Head(u)) \o Tail(u)
      BY <3>1, <3>2 DEF Cargo
    <3>4. Append(o, Head(u)) \o Tail(u) = o \o u
      BY <1>2, <1>5, <3>2, ConcatMove
    <3>5. Append(o, Head(rest).entry) \in Seq(Entry) /\ Len(Append(o, Head(rest).entry)) = Len(o) + 1
      BY <1>2, <3>2, AppendProperties
    <3>6. Len(t.out) = BypassMAX
      BY <1>1, <1>2, <1>7, <2>2, <3>1, <3>5
    <3>7. t \in Bypasses
      BY <1>1, <1>3, <1>4, <3>1, <3>5 DEF Bypasses
    <3>8. BypassTypeOK(t)
      <4>1. t.writes # <<>>
        BY <2>2, <3>1
      <4> QED
        BY <3>6, <3>7, <4>1, Limits DEF BypassTypeOK
    <3> QED
      BY <3>3, <3>4, <3>8
  <2> QED
    BY <2>1, <2>2
<1> QED
  BY <1>2, <1>8, <1>9 DEF t

(* What the recursion of Passes says: of its function, and that there is   *)
(* one.                                                                    *)
IsPasses(g, s, c, n) ==
  g[0] = s /\ \A k \in 1..n : g[k] = Pass(g[k - 1], c)

LEMMA PassesExist ==
  ASSUME NEW s, NEW c, NEW n \in Nat
  PROVE  \E g : IsPasses(g, s, c, n)
<1> DEFINE S == {m \in Nat : \E g : IsPasses(g, s, c, m)}
<1>1. 0 \in S
  <2> DEFINE g == [k \in {0} |-> s]
  <2>1. g[0] = s
    OBVIOUS
  <2> HIDE DEF g
  <2>2. IsPasses(g, s, c, 0)
    BY <2>1 DEF IsPasses
  <2> QED
    BY <2>2
<1>2. ASSUME NEW m \in Nat, m \in S
      PROVE  m + 1 \in S
  <2>1. PICK h : IsPasses(h, s, c, m)
    BY <1>2
  <2> DEFINE g == [k \in 0..(m + 1) |-> IF k = m + 1 THEN Pass(h[m], c) ELSE h[k]]
  <2>2. h[0] = s /\ \A k \in 1..m : h[k] = Pass(h[k - 1], c)
    BY <2>1 DEF IsPasses
  <2>3. g[0] = s
    BY <2>2
  <2>4. \A k \in 1..(m + 1) : g[k] = Pass(g[k - 1], c)
    BY <2>2
  <2> HIDE DEF g
  <2>5. IsPasses(g, s, c, m + 1)
    BY <2>3, <2>4 DEF IsPasses
  <2> QED
    BY <2>5
<1> HIDE DEF S
<1>3. n \in S
  BY <1>1, <1>2, Induction
<1> QED
  BY <1>3 DEF S

LEMMA PassesIsPasses ==
  ASSUME NEW s, NEW c, NEW n \in Nat
  PROVE  IsPasses(Passes(s, c, n), s, c, n)
<1> DEFINE Def(g) == g = [k \in 0..n |-> IF k = 0 THEN s ELSE Pass(g[k - 1], c)]
           f == CHOOSE g : Def(g)
<1>1. Passes(s, c, n) = f
  BY DEF Passes
<1>2. PICK h : IsPasses(h, s, c, n)
  BY PassesExist
<1> DEFINE g == [k \in 0..n |-> h[k]]
<1>3. \A k \in 0..n : g[k] = h[k]
  OBVIOUS
<1>4. \A k \in 0..n : g[k] = IF k = 0 THEN s ELSE Pass(g[k - 1], c)
  <2> HIDE DEF g
  <2> TAKE k \in 0..n
  <2>1. CASE k = 0
    BY <1>2, <1>3, <2>1 DEF IsPasses
  <2>2. CASE k # 0
    <3>1. k \in 1..n /\ k - 1 \in 0..n
      BY <2>2
    <3>2. h[k] = Pass(h[k - 1], c)
      BY <1>2, <3>1 DEF IsPasses
    <3>3. g[k] = h[k] /\ g[k - 1] = h[k - 1]
      BY <1>3, <3>1
    <3> QED
      BY <2>2, <3>2, <3>3
  <2> QED
    BY <2>1, <2>2
<1>5. g = [k \in 0..n |-> g[k]]
  OBVIOUS
<1>6. Def(g)
  <2> HIDE DEF g
  <2> QED
    BY <1>4, <1>5
<1>7. Def(f)
  <2> HIDE DEF g, Def
  <2> QED
    BY <1>6
<1> HIDE DEF f
<1>8. \A k \in 0..n : f[k] = IF k = 0 THEN s ELSE Pass(f[k - 1], c)
  BY <1>7
<1> HIDE DEF Def
<1>9. f[0] = s
  BY <1>8
<1>10. \A k \in 1..n : f[k] = Pass(f[k - 1], c)
  BY <1>8
<1> QED
  BY <1>1, <1>9, <1>10 DEF IsPasses

(* k writes of an entry of i, one after the other.                         *)
LEMMA CargoPasses ==
  ASSUME NEW s, BypassTypeOK(s), NEW c \in Chunk, NEW n \in Nat \ {0}
  PROVE  /\ BypassTypeOK(Passes(s, c, n)[n])
         /\ c.entry \in Entry
         /\ \A i : IF IsRaw(c.entry, i)
                     THEN Gains(Cargo(s), Cargo(Passes(s, c, n)[n]), i, c.entry.n, n)
                     ELSE Alike(Cargo(s), Cargo(Passes(s, c, n)[n]), i)
         /\ \A k \in 1..Len(Cargo(Passes(s, c, n)[n])) :
              \/ Cargo(Passes(s, c, n)[n])[k] = c.entry
              \/ \E j \in 1..Len(Cargo(s)) : Cargo(Passes(s, c, n)[n])[k] = Cargo(s)[j]
<1> DEFINE g == Passes(s, c, n)
           e == c.entry
           Grown(t, m) ==
             /\ \A i : IF IsRaw(e, i) THEN Gains(Cargo(s), Cargo(t), i, e.n, m)
                                      ELSE Alike(Cargo(s), Cargo(t), i)
             /\ \A k \in 1..Len(Cargo(t)) :
                  \/ Cargo(t)[k] = e
                  \/ \E j \in 1..Len(Cargo(s)) : Cargo(t)[k] = Cargo(s)[j]
           S == {m \in Nat : m + 1 <= n => BypassTypeOK(g[m + 1]) /\ Grown(g[m + 1], m + 1)}
<1>1. e \in Entry
  BY DEF Chunk
<1>2. g[0] = s /\ \A k \in 1..n : g[k] = Pass(g[k - 1], c)
  BY PassesIsPasses DEF IsPasses
<1>3. Cargo(s) \in Seq(Entry)
  BY CargoType DEF BypassTypeOK
<1> HIDE DEF g, e
<1>4. 0 \in S
  <2> DEFINE t == g[1]
  <2>1. t = Pass(s, c)
    <3>1. 1 \in 1..n /\ 1 - 1 = 0
      OBVIOUS
    <3> QED
      BY <1>2, <3>1
  <2>2. BypassTypeOK(t) /\ Cargo(t) = Append(Cargo(s), e)
    BY <2>1, CargoPass DEF e
  <2> HIDE DEF t
  <2>3. Grown(t, 1)
    <3>1. ASSUME NEW i
          PROVE  IF IsRaw(e, i) THEN Gains(Cargo(s), Cargo(t), i, e.n, 1)
                                ELSE Alike(Cargo(s), Cargo(t), i)
      BY <1>1, <1>3, <2>2, AppendRaw, AppendOther
    <3>2. \A k \in 1..Len(Cargo(t)) :
            Cargo(t)[k] = e \/ \E j \in 1..Len(Cargo(s)) : Cargo(t)[k] = Cargo(s)[j]
      BY <1>1, <1>3, <2>2, AppendProperties
    <3> QED
      BY <3>1, <3>2
  <2> HIDE DEF Grown
  <2>4. 0 + 1 = 1
    OBVIOUS
  <2> QED
    BY <2>2, <2>3, <2>4 DEF t
<1>5. ASSUME NEW m \in Nat, m \in S
      PROVE  m + 1 \in S
  <2> SUFFICES ASSUME m + 2 <= n
               PROVE  BypassTypeOK(g[m + 2]) /\ Grown(g[m + 2], m + 2)
    <3>1. (m + 1) + 1 = m + 2
      OBVIOUS
    <3> HIDE DEF Grown
    <3> QED
      BY <3>1
  <2> DEFINE t == g[m + 2]
             r == g[m + 1]
             l == m + 1
  <2>1. BypassTypeOK(r) /\ Grown(r, l) /\ l \in Nat
    <3>1. m + 1 <= n
      OBVIOUS
    <3> HIDE DEF Grown
    <3> QED
      BY <1>5, <3>1
  <2>2. t = Pass(r, c)
    <3>1. m + 2 \in 1..n /\ (m + 2) - 1 = m + 1
      OBVIOUS
    <3> QED
      BY <1>2, <3>1
  <2>3. BypassTypeOK(t) /\ Cargo(t) = Append(Cargo(r), e)
    BY <2>1, <2>2, CargoPass DEF e
  <2>4. Cargo(r) \in Seq(Entry)
    BY <2>1, CargoType DEF BypassTypeOK
  <2> HIDE DEF t, r, l
  <2>5. ASSUME NEW i, IsRaw(e, i)
        PROVE  Gains(Cargo(s), Cargo(t), i, e.n, l + 1)
    <3>1. Gains(Cargo(s), Cargo(r), i, e.n, l)
      BY <2>1, <2>5
    <3>2. Gains(Cargo(r), Cargo(t), i, e.n, 1)
      BY <1>1, <2>3, <2>4, <2>5, AppendRaw
    <3>3. TimesIn(Cargo(s), i, e.n) \in Nat /\ e.n \in Nat
      BY <1>1, <1>3, TimesType, RawFacts
    <3>4. TimesIn(Cargo(t), i, e.n) = TimesIn(Cargo(s), i, e.n) + (l + 1)
      BY <2>1, <3>1, <3>2, <3>3 DEF Gains
    <3>5. \A j : j # e.n => TimesIn(Cargo(t), i, j) = TimesIn(Cargo(s), i, j)
      BY <3>1, <3>2 DEF Gains
    <3>6. \A j : Has(Cargo(t), i, j) <=> Has(Cargo(s), i, j) \/ j = e.n
      BY <3>1, <3>2 DEF Gains
    <3>7. Rising(Cargo(s), i) /\ (\A j : Has(Cargo(s), i, j) => j <= e.n) => Rising(Cargo(t), i)
      <4>1. e.n <= e.n
        BY <3>3
      <4> QED
        BY <3>1, <3>2, <4>1 DEF Gains
    <3> QED
      BY <3>4, <3>5, <3>6, <3>7 DEF Gains
  <2>6. ASSUME NEW i, ~IsRaw(e, i)
        PROVE  Alike(Cargo(s), Cargo(t), i)
    <3>1. Alike(Cargo(s), Cargo(r), i)
      BY <2>1, <2>6
    <3>2. Alike(Cargo(r), Cargo(t), i)
      BY <1>1, <2>3, <2>4, <2>6, AppendOther
    <3> QED
      BY <3>1, <3>2 DEF Alike
  <2>7. ASSUME NEW k \in 1..Len(Cargo(t))
        PROVE  Cargo(t)[k] = e \/ \E j \in 1..Len(Cargo(s)) : Cargo(t)[k] = Cargo(s)[j]
    <3>1. \/ Cargo(t)[k] = e
          \/ k \in 1..Len(Cargo(r)) /\ Cargo(t)[k] = Cargo(r)[k]
      BY <1>1, <2>3, <2>4, AppendProperties
    <3> QED
      BY <2>1, <3>1
  <2>8. Grown(t, l + 1)
    BY <2>5, <2>6, <2>7
  <2>9. l + 1 = m + 2
    BY DEF l
  <2> HIDE DEF Grown
  <2> QED
    BY <2>3, <2>8, <2>9 DEF t
<1> HIDE DEF S
<1>6. n - 1 \in S /\ n - 1 \in Nat /\ (n - 1) + 1 = n
  BY <1>4, <1>5, Induction
<1>7. BypassTypeOK(g[n]) /\ Grown(g[n], n)
  <2> HIDE DEF Grown
  <2> QED
    BY <1>6 DEF S
<1> QED
  BY <1>1, <1>7 DEF g, e

(***************************************************************************)
(* The line of a flow.                                                     *)
(***************************************************************************)

Lines == [1..5 -> Seq(Entry)]

LEMMA HasAreTimes ==
  ASSUME NEW seq \in Seq(Entry), NEW i, NEW n, ~Has(seq, i, n)
  PROVE  TimesIn(seq, i, n) = 0
<1>1. {k \in 1..Len(seq) : seq[k] = Raw(i, n)} = {}
  BY DEF Has
<1>2. Cardinality({}) = 0
  BY FS_EmptySet
<1> QED
  BY <1>1, <1>2 DEF TimesIn

LEMMA LineFacts ==
  ASSUME NEW L \in Lines, NEW i
  PROVE  /\ \A p \in 1..5 : L[p] \in Seq(Entry)
         /\ \A n : Before(L, i, n, 5) <=> \E p \in 1..5 : Has(L[p], i, n)
         /\ \A p \in 1..5 : \A n : Has(L[p], i, n) => n \in Nat \ {0}
         /\ \A n : \A p \in 1..5 : TimesIn(L[p], i, n) \in Nat
<1>1. \A p \in 1..5 : L[p] \in Seq(Entry)
  BY DEF Lines
<1>2. \A n : Before(L, i, n, 5) <=> \E p \in 1..5 : Has(L[p], i, n)
  BY DEF Before
<1>3. \A p \in 1..5 : \A n : Has(L[p], i, n) => n \in Nat \ {0}
  BY <1>1, HasSome
<1>4. \A n : \A p \in 1..5 : TimesIn(L[p], i, n) \in Nat
  BY <1>1, TimesType
<1> QED
  BY <1>1, <1>2, <1>3, <1>4

(* Other entries come and go.                                              *)
LEMMA LineQuiet ==
  ASSUME NEW L \in Lines, NEW M \in Lines, NEW i, NEW max \in Nat, NEW more \in Nat,
         NEW miss, max <= more, InLine(L, i, max, miss), \A p \in 1..5 : Alike(L[p], M[p], i)
  PROVE  /\ InLine(M, i, more, miss)
         /\ \A n : Before(M, i, n, 5) <=> Before(L, i, n, 5)
<1>1. \A p \in 1..5 : \A n : Has(M[p], i, n) <=> Has(L[p], i, n)
  BY DEF Alike
<1>2. \A p \in 1..5 : Rising(M[p], i)
  BY DEF Alike, InLine
<1>3. \A n, p : p \in 1..5 => (Before(M, i, n, p) <=> Before(L, i, n, p))
  BY <1>1 DEF Before
<1>4. \A n : Times(M, i, n) = Times(L, i, n)
  <2> TAKE n
  <2>1. /\ TimesIn(M[1], i, n) = TimesIn(L[1], i, n) /\ TimesIn(M[2], i, n) = TimesIn(L[2], i, n)
        /\ TimesIn(M[3], i, n) = TimesIn(L[3], i, n) /\ TimesIn(M[4], i, n) = TimesIn(L[4], i, n)
        /\ TimesIn(M[5], i, n) = TimesIn(L[5], i, n)
    BY DEF Alike
  <2> QED
    BY <2>1 DEF Times
<1>5. \A n \in Nat : Times(M, i, n) <= more
  <2> TAKE n \in Nat
  <2>1. Times(L, i, n) <= max
    BY DEF InLine
  <2>2. Times(L, i, n) \in Nat
    <3>1. \A p \in 1..5 : TimesIn(L[p], i, n) \in Nat
      BY LineFacts
    <3> QED
      BY <3>1 DEF Times
  <2> QED
    BY <1>4, <2>1, <2>2
<1>6. \A p, q \in 1..5 : \A m, n \in Nat :
        p < q /\ Has(M[p], i, m) /\ Has(M[q], i, n) => m <= n
  BY <1>1 DEF InLine
<1>7. \A p \in 1..5 : \A m \in Nat : Has(M[p], i, m) =>
        \A n \in 1..(m - 1) : Before(M, i, n, p) \/ n \in miss
  BY <1>1, <1>3 DEF InLine
<1> QED
  BY <1>2, <1>3, <1>5, <1>6, <1>7 DEF InLine

(* An entry of i moves on to the next place.                               *)
LEMMA LineMove ==
  ASSUME NEW L \in Lines, NEW M \in Lines, NEW i, NEW max \in Nat, NEW miss,
         InLine(L, i, max, miss), NEW p \in 1..4, NEW m,
         Loses(L[p + 1], M[p + 1], i, m), Gains(L[p], M[p], i, m, 1),
         \A q \in 1..5 : q \notin {p, p + 1} => Alike(L[q], M[q], i)
  PROVE  /\ InLine(M, i, max, miss)
         /\ \A n : Before(M, i, n, 5) <=> Before(L, i, n, 5)
<1> DEFINE r == p + 1
<1>0. r \in 1..5 /\ p \in 1..5 /\ p < r /\ \A q \in 1..5 : (q > p /\ q # r => r < q) /\ (q < r /\ q # p => q < p)
  OBVIOUS
<1>1. /\ \A n : Has(L[r], i, n) <=> Has(M[r], i, n) \/ n = m
      /\ \A n : Has(M[p], i, n) <=> Has(L[p], i, n) \/ n = m
      /\ \A q \in 1..5 : q \notin {p, r} => \A n : Has(M[q], i, n) <=> Has(L[q], i, n)
  BY DEF Loses, Gains, Alike
<1>2. m \in Nat \ {0} /\ Has(L[r], i, m)
  BY <1>0, <1>1, LineFacts
<1> HIDE DEF r
<1>3. \A n : Has(M[r], i, n) => m <= n
  <2>1. Rising(L[r], i)
    BY <1>0 DEF InLine
  <2> QED
    BY <2>1 DEF Loses, r
<1>4. \A q \in 1..5 : Rising(M[q], i)
  <2> TAKE q \in 1..5
  <2>1. Rising(L[q], i)
    BY DEF InLine
  <2>2. CASE q = p
    <3>1. \A n : Has(L[p], i, n) => n <= m
      <4>1. \A n : Has(L[p], i, n) => n \in Nat
        BY <1>0, LineFacts
      <4> QED
        BY <1>0, <1>2, <4>1 DEF InLine
    <3> QED
      BY <2>1, <2>2, <3>1 DEF Gains
  <2>3. CASE q = r
    BY <2>1, <2>3 DEF Loses, r
  <2>4. CASE q \notin {p, r}
    BY <2>1, <2>4 DEF Alike, r
  <2> QED
    BY <2>2, <2>3, <2>4
<1>5. \A q, s \in 1..5 : \A a, b \in Nat :
        q < s /\ Has(M[q], i, a) /\ Has(M[s], i, b) => a <= b
  <2> SUFFICES ASSUME NEW q \in 1..5, NEW s \in 1..5, NEW a \in Nat, NEW b \in Nat,
                      q < s, Has(M[q], i, a), Has(M[s], i, b)
               PROVE  a <= b
    OBVIOUS
  <2>1. /\ Has(L[q], i, a) \/ (q = p /\ a = m)
        /\ Has(L[s], i, b) \/ (s = p /\ b = m)
    BY <1>1
  <2>2. CASE Has(L[q], i, a) /\ Has(L[s], i, b)
    BY <2>2 DEF InLine
  <2>3. CASE s = p /\ b = m
    <3>1. q # p /\ q < r /\ Has(L[q], i, a)
      BY <1>0, <2>1, <2>3
    <3> QED
      BY <1>0, <1>2, <2>3, <3>1 DEF InLine
  <2>4. CASE q = p /\ a = m
    <3>1. Has(L[s], i, b) /\ s > p
      BY <2>1, <2>4
    <3>2. CASE s = r
      BY <1>3, <2>4, <3>2
    <3>3. CASE s # r
      <4>1. r < s
        BY <1>0, <3>1, <3>3
      <4> QED
        BY <1>0, <1>2, <2>4, <3>1, <4>1 DEF InLine
    <3> QED
      BY <3>2, <3>3
  <2> QED
    BY <2>1, <2>2, <2>3, <2>4
<1>6. \A q \in 1..5 : \A n : (q # p /\ Before(L, i, n, q) => Before(M, i, n, q))
                             /\ (q # p /\ Before(M, i, n, q) => Before(L, i, n, q) \/ (q >= p /\ n = m))
  <2> SUFFICES ASSUME NEW q \in 1..5, NEW n, q # p
               PROVE  /\ Before(L, i, n, q) => Before(M, i, n, q)
                      /\ Before(M, i, n, q) => Before(L, i, n, q) \/ (q >= p /\ n = m)
    OBVIOUS
  <2>1. ASSUME Before(L, i, n, q)
        PROVE  Before(M, i, n, q)
    <3>1. PICK s \in 1..q : Has(L[s], i, n)
      BY <2>1 DEF Before
    <3>2. s \in 1..5
      OBVIOUS
    <3>3. CASE Has(M[s], i, n)
      BY <3>3 DEF Before
    <3>4. CASE ~Has(M[s], i, n)
      <4>1. s = r /\ n = m
        BY <1>1, <3>1, <3>2, <3>4
      <4>2. p \in 1..q /\ Has(M[p], i, n)
        BY <1>0, <1>1, <4>1
      <4> QED
        BY <4>2 DEF Before
    <3> QED
      BY <3>3, <3>4
  <2>2. ASSUME Before(M, i, n, q)
        PROVE  Before(L, i, n, q) \/ (q >= p /\ n = m)
    <3>1. PICK s \in 1..q : Has(M[s], i, n)
      BY <2>2 DEF Before
    <3>2. s \in 1..5 /\ s <= q
      OBVIOUS
    <3>3. Has(L[s], i, n) \/ (s = p /\ n = m)
      BY <1>1, <3>1, <3>2
    <3> QED
      BY <3>2, <3>3 DEF Before
  <2> QED
    BY <2>1, <2>2
<1>7. \A n : Before(M, i, n, 5) <=> Before(L, i, n, 5)
  <2> TAKE n
  <2>1. 5 # p /\ 5 \in 1..5
    OBVIOUS
  <2>2. Before(L, i, m, 5)
    BY <1>0, <1>2, LineFacts
  <2> QED
    BY <1>6, <2>1, <2>2
<1>8. \A n : Before(L, i, n, p) => Before(M, i, n, p)
  <2> SUFFICES ASSUME NEW n, Before(L, i, n, p)
               PROVE  Before(M, i, n, p)
    OBVIOUS
  <2>1. PICK s \in 1..p : Has(L[s], i, n)
    BY DEF Before
  <2>2. s \in 1..5 /\ s # r
    BY <1>0
  <2>3. Has(M[s], i, n)
    BY <1>1, <2>1, <2>2
  <2> QED
    BY <2>3 DEF Before
<1>9. \A q \in 1..5 : \A n \in Nat : Has(M[q], i, n) =>
        \A b \in 1..(n - 1) : Before(M, i, b, q) \/ b \in miss
  <2> SUFFICES ASSUME NEW q \in 1..5, NEW n \in Nat, Has(M[q], i, n),
                      NEW b \in 1..(n - 1), b \notin miss
               PROVE  Before(M, i, b, q)
    OBVIOUS
  <2>1. CASE Has(L[q], i, n)
    <3>1. Before(L, i, b, q)
      BY <2>1 DEF InLine
    <3> QED
      BY <1>6, <1>8, <3>1
  <2>2. CASE q = p /\ n = m
    <3>1. Before(L, i, b, r)
      BY <1>0, <1>2, <2>2 DEF InLine
    <3>2. PICK s \in 1..r : Has(L[s], i, b)
      BY <3>1 DEF Before
    <3>3. CASE s = r
      <4>1. b # m /\ ~(m <= b)
        BY <1>2, <2>2
      <4> QED
        BY <1>1, <1>3, <3>2, <3>3, <4>1
    <3>4. CASE s # r
      <4>1. s \in 1..p /\ s \in 1..5
        BY <1>0, <3>4 DEF r
      <4>2. Before(L, i, b, p)
        BY <3>2, <4>1 DEF Before
      <4> QED
        BY <1>8, <2>2, <4>2
    <3> QED
      BY <3>3, <3>4
  <2> QED
    BY <1>1, <2>1, <2>2
<1>10. \A n \in Nat : Times(M, i, n) <= max
  <2> TAKE n \in Nat
  <2> DEFINE l(q) == TimesIn(L[q], i, n)
             k(q) == TimesIn(M[q], i, n)
  <2>1. /\ \A q \in 1..5 : q \notin {p, r} => k(q) = l(q)
        /\ n # m => k(p) = l(p) /\ k(r) = l(r)
        /\ n = m => k(p) = l(p) + 1 /\ l(r) = k(r) + 1
    BY DEF Loses, Gains, Alike, r
  <2>2. \A q \in 1..5 : l(q) \in Nat /\ k(q) \in Nat
    BY LineFacts
  <2>3. l(1) + l(2) + l(3) + l(4) + l(5) <= max
    BY DEF InLine, Times
  <2>4. p \in {1, 2, 3, 4} /\ r = p + 1
    BY DEF r
  <2> HIDE DEF l, k
  <2>5. k(1) + k(2) + k(3) + k(4) + k(5) = l(1) + l(2) + l(3) + l(4) + l(5)
    <3>1. CASE p = 1
      <4>1. r = 2
        BY <2>4, <3>1
      <4> QED
        BY <2>1, <2>2, <3>1, <4>1
    <3>2. CASE p = 2
      <4>1. r = 3
        BY <2>4, <3>2
      <4> QED
        BY <2>1, <2>2, <3>2, <4>1
    <3>3. CASE p = 3
      <4>1. r = 4
        BY <2>4, <3>3
      <4> QED
        BY <2>1, <2>2, <3>3, <4>1
    <3>4. CASE p = 4
      <4>1. r = 5
        BY <2>4, <3>4
      <4> QED
        BY <2>1, <2>2, <3>4, <4>1
    <3> QED
      BY <2>4, <3>1, <3>2, <3>3, <3>4
  <2>6. k(1) + k(2) + k(3) + k(4) + k(5) <= max
    BY <2>3, <2>5
  <2> QED
    BY <2>6 DEF Times, k
<1> QED
  BY <1>4, <1>5, <1>7, <1>9, <1>10 DEF InLine

(* An entry of i that may be missing leaves the line.                      *)
LEMMA LineDrop ==
  ASSUME NEW L \in Lines, NEW M \in Lines, NEW i, NEW max \in Nat, NEW miss,
         InLine(L, i, max, miss), NEW p \in 1..5, NEW m \in miss, Loses(L[p], M[p], i, m),
         \A q \in 1..5 : q # p => Alike(L[q], M[q], i)
  PROVE  /\ InLine(M, i, max, miss)
         /\ \A n : /\ Before(M, i, n, 5) => Before(L, i, n, 5)
                   /\ Before(L, i, n, 5) => Before(M, i, n, 5) \/ n \in miss
<1>1. /\ \A n : Has(L[p], i, n) <=> Has(M[p], i, n) \/ n = m
      /\ \A q \in 1..5 : q # p => \A n : Has(M[q], i, n) <=> Has(L[q], i, n)
  BY DEF Loses, Alike
<1>2. \A q \in 1..5 : \A n : /\ Has(M[q], i, n) => Has(L[q], i, n)
                             /\ Has(L[q], i, n) => Has(M[q], i, n) \/ n = m
  BY <1>1
<1>3. \A q \in 1..5 : Rising(M[q], i)
  BY DEF Loses, Alike, InLine
<1>4. \A q, r \in 1..5 : \A a, b \in Nat :
        q < r /\ Has(M[q], i, a) /\ Has(M[r], i, b) => a <= b
  BY <1>2 DEF InLine
<1>5. \A q \in 1..5 : \A n : /\ Before(M, i, n, q) => Before(L, i, n, q)
                             /\ Before(L, i, n, q) => Before(M, i, n, q) \/ n = m
  <2> TAKE q \in 1..5
  <2>1. \A r \in 1..q : r \in 1..5
    OBVIOUS
  <2> QED
    BY <1>2, <2>1 DEF Before
<1>6. \A q \in 1..5 : \A n \in Nat : Has(M[q], i, n) =>
        \A b \in 1..(n - 1) : Before(M, i, b, q) \/ b \in miss
  <2> SUFFICES ASSUME NEW q \in 1..5, NEW n \in Nat, Has(M[q], i, n),
                      NEW b \in 1..(n - 1), b \notin miss
               PROVE  Before(M, i, b, q)
    OBVIOUS
  <2>1. Before(L, i, b, q)
    BY <1>2 DEF InLine
  <2> QED
    BY <1>5, <2>1
<1>7. \A n \in Nat : Times(M, i, n) <= max
  <2> TAKE n \in Nat
  <2> DEFINE l(q) == TimesIn(L[q], i, n)
             k(q) == TimesIn(M[q], i, n)
  <2>1. \A q \in 1..5 : k(q) = l(q) \/ l(q) = k(q) + 1
    BY DEF Loses, Alike
  <2>2. \A q \in 1..5 : l(q) \in Nat /\ k(q) \in Nat
    BY LineFacts
  <2>3. l(1) + l(2) + l(3) + l(4) + l(5) <= max
    BY DEF InLine, Times
  <2> HIDE DEF l, k
  <2>4. k(1) <= l(1) /\ k(2) <= l(2) /\ k(3) <= l(3) /\ k(4) <= l(4) /\ k(5) <= l(5)
    BY <2>1, <2>2
  <2>5. k(1) + k(2) + k(3) + k(4) + k(5) <= max
    BY <2>2, <2>3, <2>4
  <2> QED
    BY <2>5 DEF Times, k
<1> QED
  BY <1>3, <1>4, <1>5, <1>6, <1>7 DEF InLine

(* What may be missing is still allowed to be when more may be.            *)
LEMMA LineMisses ==
  ASSUME NEW L, NEW i, NEW max, NEW miss, NEW wide, miss \subseteq wide
  PROVE  /\ InLine(L, i, max, miss) => InLine(L, i, max, wide)
         /\ \A src, last, all :
              Follows(src, L, i, last, all, miss) => Follows(src, L, i, last, all, wide)
  BY DEF InLine, Follows

(* A source hands on its first entry, k times, to the end of the line.     *)
LEMMA LineFrom ==
  ASSUME NEW L \in Lines, NEW M \in Lines, NEW i, NEW max \in Nat, NEW miss,
         InLine(L, i, max, miss), NEW p \in {4, 5}, NEW m \in Nat, NEW k \in Nat \ {0}, k <= max,
         \A q \in 1..5 : q > p => \A n : ~Has(L[q], i, n),
         Gains(L[p], M[p], i, m, k),
         \A q \in 1..5 : q # p => Alike(L[q], M[q], i),
         NEW src, NEW rest, NEW last \in Nat, NEW all, Follows(src, L, i, last, all, miss),
         Climbing(rest, i), \A n : Has(rest, i, n) => m < n /\ n \in Nat,
         \A n : Has(src, i, n) <=> Has(rest, i, n) \/ n = m
  PROVE  /\ InLine(M, i, max, miss)
         /\ Follows(rest, M, i, last, all, miss)
<1>1. /\ \A n : Has(M[p], i, n) <=> Has(L[p], i, n) \/ n = m
      /\ \A q \in 1..5 : q # p => \A n : Has(M[q], i, n) <=> Has(L[q], i, n)
  BY DEF Gains, Alike
<1>2. \A q \in 1..5 : \A n : Has(L[q], i, n) => n < m /\ n \in Nat
  <2> SUFFICES ASSUME NEW q \in 1..5, NEW n, Has(L[q], i, n)
               PROVE  n < m /\ n \in Nat
    OBVIOUS
  <2>1. n \in Nat /\ Before(L, i, n, 5)
    BY LineFacts
  <2> QED
    BY <2>1 DEF Follows
<1>3. \A q \in 1..5 : Rising(M[q], i)
  <2> TAKE q \in 1..5
  <2>1. Rising(L[q], i)
    BY DEF InLine
  <2>2. CASE q = p
    <3>1. \A n : Has(L[p], i, n) => n <= m
      BY <1>2
    <3> QED
      BY <2>1, <2>2, <3>1 DEF Gains
  <2>3. CASE q # p
    BY <2>1, <2>3 DEF Alike
  <2> QED
    BY <2>2, <2>3
<1>4. \A q, s \in 1..5 : \A a, b \in Nat :
        q < s /\ Has(M[q], i, a) /\ Has(M[s], i, b) => a <= b
  <2> SUFFICES ASSUME NEW q \in 1..5, NEW s \in 1..5, NEW a \in Nat, NEW b \in Nat,
                      q < s, Has(M[q], i, a), Has(M[s], i, b)
               PROVE  a <= b
    OBVIOUS
  <2>1. /\ Has(L[q], i, a) \/ (q = p /\ a = m)
        /\ Has(L[s], i, b) \/ (s = p /\ b = m)
    BY <1>1
  <2>2. CASE Has(L[q], i, a) /\ Has(L[s], i, b)
    BY <2>2 DEF InLine
  <2>3. CASE s = p /\ b = m
    <3>1. Has(L[q], i, a)
      BY <2>1, <2>3
    <3> QED
      BY <1>2, <2>3, <3>1
  <2>4. CASE q = p /\ a = m
    <3>1. s > p /\ Has(L[s], i, b)
      BY <2>1, <2>4
    <3> QED
      BY <3>1
  <2> QED
    BY <2>1, <2>2, <2>3, <2>4
<1>5. \A n : Before(M, i, n, 5) <=> Before(L, i, n, 5) \/ n = m
  <2> TAKE n
  <2>1. /\ Before(L, i, n, 5) <=> \E q \in 1..5 : Has(L[q], i, n)
        /\ Before(M, i, n, 5) <=> \E q \in 1..5 : Has(M[q], i, n)
    BY LineFacts
  <2>2. p \in 1..5
    OBVIOUS
  <2> QED
    BY <1>1, <2>1, <2>2
<1>6. m \in 1..last /\ \A b \in 1..(m - 1) : Before(L, i, b, 5) \/ b \in miss
  <2>1. Has(src, i, m)
    OBVIOUS
  <2>2. m \in 1..last
    BY <2>1 DEF Follows
  <2>3. ASSUME NEW b \in 1..(m - 1), b \notin miss
        PROVE  Before(L, i, b, 5)
    <3>1. Has(src, i, b) \/ Before(L, i, b, 5)
      BY <2>1, <2>3 DEF Follows
    <3>2. ~Has(src, i, b)
      <4>1. b # m /\ ~(m < b)
        OBVIOUS
      <4> QED
        BY <4>1
    <3> QED
      BY <3>1, <3>2
  <2> QED
    BY <2>2, <2>3
<1>7. \A q \in 1..5 : \A n \in Nat : Has(M[q], i, n) =>
        \A b \in 1..(n - 1) : Before(M, i, b, q) \/ b \in miss
  <2> SUFFICES ASSUME NEW q \in 1..5, NEW n \in Nat, Has(M[q], i, n),
                      NEW b \in 1..(n - 1), b \notin miss
               PROVE  Before(M, i, b, q)
    OBVIOUS
  <2>1. CASE Has(L[q], i, n)
    <3>1. Before(L, i, b, q)
      BY <2>1 DEF InLine
    <3>2. PICK s \in 1..q : Has(L[s], i, b)
      BY <3>1 DEF Before
    <3>3. s \in 1..5
      OBVIOUS
    <3>4. Has(M[s], i, b)
      BY <1>1, <3>2, <3>3
    <3> QED
      BY <3>4 DEF Before
  <2>2. CASE q = p /\ n = m
    <3>1. Before(L, i, b, 5)
      BY <1>6, <2>2
    <3>2. PICK s \in 1..5 : Has(L[s], i, b)
      BY <3>1 DEF Before
    <3>3. s \in 1..p
      BY <3>2
    <3>4. Has(M[s], i, b)
      BY <1>1, <3>2
    <3> QED
      BY <2>2, <3>3, <3>4 DEF Before
  <2> QED
    BY <1>1, <2>1, <2>2
<1>8. \A n \in Nat : Times(M, i, n) <= max
  <2> TAKE n \in Nat
  <2> DEFINE l(q) == TimesIn(L[q], i, n)
             j(q) == TimesIn(M[q], i, n)
  <2>1. /\ \A q \in 1..5 : q # p => j(q) = l(q)
        /\ n # m => j(p) = l(p)
        /\ n = m => j(p) = l(p) + k
    BY DEF Gains, Alike
  <2>2. \A q \in 1..5 : l(q) \in Nat /\ j(q) \in Nat
    BY LineFacts
  <2>3. l(1) + l(2) + l(3) + l(4) + l(5) <= max
    BY DEF InLine, Times
  <2>4. n = m => \A q \in 1..5 : l(q) = 0
    <3>1. n = m => \A q \in 1..5 : ~Has(L[q], i, n)
      BY <1>2
    <3>2. \A q \in 1..5 : L[q] \in Seq(Entry)
      BY LineFacts
    <3> QED
      BY <3>1, <3>2, HasAreTimes
  <2> HIDE DEF l, j
  <2>5. CASE n # m
    <3>1. \A q \in 1..5 : j(q) = l(q)
      BY <2>1, <2>5
    <3>2. j(1) + j(2) + j(3) + j(4) + j(5) <= max
      BY <2>3, <3>1
    <3> QED
      BY <3>2 DEF Times, j
  <2>6. CASE n = m
    <3>1. /\ l(1) = 0 /\ l(2) = 0 /\ l(3) = 0 /\ l(4) = 0 /\ l(5) = 0
      BY <2>4, <2>6
    <3>2. CASE p = 4
      <4>1. j(1) = 0 /\ j(2) = 0 /\ j(3) = 0 /\ j(4) = k /\ j(5) = 0
        BY <2>1, <2>6, <3>1, <3>2
      <4> QED
        BY <4>1 DEF Times, j
    <3>3. CASE p = 5
      <4>1. j(1) = 0 /\ j(2) = 0 /\ j(3) = 0 /\ j(4) = 0 /\ j(5) = k
        BY <2>1, <2>6, <3>1, <3>3
      <4> QED
        BY <4>1 DEF Times, j
    <3> QED
      BY <3>2, <3>3
  <2> QED
    BY <2>5, <2>6
<1>9. InLine(M, i, max, miss)
  BY <1>3, <1>4, <1>7, <1>8 DEF InLine
<1>10. \A a, n \in Nat : Before(M, i, a, 5) /\ Has(rest, i, n) => a < n
  <2> SUFFICES ASSUME NEW a \in Nat, NEW n \in Nat, Before(M, i, a, 5), Has(rest, i, n)
               PROVE  a < n
    OBVIOUS
  <2>1. CASE a = m
    BY <2>1
  <2>2. CASE a # m
    <3>1. Before(L, i, a, 5) /\ Has(src, i, n)
      BY <1>5, <2>2
    <3> QED
      BY <3>1 DEF Follows
  <2> QED
    BY <2>1, <2>2
<1>11. \A n \in Nat : Has(rest, i, n) =>
         \A b \in 1..(n - 1) : Has(rest, i, b) \/ Before(M, i, b, 5) \/ b \in miss
  <2> SUFFICES ASSUME NEW n \in Nat, Has(rest, i, n), NEW b \in 1..(n - 1), b \notin miss
               PROVE  Has(rest, i, b) \/ Before(M, i, b, 5)
    OBVIOUS
  <2>1. Has(src, i, n)
    OBVIOUS
  <2>2. Has(src, i, b) \/ Before(L, i, b, 5)
    BY <2>1 DEF Follows
  <2> QED
    BY <1>5, <2>2
<1>12. \A n \in Nat : Has(rest, i, n) \/ Before(M, i, n, 5) => n \in 1..last
  BY <1>5, <1>6 DEF Follows
<1>13. all => \A n \in 1..last : Has(rest, i, n) \/ Before(M, i, n, 5) \/ n \in miss
  BY <1>5 DEF Follows
<1> QED
  BY <1>9, <1>10, <1>11, <1>12, <1>13 DEF Follows

(* The line and the source hold the same as before, but what may be missing.*)
LEMMA FollowsSame ==
  ASSUME NEW L, NEW M, NEW i, NEW src, NEW rest, NEW last, NEW all, NEW miss,
         Follows(src, L, i, last, all, miss),
         \A n : /\ Before(M, i, n, 5) => Before(L, i, n, 5)
                /\ Before(L, i, n, 5) => Before(M, i, n, 5) \/ n \in miss,
         Climbing(rest, i), \A n : Has(rest, i, n) <=> Has(src, i, n)
  PROVE  Follows(rest, M, i, last, all, miss)
<1>0. \A n : Before(M, i, n, 5) => Before(L, i, n, 5)
  BY Zenon
<1>h. \A n : Has(rest, i, n) <=> Has(src, i, n)
  OBVIOUS
<1>1. \A m, n \in Nat : Before(M, i, m, 5) /\ Has(rest, i, n) => m < n
  <2> SUFFICES ASSUME NEW m \in Nat, NEW n \in Nat, Before(M, i, m, 5), Has(rest, i, n)
               PROVE  m < n
    OBVIOUS
  <2>1. Before(L, i, m, 5) /\ Has(src, i, n)
    BY ONLY <1>0, <1>h, Before(M, i, m, 5), Has(rest, i, n)
  <2> QED
    BY <2>1 DEF Follows
<1>2. \A m \in Nat : Has(rest, i, m) =>
        \A n \in 1..(m - 1) : Has(rest, i, n) \/ Before(M, i, n, 5) \/ n \in miss
  <2> SUFFICES ASSUME NEW m \in Nat, Has(rest, i, m), NEW n \in 1..(m - 1)
               PROVE  Has(rest, i, n) \/ Before(M, i, n, 5) \/ n \in miss
    OBVIOUS
  <2>1. Has(src, i, n) \/ Before(L, i, n, 5) \/ n \in miss
    BY DEF Follows
  <2> QED
    BY <2>1
<1>3. \A n \in Nat : Has(rest, i, n) \/ Before(M, i, n, 5) => n \in 1..last
  <2> SUFFICES ASSUME NEW n \in Nat, Has(rest, i, n) \/ Before(M, i, n, 5)
               PROVE  n \in 1..last
    OBVIOUS
  <2>1. Before(L, i, n, 5) \/ Has(src, i, n)
    BY ONLY <1>0, <1>h, Has(rest, i, n) \/ Before(M, i, n, 5)
  <2> QED
    BY <2>1 DEF Follows
<1>4. all => \A n \in 1..last : Has(rest, i, n) \/ Before(M, i, n, 5) \/ n \in miss
  BY DEF Follows
<1> QED
  BY <1>1, <1>2, <1>3, <1>4 DEF Follows

(* The input gives its next entry.                                         *)
LEMMA FollowsGiven ==
  ASSUME NEW L, NEW i, NEW src \in Seq(Entry), NEW last \in Nat, NEW miss,
         Follows(src, L, i, last, TRUE, miss), NEW x \in Entry, x = Raw(i, last + 1)
  PROVE  Follows(Append(src, x), L, i, last + 1, TRUE, miss)
<1> DEFINE t == Append(src, x)
           m == last + 1
<1>1. IsRaw(x, i) /\ x.n = m /\ m \in Nat
  BY DEF IsRaw, Raw
<1>2. \A n : Has(t, i, n) <=> Has(src, i, n) \/ n = m
  <2>1. \A n : x = Raw(i, n) <=> n = m
    BY <1>1, RawFacts
  <2> QED
    BY <2>1, HasAppend
<1>3. Climbing(t, i)
  <2>1. \A n \in Nat : Has(src, i, n) => n < x.n
    BY <1>1 DEF Follows
  <2>2. Climbing(src, i)
    BY DEF Follows
  <2> QED
    BY <2>1, <2>2, ClimbingAppend
<1> HIDE DEF t
<1>4. \A a, n \in Nat : Before(L, i, a, 5) /\ Has(t, i, n) => a < n
  BY <1>2 DEF Follows
<1>5. \A n \in Nat : Has(t, i, n) =>
        \A b \in 1..(n - 1) : Has(t, i, b) \/ Before(L, i, b, 5) \/ b \in miss
  <2> SUFFICES ASSUME NEW n \in Nat, Has(t, i, n), NEW b \in 1..(n - 1)
               PROVE  Has(t, i, b) \/ Before(L, i, b, 5) \/ b \in miss
    OBVIOUS
  <2>1. CASE Has(src, i, n)
    BY <1>2, <2>1 DEF Follows
  <2>2. CASE n = m
    <3>1. b \in 1..last
      BY <2>2
    <3>2. Has(src, i, b) \/ Before(L, i, b, 5) \/ b \in miss
      BY <3>1 DEF Follows
    <3> QED
      BY <1>2, <3>2
  <2> QED
    BY <1>2, <2>1, <2>2
<1>6. \A n \in Nat : Has(t, i, n) \/ Before(L, i, n, 5) => n \in 1..m
  <2> SUFFICES ASSUME NEW n \in Nat, Has(t, i, n) \/ Before(L, i, n, 5)
               PROVE  n \in 1..m
    OBVIOUS
  <2>1. n \in 1..last \/ n = m
    BY <1>2 DEF Follows
  <2> QED
    BY <2>1
<1>7. \A n \in 1..m : Has(t, i, n) \/ Before(L, i, n, 5) \/ n \in miss
  <2> TAKE n \in 1..m
  <2>1. n \in 1..last \/ n = m
    OBVIOUS
  <2> QED
    BY <1>2, <2>1 DEF Follows
<1> QED
  BY <1>3, <1>4, <1>5, <1>6, <1>7 DEF Follows, t

(* The source forgets its last entries.                                    *)
LEMMA FollowsForgotten ==
  ASSUME NEW L, NEW i, NEW src \in Seq(Entry), NEW last, NEW all, NEW miss,
         Follows(src, L, i, last, all, miss), NEW k \in 0..Len(src)
  PROVE  Follows(SubSeq(src, 1, k), L, i, last, FALSE, miss)
<1> DEFINE t == SubSeq(src, 1, k)
<1>1. /\ Len(t) = k /\ k \in Nat /\ \A j \in 1..k : t[j] = src[j] /\ j \in 1..Len(src)
      /\ t \in Seq(Entry) /\ Len(src) \in Nat
  OBVIOUS
<1> HIDE DEF t
<1>2. \A n : Has(t, i, n) => Has(src, i, n)
  BY <1>1 DEF Has
<1>3. Climbing(src, i)
  BY DEF Follows
<1>4. Climbing(t, i)
  BY <1>1, <1>3 DEF Climbing
<1>5. \A n \in Nat : \A b \in 1..(n - 1) : Has(t, i, n) /\ Has(src, i, b) => Has(t, i, b)
  <2> SUFFICES ASSUME NEW n \in Nat, NEW b \in 1..(n - 1), Has(t, i, n), Has(src, i, b)
               PROVE  Has(t, i, b)
    OBVIOUS
  <2>1. PICK j \in 1..k : t[j] = Raw(i, n)
    BY <1>1 DEF Has
  <2>2. PICK l \in 1..Len(src) : src[l] = Raw(i, b)
    BY DEF Has
  <2>3. IsRaw(src[j], i) /\ IsRaw(src[l], i) /\ src[j].n = n /\ src[l].n = b /\ j \in 1..Len(src)
    BY <1>1, <2>1, <2>2 DEF IsRaw, Raw
  <2>4. l < j
    <3>1. ~(j < l)
      <4>1. ~(n < b)
        OBVIOUS
      <4> QED
        BY <1>3, <2>3, <4>1 DEF Climbing
    <3>2. j # l
      <4>1. n # b
        OBVIOUS
      <4> QED
        BY <2>3, <4>1
    <3> QED
      BY <1>1, <3>1, <3>2
  <2>5. l \in 1..k
    BY <1>1, <2>4
  <2>6. t[l] = Raw(i, b)
    BY <1>1, <2>2, <2>5
  <2> QED
    BY <1>1, <2>5, <2>6 DEF Has
<1>6. \A a, n \in Nat : Before(L, i, a, 5) /\ Has(t, i, n) => a < n
  BY <1>2 DEF Follows
<1>7. \A n \in Nat : Has(t, i, n) =>
        \A b \in 1..(n - 1) : Has(t, i, b) \/ Before(L, i, b, 5) \/ b \in miss
  BY <1>2, <1>5 DEF Follows
<1>8. \A n \in Nat : Has(t, i, n) \/ Before(L, i, n, 5) => n \in 1..last
  BY <1>2 DEF Follows
<1> QED
  BY <1>4, <1>6, <1>7, <1>8 DEF Follows, t

(***************************************************************************)
(* Types.                                                                  *)
(***************************************************************************)

LEMMA StreamFields ==
  ASSUME NEW r \in Streams
  PROVE  /\ r.buf \in Seq(Entry) /\ r.pipes \in Nat
         /\ r.flowing \in BOOLEAN /\ r.awaiting \in BOOLEAN /\ r.listens \in BOOLEAN
         /\ r = [buf |-> r.buf, flowing |-> r.flowing, pipes |-> r.pipes,
                 awaiting |-> r.awaiting, listens |-> r.listens]
  BY DEF Streams

LEMMA FilterFields ==
  ASSUME NEW r \in Filters
  PROVE  /\ r.writes \in Seq(Chunk) /\ r.queue \in Seq(Entry)
         /\ r.passed \in BOOLEAN /\ r.needDrain \in BOOLEAN
         /\ r = [writes |-> r.writes, passed |-> r.passed, queue |-> r.queue,
                 needDrain |-> r.needDrain]
  BY DEF Filters

LEMMA WriteType ==
  ASSUME NEW e \in Entry
  PROVE  Write(e) \in Chunk /\ Write(e).entry = e
  BY DEF Write, Chunk

(* What write() does to a FilterStream.                                    *)
LEMMA EnterFacts ==
  ASSUME NEW s \in Filters, NEW c \in Chunk
  PROVE  /\ Enter(s, c) \in Filters
         /\ Enter(s, c).writes = Append(s.writes, c)
         /\ Enter(s, c).queue = s.queue /\ Enter(s, c).passed = s.passed
<1> DEFINE w == Append(s.writes, c)
           d == (s.needDrain \/ ~HasRoom(s, FilterMAX))
<1>1. Enter(s, c) = [s EXCEPT !.writes = w, !.needDrain = d]
  BY DEF Enter
<1>2. w \in Seq(Chunk) /\ d \in BOOLEAN
  BY FilterFields
<1> HIDE DEF w, d
<1>3. Enter(s, c) = [writes |-> w, passed |-> s.passed, queue |-> s.queue, needDrain |-> d]
  BY <1>1, FilterFields
<1> QED
  BY <1>2, <1>3, FilterFields DEF Filters, w

LEMMA AckType ==
  ASSUME NEW fs, Ack(fs), work \in [Flows -> SUBSET Entry],
         \A f \in Flows : \A d, e \in work[f] : d = e
  PROVE  /\ work' \in [Flows -> SUBSET Entry]
         /\ \A f \in Flows : \A d, e \in work'[f] : d = e
  BY DEF Ack

LEMMA AnswerType ==
  ASSUME GraphTypeOK, NEW i \in PullInputs, Answer(i)
  PROVE  /\ GraphTypeOK'
         /\ NextEntry(i) \in Entry
         /\ given' = [given EXCEPT ![i] = given[i] + 1]
         /\ stream' \in [PullInputs -> Streams]
         /\ stream'[i] = [stream[i] EXCEPT !.buf = Append(stream[i].buf, NextEntry(i))]
         /\ \A j \in PullInputs : j # i => stream'[j] = stream[j]
<1> DEFINE e == NextEntry(i)
           b == Append(stream[i].buf, e)
           r == [stream[i] EXCEPT !.buf = b]
<1>1. i \in Inputs /\ given[i] \in Nat
  BY DEF GraphTypeOK, Inputs
<1>2. e \in Entry
  BY <1>1 DEF NextEntry, Entry, Targets
<1>3. given' = [given EXCEPT ![i] = given[i] + 1]
  BY DEF Answer, Give
<1>4. stream[i] \in Streams /\ Len(stream[i].buf) < MaxPending
  BY DEF GraphTypeOK, Answer
<1>5. stream' = [stream EXCEPT ![i] = r]
  BY DEF Answer
<1> HIDE DEF e
<1>6. b \in Seq(Entry) /\ Len(b) = Len(stream[i].buf) + 1
  BY <1>2, <1>4, StreamFields, AppendProperties
<1> HIDE DEF b
<1>7. r \in Streams /\ r.buf = b
  BY <1>4, <1>6, StreamFields DEF Streams
<1> HIDE DEF r
<1>8. /\ stream' \in [PullInputs -> Streams]
      /\ stream'[i] = r /\ \A j \in PullInputs : j # i => stream'[j] = stream[j]
  BY <1>5, <1>7 DEF GraphTypeOK
<1>9. \A j \in PullInputs : Len(stream'[j].buf) <= MaxPending
  <2> TAKE j \in PullInputs
  <2>1. CASE j = i
    <3>1. Len(stream[i].buf) \in Nat
      BY <1>4, StreamFields
    <3> QED
      BY <1>4, <1>6, <1>7, <1>8, <2>1, <3>1, Limits
  <2>2. CASE j # i
    BY <1>8, <2>2 DEF GraphTypeOK
  <2> QED
    BY <2>1, <2>2
<1>10. given' \in [Inputs -> Nat]
  BY <1>1, <1>3 DEF GraphTypeOK
<1>11. \A j \in Inputs : given'[j] <= world.most[j]
  <2>1. given[i] < world.most[i] /\ world.most[i] \in Nat
    BY <1>1, WorldType DEF Answer, MayGive, GraphTypeOK
  <2> QED
    BY <1>1, <1>3, <2>1 DEF GraphTypeOK
<1>12. UNCHANGED <<disk, bypass, hub, waiting, full, world, filter, work, marked, taken, paused, pauses, stopped>>
  BY DEF Answer, flowSide
<1>13. GraphTypeOK'
  BY <1>8, <1>9, <1>10, <1>11, <1>12 DEF GraphTypeOK, BypassTypeOK, FilterMAX
<1> QED
  BY <1>2, <1>3, <1>8, <1>13 DEF r, b, e

LEMMA ReceiveType ==
  ASSUME GraphTypeOK, NEW i \in PushInputs, Receive(i)
  PROVE  /\ GraphTypeOK'
         /\ NextEntry(i) \in Entry
         /\ given' = [given EXCEPT ![i] = given[i] + 1]
         /\ disk' = Append(disk, NextEntry(i))
<1> DEFINE e == NextEntry(i)
<1>1. i \in Inputs /\ given[i] \in Nat
  BY DEF GraphTypeOK, Inputs
<1>2. e \in Entry
  BY <1>1 DEF NextEntry, Entry, Targets
<1>3. given' = [given EXCEPT ![i] = given[i] + 1] /\ disk' = Append(disk, e)
  BY DEF Receive, Give
<1> HIDE DEF e
<1>4. disk' \in Seq(Entry)
  BY <1>2, <1>3, AppendProperties DEF GraphTypeOK
<1>5. given' \in [Inputs -> Nat]
  BY <1>1, <1>3 DEF GraphTypeOK
<1>6. \A j \in Inputs : given'[j] <= world.most[j]
  <2>1. given[i] < world.most[i] /\ world.most[i] \in Nat
    BY <1>1, WorldType DEF Receive, MayGive, GraphTypeOK
  <2> QED
    BY <1>1, <1>3, <2>1 DEF GraphTypeOK
<1>7. UNCHANGED <<stream, bypass, hub, waiting, full, world, filter, work, marked, taken, paused, pauses, stopped>>
  BY DEF Receive, flowSide
<1>8. GraphTypeOK'
  BY <1>4, <1>5, <1>6, <1>7 DEF GraphTypeOK, BypassTypeOK, FilterMAX
<1> QED
  BY <1>2, <1>3, <1>8 DEF e

LEMMA EmitPullType ==
  ASSUME GraphTypeOK, PipesInPlace, NEW i \in PullInputs, EmitPull(i)
  PROVE  /\ GraphTypeOK'
         /\ stream'[i].buf = Tail(stream[i].buf) /\ stream[i].buf # <<>>
         /\ stream'[i].pipes = stream[i].pipes /\ stream[i].pipes \in Nat \ {0} /\ ~stopped
         /\ \A j \in PullInputs : j # i => stream'[j] = stream[j]
         /\ Write(Head(stream[i].buf)) \in Chunk
         /\ bypass' = Passes(bypass, Write(Head(stream[i].buf)), stream[i].pipes)[stream[i].pipes]
<1> DEFINE n == stream[i].pipes
           e == Head(stream[i].buf)
           after == Passes(bypass, Write(e), n)
           refused == \E k \in 1..n : ~PassHasRoom(after[k - 1])
           r == [stream[i] EXCEPT !.buf = Tail(@), !.flowing = ~refused,
                                  !.awaiting = @ \/ refused, !.listens = @ \/ refused]
<1>1. stream[i] \in Streams /\ stream[i].buf # <<>> /\ stream[i].flowing
  BY DEF GraphTypeOK, EmitPull
<1>2. n \in Nat \ {0} /\ ~stopped
  <2>1. n \in Nat
    BY <1>1, StreamFields
  <2>2. n >= 1 /\ ~stopped
    BY <1>1 DEF PipesInPlace
  <2> QED
    BY <2>1, <2>2
<1>3. e \in Entry /\ Tail(stream[i].buf) \in Seq(Entry)
      /\ Len(Tail(stream[i].buf)) <= Len(stream[i].buf) /\ Len(Tail(stream[i].buf)) \in Nat
      /\ Len(stream[i].buf) \in Nat
  <2>1. stream[i].buf \in Seq(Entry)
    BY <1>1, StreamFields
  <2> QED
    BY <1>1, <2>1
<1>4. Write(e) \in Chunk
  BY <1>3, WriteType
<1>5. bypass' = after[n]
  BY DEF EmitPull
<1>6. BypassTypeOK(bypass')
  <2>1. BypassTypeOK(bypass)
    BY DEF GraphTypeOK
  <2> QED
    BY <1>2, <1>4, <1>5, <2>1, CargoPasses
<1>7. stream' = [stream EXCEPT ![i] = r]
  BY DEF EmitPull
<1>8. refused \in BOOLEAN
  OBVIOUS
<1> HIDE DEF refused, after, e
<1>9. r \in Streams /\ r.buf = Tail(stream[i].buf) /\ r.pipes = n
  <2> DEFINE a == stream[i].awaiting \/ refused
             l == stream[i].listens \/ refused
             b == Tail(stream[i].buf)
             w == ~refused
  <2>1. r = [stream[i] EXCEPT !.buf = b, !.flowing = w, !.awaiting = a, !.listens = l]
    OBVIOUS
  <2>2. a \in BOOLEAN /\ l \in BOOLEAN /\ w \in BOOLEAN /\ b \in Seq(Entry)
    BY <1>3, <1>8
  <2> HIDE DEF a, l, b, w, r
  <2>3. r \in Streams /\ r.buf = b /\ r.pipes = n
    BY <1>1, <2>1, <2>2 DEF Streams
  <2> QED
    BY <2>3 DEF b
<1> HIDE DEF r
<1>10. /\ stream' \in [PullInputs -> Streams]
       /\ stream'[i] = r /\ \A j \in PullInputs : j # i => stream'[j] = stream[j]
  BY <1>7, <1>9 DEF GraphTypeOK
<1>11. \A j \in PullInputs : Len(stream'[j].buf) <= MaxPending
  <2> TAKE j \in PullInputs
  <2>1. CASE j = i
    <3>1. Len(stream[i].buf) <= MaxPending
      BY DEF GraphTypeOK
    <3>2. stream'[j].buf = Tail(stream[i].buf)
      BY <1>9, <1>10, <2>1
    <3> HIDE DEF n
    <3> QED
      BY <1>3, <3>1, <3>2, Limits
  <2>2. CASE j # i
    BY <1>10, <2>2 DEF GraphTypeOK
  <2> QED
    BY <2>1, <2>2
<1>12. UNCHANGED <<given, disk, hub, waiting, full, world, filter, work, marked, taken, paused, pauses, stopped>>
  BY DEF EmitPull, flowSide
<1>13. GraphTypeOK'
  <2>1. BypassTypeOK(hub)'
    BY <1>12 DEF GraphTypeOK, BypassTypeOK, FilterMAX
  <2>2. BypassTypeOK(bypass)'
    BY <1>6 DEF BypassTypeOK
  <2> QED
    BY <1>10, <1>11, <1>12, <2>1, <2>2 DEF GraphTypeOK, FilterMAX
<1> QED
  BY <1>1, <1>2, <1>4, <1>5, <1>9, <1>10, <1>13 DEF after, e

(* A source writes to inputStream.                                         *)
LEMMA WriteToHubType ==
  ASSUME GraphTypeOK, NEW s \in Sources, NEW e \in Entry, WriteToHub(s, e)
  PROVE  /\ BypassTypeOK(hub')
         /\ Cargo(hub') = Append(Cargo(hub), e)
         /\ waiting' \subseteq Sources
<1>1. Write(e) \in Chunk /\ Write(e).entry = e
  BY WriteType
<1>2. hub' = Pass(hub, Write(e)) /\ waiting' \subseteq Sources
  BY DEF WriteToHub, GraphTypeOK
<1>3. BypassTypeOK(hub)
  BY DEF GraphTypeOK
<1>4. /\ BypassTypeOK(Pass(hub, Write(e)))
      /\ Cargo(Pass(hub, Write(e))) = Append(Cargo(hub), Write(e).entry)
  BY <1>1, <1>3, CargoPass
<1> QED
  BY <1>1, <1>2, <1>4

LEMMA EmitBypassType ==
  ASSUME GraphTypeOK, EmitBypass
  PROVE  /\ GraphTypeOK'
         /\ Cargo(bypass) # <<>> /\ Head(Cargo(bypass)) \in Entry
         /\ Cargo(hub') = Append(Cargo(hub), Head(Cargo(bypass)))
         /\ Cargo(bypass') = Tail(Cargo(bypass))
<1> DEFINE e == Head(bypass.out)
<1>1. BypassTypeOK(bypass) /\ bypass.out # <<>> /\ bypass' = Read(bypass)
  BY DEF GraphTypeOK, EmitBypass
<1>2. /\ BypassTypeOK(bypass') /\ e \in Entry /\ Cargo(bypass) # <<>>
      /\ Head(Cargo(bypass)) = e /\ Cargo(bypass') = Tail(Cargo(bypass))
  BY <1>1, CargoRead
<1>3. WriteToHub("bypassStream", e) /\ "bypassStream" \in Sources
  BY DEF EmitBypass, Sources
<1> HIDE DEF e
<1>4. BypassTypeOK(hub') /\ Cargo(hub') = Append(Cargo(hub), e) /\ waiting' \subseteq Sources
  BY <1>2, <1>3, WriteToHubType
<1>5. UNCHANGED <<given, stream, disk, paused, pauses, stopped, full, world, filter, work, marked, taken>>
  BY DEF EmitBypass, inputSide, flowSide
<1>6. GraphTypeOK'
  <2>1. BypassTypeOK(hub)' /\ BypassTypeOK(bypass)'
    BY <1>2, <1>4 DEF BypassTypeOK
  <2> QED
    BY <1>4, <1>5, <2>1 DEF GraphTypeOK, FilterMAX
<1> QED
  BY <1>2, <1>4, <1>6

LEMMA EmitQueueType ==
  ASSUME GraphTypeOK, EmitQueue
  PROVE  /\ GraphTypeOK'
         /\ disk # <<>> /\ Head(disk) \in Entry
         /\ Cargo(hub') = Append(Cargo(hub), Head(disk))
         /\ disk' = Tail(disk)
<1> DEFINE e == Head(disk)
<1>1. disk \in Seq(Entry) /\ disk # <<>> /\ disk' = Tail(disk)
  BY DEF GraphTypeOK, EmitQueue
<1>2. e \in Entry /\ disk' \in Seq(Entry)
  BY <1>1
<1>3. WriteToHub("queueStream", e) /\ "queueStream" \in Sources
  BY DEF EmitQueue, Sources
<1> HIDE DEF e
<1>4. BypassTypeOK(hub') /\ Cargo(hub') = Append(Cargo(hub), e) /\ waiting' \subseteq Sources
  BY <1>2, <1>3, WriteToHubType
<1>5. UNCHANGED <<given, stream, bypass, paused, pauses, stopped, full, world, filter, work, marked, taken>>
  BY DEF EmitQueue, flowSide
<1>6. GraphTypeOK'
  <2>1. BypassTypeOK(hub)' /\ BypassTypeOK(bypass)'
    BY <1>4, <1>5 DEF BypassTypeOK, GraphTypeOK
  <2> QED
    BY <1>2, <1>4, <1>5, <2>1 DEF GraphTypeOK, FilterMAX
<1> QED
  BY <1>1, <1>2, <1>4, <1>6 DEF e

LEMMA EmitHubType ==
  ASSUME GraphTypeOK, EmitHub
  PROVE  /\ GraphTypeOK'
         /\ Cargo(hub) # <<>> /\ Head(Cargo(hub)) \in Entry
         /\ Cargo(hub') = Tail(Cargo(hub))
         /\ \A f \in Flows :
              /\ filter'[f].queue = filter[f].queue /\ filter'[f].passed = filter[f].passed
              /\ EntriesOf(filter'[f].writes)
                   = Append(EntriesOf(filter[f].writes), Head(Cargo(hub)))
<1> DEFINE e == Head(hub.out)
           c == Write(e)
<1>1. BypassTypeOK(hub) /\ hub.out # <<>> /\ hub' = Read(hub)
  BY DEF GraphTypeOK, EmitHub
<1>2. /\ BypassTypeOK(hub') /\ e \in Entry /\ Cargo(hub) # <<>>
      /\ Head(Cargo(hub)) = e /\ Cargo(hub') = Tail(Cargo(hub))
  BY <1>1, CargoRead
<1> HIDE DEF e
<1>3. c \in Chunk /\ c.entry = e
  BY <1>2, WriteType
<1>4. filter' = [f \in Flows |-> Enter(filter[f], c)] /\ full' \subseteq Flows
  BY DEF EmitHub, e
<1> HIDE DEF c
<1>5. \A f \in Flows :
        /\ filter'[f] \in Filters
        /\ filter'[f].writes = Append(filter[f].writes, c)
        /\ filter'[f].queue = filter[f].queue /\ filter'[f].passed = filter[f].passed
  <2> TAKE f \in Flows
  <2>1. filter[f] \in Filters /\ filter'[f] = Enter(filter[f], c)
    BY <1>4 DEF GraphTypeOK
  <2> QED
    BY <1>3, <2>1, EnterFacts
<1>6. filter' \in [Flows -> Filters]
  BY <1>4, <1>5
<1>7. /\ work' \in [Flows -> SUBSET Entry]
      /\ \A f \in Flows : \A d, h \in work'[f] : d = h
  <2>1. Ack(ReadAcks(hub))
    BY DEF EmitHub
  <2> QED
    BY <2>1, AckType DEF GraphTypeOK
<1>8. UNCHANGED <<given, stream, disk, bypass, paused, pauses, stopped, waiting, world, marked, taken>>
  BY DEF EmitHub, inputSide
<1>9. GraphTypeOK'
  <2>1. BypassTypeOK(hub)' /\ BypassTypeOK(bypass)'
    BY <1>2, <1>8 DEF BypassTypeOK, GraphTypeOK
  <2>2. \A f \in Flows : Len(filter'[f].queue) <= FilterMAX
    BY <1>5 DEF GraphTypeOK, FilterMAX
  <2> QED
    BY <1>4, <1>6, <1>7, <1>8, <2>1, <2>2 DEF GraphTypeOK, FilterMAX
<1>10. \A f \in Flows :
         EntriesOf(filter'[f].writes) = Append(EntriesOf(filter[f].writes), e)
  <2> TAKE f \in Flows
  <2>1. filter[f].writes \in Seq(Chunk)
    BY FilterFields DEF GraphTypeOK
  <2>2. EntriesOf(Append(filter[f].writes, c)) = Append(EntriesOf(filter[f].writes), c.entry)
    BY <1>3, <2>1, EntriesAppend
  <2> QED
    BY <1>3, <1>5, <2>2
<1> QED
  BY <1>2, <1>5, <1>9, <1>10

LEMMA DrainedFacts ==
  ASSUME NEW s, BypassTypeOK(s)
  PROVE  BypassTypeOK(Drained(s)) /\ Cargo(Drained(s)) = Cargo(s)
<1> DEFINE t == Drained(s)
<1>1. s \in Bypasses /\ t = [s EXCEPT !.needDrain = FALSE]
  BY DEF BypassTypeOK, Drained
<1> HIDE DEF t
<1>2. t \in Bypasses /\ t.out = s.out /\ t.writes = s.writes
  BY <1>1 DEF Bypasses
<1>3. BypassTypeOK(t)
  BY <1>2 DEF BypassTypeOK
<1>4. Untransformed(t) = Untransformed(s)
  BY <1>2 DEF Untransformed
<1>5. Cargo(t) = Cargo(s)
  BY <1>2, <1>4 DEF Cargo
<1> QED
  BY <1>3, <1>5 DEF t

LEMMA DrainBypassType ==
  ASSUME GraphTypeOK, DrainBypass
  PROVE  /\ GraphTypeOK'
         /\ Cargo(bypass') = Cargo(bypass)
         /\ \A i \in PullInputs :
              /\ stream'[i].buf = stream[i].buf /\ stream'[i].pipes = stream[i].pipes
              /\ stream'[i].listens = stream[i].listens
              /\ stream'[i].flowing => stream[i].flowing \/ stream[i].listens
<1>1. BypassTypeOK(bypass) /\ bypass' = Drained(bypass)
  BY DEF GraphTypeOK, DrainBypass
<1>3. BypassTypeOK(bypass') /\ Cargo(bypass') = Cargo(bypass)
  BY <1>1, DrainedFacts
<1>4. stream' = [i \in PullInputs |->
        IF stream[i].listens
          THEN [stream[i] EXCEPT !.flowing = TRUE, !.awaiting = FALSE]
          ELSE stream[i]]
  BY DEF DrainBypass
<1>5. \A i \in PullInputs :
        /\ stream'[i] \in Streams
        /\ stream'[i].buf = stream[i].buf /\ stream'[i].pipes = stream[i].pipes
        /\ stream'[i].listens = stream[i].listens
        /\ stream'[i].flowing => stream[i].flowing \/ stream[i].listens
  <2> TAKE i \in PullInputs
  <2>1. stream[i] \in Streams
    BY DEF GraphTypeOK
  <2>2. CASE stream[i].listens
    <3>1. stream'[i] = [stream[i] EXCEPT !.flowing = TRUE, !.awaiting = FALSE]
      BY <1>4, <2>2
    <3> QED
      BY <2>1, <2>2, <3>1 DEF Streams
  <2>3. CASE ~stream[i].listens
    BY <1>4, <2>1, <2>3
  <2> QED
    BY <2>2, <2>3
<1>6. stream' \in [PullInputs -> Streams]
  BY <1>4, <1>5
<1>7. UNCHANGED <<given, disk, hub, waiting, full, world, filter, work, marked, taken, paused, pauses, stopped>>
  BY DEF DrainBypass, flowSide
<1>8. GraphTypeOK'
  <2>1. BypassTypeOK(hub)' /\ BypassTypeOK(bypass)'
    BY <1>3, <1>7 DEF BypassTypeOK, GraphTypeOK
  <2> QED
    BY <1>5, <1>6, <1>7, <2>1 DEF GraphTypeOK, FilterMAX
<1> QED
  BY <1>3, <1>5, <1>8

LEMMA DrainHubType ==
  ASSUME GraphTypeOK, DrainHub
  PROVE  GraphTypeOK' /\ Cargo(hub') = Cargo(hub)
<1>1. BypassTypeOK(hub) /\ hub' = Drained(hub) /\ waiting' = {}
  BY DEF GraphTypeOK, DrainHub
<1>3. BypassTypeOK(hub') /\ Cargo(hub') = Cargo(hub)
  BY <1>1, DrainedFacts
<1>4. UNCHANGED <<given, stream, disk, bypass, full, world, filter, work, marked, taken, paused, pauses, stopped>>
  BY DEF DrainHub, flowSide, inputSide
<1>5. GraphTypeOK'
  <2>1. BypassTypeOK(hub)' /\ BypassTypeOK(bypass)'
    BY <1>3, <1>4 DEF BypassTypeOK, GraphTypeOK
  <2> QED
    BY <1>1, <1>4, <2>1 DEF GraphTypeOK, FilterMAX
<1> QED
  BY <1>3, <1>5

LEMMA DrainFilterType ==
  ASSUME GraphTypeOK, NEW f \in Flows, DrainFilter(f)
  PROVE  /\ GraphTypeOK'
         /\ \A g \in Flows : /\ filter'[g].writes = filter[g].writes
                             /\ filter'[g].passed = filter[g].passed
                             /\ filter'[g].queue = filter[g].queue
<1> DEFINE r == [filter[f] EXCEPT !.needDrain = FALSE]
<1>1. filter' = [filter EXCEPT ![f] = r] /\ full' \subseteq Flows
  BY DEF DrainFilter, Drained, GraphTypeOK
<1>2. /\ r \in Filters /\ r.writes = filter[f].writes
      /\ r.passed = filter[f].passed /\ r.queue = filter[f].queue
  <2>1. filter[f] \in Filters
    BY DEF GraphTypeOK
  <2> QED
    BY <2>1 DEF Filters
<1> HIDE DEF r
<1>3. /\ filter' \in [Flows -> Filters]
      /\ \A g \in Flows : /\ filter'[g].writes = filter[g].writes
                          /\ filter'[g].passed = filter[g].passed
                          /\ filter'[g].queue = filter[g].queue
  BY <1>1, <1>2 DEF GraphTypeOK
<1>4. UNCHANGED <<given, stream, disk, bypass, hub, waiting, world, work, marked, taken, paused, pauses, stopped>>
  BY DEF DrainFilter, inputSide
<1>5. GraphTypeOK'
  <2>1. BypassTypeOK(hub)' /\ BypassTypeOK(bypass)'
    BY <1>4 DEF BypassTypeOK, GraphTypeOK
  <2> QED
    BY <1>1, <1>3, <1>4, <2>1 DEF GraphTypeOK, FilterMAX
<1> QED
  BY <1>3, <1>5

(* An entry of an input that awaits room is one its flow selects; one that *)
(* its flow selects and does not let in is one the flow is shut out of.    *)
LEMMA RawMatches ==
  ASSUME NEW f \in Flows, NEW i \in Inputs, NEW e, IsRaw(e, i), e.n \in Nat
  PROVE  /\ Selects(f, e) <=> i \in From[f]
         /\ Selects(f, e) /\ ~Matches(f, e) => e.n \in ShutOut(f, i)
<1>1. ToNone \notin Flows
  BY KindsAssumption
<1>2. e.input = i /\ e.to = ToNone
  BY DEF IsRaw
<1> HIDE DEF ToNone
<1>3. Selects(f, e) <=> i \in From[f]
  BY <1>1, <1>2 DEF Selects
<1>4. ASSUME Reemit(e) \notin world.when[f]
      PROVE  e.n \in ShutOut(f, i)
  <2>1. Reemit(e) = IF Raw(i, e.n) \in marked THEN ToInputs ELSE ToNone
    BY <1>1, <1>2 DEF Reemit
  <2> QED
    BY <1>4, <2>1 DEF ShutOut
<1> QED
  BY <1>3, <1>4 DEF Matches

(* The first write ends, queued or dropped, or it awaits room.             *)
LEMMA FilterWriteType ==
  ASSUME GraphTypeOK, NEW f \in Flows, FilterWrite(f)
  PROVE  /\ GraphTypeOK'
         /\ EntriesOf(filter[f].writes) # <<>> /\ Head(EntriesOf(filter[f].writes)) \in Entry
         /\ Lets(f) <=> filter[f].passed \/ Matches(f, Head(EntriesOf(filter[f].writes)))
         /\ \A g \in Flows : g # f => filter'[g] = filter[g]
         /\ \/ /\ EntriesOf(filter'[f].writes) = Tail(EntriesOf(filter[f].writes))
               /\ ~filter'[f].passed
               /\ filter'[f].queue =
                    IF Lets(f) THEN Append(filter[f].queue, Head(EntriesOf(filter[f].writes)))
                               ELSE filter[f].queue
            \/ /\ Lets(f)
               /\ filter'[f].writes = filter[f].writes /\ filter'[f].queue = filter[f].queue
<1> DEFINE s == filter[f]
           c == Head(s.writes)
           q == IF Lets(f) THEN Append(s.queue, c.entry) ELSE s.queue
           w == Tail(s.writes)
           r == [s EXCEPT !.writes = w, !.passed = FALSE, !.queue = q]
           p == [s EXCEPT !.passed = TRUE]
<1>1. /\ s \in Filters /\ s.writes \in Seq(Chunk) /\ s.queue \in Seq(Entry) /\ s.writes # <<>>
      /\ s.passed \in BOOLEAN
  <2>1. s \in Filters
    BY DEF GraphTypeOK
  <2>2. MayWrite(f)
    BY DEF FilterWrite
  <2> QED
    BY <2>1, <2>2, FilterFields DEF MayWrite
<1>2. \/ /\ filter' = [filter EXCEPT ![f] = r] /\ Ack(c.by)
         /\ Lets(f) => Len(s.queue) < FilterMAX
      \/ filter' = [filter EXCEPT ![f] = p] /\ work' = work /\ Lets(f)
  BY DEF FilterWrite, EndWrite, HasPlace
<1>3. /\ EntriesOf(s.writes) # <<>> /\ Head(EntriesOf(s.writes)) = c.entry
      /\ EntriesOf(w) = Tail(EntriesOf(s.writes))
      /\ c \in Chunk /\ c.entry \in Entry /\ w \in Seq(Chunk)
  BY <1>1, EntriesTail
<1>4. /\ q \in Seq(Entry)
      /\ (Lets(f) => Len(s.queue) < FilterMAX) => Len(q) <= FilterMAX
      /\ Len(s.queue) <= FilterMAX
  <2>1. Append(s.queue, c.entry) \in Seq(Entry) /\ Len(Append(s.queue, c.entry)) = Len(s.queue) + 1
        /\ Len(s.queue) \in Nat
    BY <1>1, <1>3, AppendProperties
  <2>2. Len(s.queue) <= FilterMAX /\ FilterMAX \in Nat
    BY RoomType DEF GraphTypeOK
  <2> HIDE DEF s, c
  <2> QED
    BY <1>1, <2>1, <2>2
<1>L. Lets(f) <=> s.passed \/ Matches(f, c.entry)
  BY DEF Lets
<1> HIDE DEF c, q, w
<1>5. /\ r \in Filters /\ r.writes = w /\ r.queue = q /\ ~r.passed
      /\ p \in Filters /\ p.writes = s.writes /\ p.queue = s.queue
  BY <1>1, <1>3, <1>4 DEF Filters
<1> HIDE DEF r, p
<1>6. /\ filter' \in [Flows -> Filters]
      /\ \A g \in Flows : g # f => filter'[g] = filter[g]
      /\ \/ filter'[f] = r /\ Ack(c.by) /\ (Lets(f) => Len(s.queue) < FilterMAX)
         \/ filter'[f] = p /\ work' = work /\ Lets(f)
  BY <1>2, <1>5 DEF GraphTypeOK
<1>7. /\ work' \in [Flows -> SUBSET Entry]
      /\ \A g \in Flows : \A d, h \in work'[g] : d = h
  <2>1. Ack(c.by) \/ work' = work
    BY <1>6
  <2> QED
    BY <2>1, AckType DEF GraphTypeOK
<1>8. UNCHANGED <<given, stream, disk, bypass, hub, waiting, full, world, marked, taken, paused, pauses, stopped>>
  BY DEF FilterWrite, inputSide
<1>9. GraphTypeOK'
  <2>1. BypassTypeOK(hub)' /\ BypassTypeOK(bypass)'
    BY <1>8 DEF BypassTypeOK, GraphTypeOK
  <2>2. \A g \in Flows : Len(filter'[g].queue) <= FilterMAX
    <3> TAKE g \in Flows
    <3>1. CASE g = f
      BY <1>4, <1>5, <1>6, <3>1
    <3>2. CASE g # f
      BY <1>6, <3>2 DEF GraphTypeOK
    <3> QED
      BY <3>1, <3>2
  <2> QED
    BY <1>6, <1>7, <1>8, <2>1, <2>2 DEF GraphTypeOK, FilterMAX
<1> QED
  BY <1>3, <1>5, <1>6, <1>9, <1>L DEF q

(* What a flow takes is the head of its queue; what its transporter        *)
(* reemits carries a $$reemit, and goes to inputStream or to one flow.     *)
LEMMA TakeNextType ==
  ASSUME GraphTypeOK, NEW f \in Flows, TakeNext(f)
  PROVE  /\ GraphTypeOK'
         /\ filter[f].queue # <<>> /\ Head(filter[f].queue) \in Entry
         /\ taken'[f] = Append(taken[f], Head(filter[f].queue))
         /\ filter'[f].queue = Tail(filter[f].queue)
         /\ \A g \in Flows : g # f => taken'[g] = taken[g] /\ filter'[g].queue = filter[g].queue
         /\ \A g \in Flows : filter'[g].passed = filter[g].passed
         /\ marked \subseteq marked'
         /\ \E x \in Entry :
              /\ x.to # ToNone
              /\ Cargo(hub') = Cargo(hub) \/ Cargo(hub') = Append(Cargo(hub), x)
              /\ \A g \in Flows :
                   \/ EntriesOf(filter'[g].writes) = EntriesOf(filter[g].writes)
                   \/ EntriesOf(filter'[g].writes) = Append(EntriesOf(filter[g].writes), x)
<1> DEFINE s == filter[f]
           e == Head(s.queue)
           to == ReemitTo(f, e)
           x == [e EXCEPT !.to = to]
           c == [entry |-> x, by |-> {f}]
           q == Tail(s.queue)
           r == [s EXCEPT !.queue = q]
           rest == [filter EXCEPT ![f] = r]
<1>1. s \in Filters /\ s.writes \in Seq(Chunk) /\ s.queue \in Seq(Entry) /\ s.queue # <<>>
  BY FilterFields DEF GraphTypeOK, TakeNext
<1>2. e \in Entry /\ q \in Seq(Entry) /\ Len(q) <= Len(s.queue) /\ Len(s.queue) \in Nat /\ Len(q) \in Nat
  BY <1>1
<1>3. to \in Targets
  <2>1. e.to \in Targets
    BY <1>2 DEF Entry
  <2>2. world.route \in [Flows -> Targets]
    BY WorldType DEF GraphTypeOK
  <2> HIDE DEF e
  <2> QED
    BY <2>1, <2>2 DEF ReemitTo
<1>4. /\ taken' = [taken EXCEPT ![f] = Append(taken[f], e)]
      /\ \/ to = ToNone /\ filter' = rest /\ UNCHANGED <<hub, work, marked>>
         \/ /\ to = ToInputs /\ filter' = rest /\ hub' = Pass(hub, c)
            /\ work' = IF Holds(hub) THEN [work EXCEPT ![f] = {x}] ELSE work
            /\ marked' = marked \cup {Raw(e.input, e.n)}
         \/ /\ to \in Flows /\ filter' = [rest EXCEPT ![to] = Enter(rest[to], c)]
            /\ work' = [work EXCEPT ![f] = {x}] /\ UNCHANGED <<hub, marked>>
  BY DEF TakeNext
<1>5. UNCHANGED <<given, stream, disk, bypass, waiting, full, world, paused, pauses, stopped>>
  BY DEF TakeNext, inputSide
<1>M. marked' \subseteq Entry /\ marked \subseteq marked'
  <2>1. e.input \in Inputs /\ e.n \in Nat \ {0}
    BY <1>2 DEF Entry
  <2>2. ToNone \in Targets
    BY DEF Targets
  <2> HIDE DEF e, to
  <2>3. Raw(e.input, e.n) \in Entry
    BY <2>1, <2>2 DEF Raw, Entry
  <2>4. marked \subseteq Entry
    BY DEF GraphTypeOK
  <2> QED
    BY <1>4, <2>3, <2>4
<1> HIDE DEF e, to
<1>6. x \in Entry /\ x.to = to /\ c \in Chunk /\ c.entry = x
  <2>1. x \in Entry /\ x.to = to
    BY <1>2, <1>3 DEF Entry
  <2> HIDE DEF x
  <2> QED
    BY <2>1 DEF Chunk
<1> HIDE DEF x, c, q
<1>7. r \in Filters /\ r.queue = q /\ r.writes = s.writes /\ r.passed = s.passed
  BY <1>1, <1>2 DEF Filters
<1> HIDE DEF r
<1>8. /\ rest \in [Flows -> Filters] /\ rest[f] = r
      /\ \A g \in Flows : g # f => rest[g] = filter[g]
  BY <1>7 DEF GraphTypeOK
<1> HIDE DEF rest
<1>9. \A g \in Flows : /\ rest[g].writes = filter[g].writes /\ rest[g].passed = filter[g].passed
                       /\ g # f => rest[g].queue = filter[g].queue
  BY <1>7, <1>8
<1>10. /\ taken' \in [Flows -> Seq(Entry)] /\ taken'[f] = Append(taken[f], e)
       /\ \A g \in Flows : g # f => taken'[g] = taken[g]
  <2>1. Append(taken[f], e) \in Seq(Entry)
    BY <1>2, AppendProperties DEF GraphTypeOK
  <2> QED
    BY <1>4, <2>1 DEF GraphTypeOK
<1>11. /\ work' \in [Flows -> SUBSET Entry]
       /\ \A g \in Flows : \A d, h \in work'[g] : d = h
  <2>1. work' = work \/ work' = [work EXCEPT ![f] = {x}]
    BY <1>4
  <2>2. work \in [Flows -> SUBSET Entry] /\ \A g \in Flows : \A d, h \in work[g] : d = h
    BY DEF GraphTypeOK
  <2>3. CASE work' = work
    BY <2>2, <2>3
  <2>4. CASE work' = [work EXCEPT ![f] = {x}]
    <3>1. {x} \in SUBSET Entry
      BY <1>6
    <3>2. work' \in [Flows -> SUBSET Entry]
      BY <2>2, <2>4, <3>1
    <3>3. work'[f] = {x} /\ \A g \in Flows : g # f => work'[g] = work[g]
      BY <2>2, <2>4
    <3> QED
      BY <2>2, <3>2, <3>3
  <2> QED
    BY <2>1, <2>3, <2>4
<1>12. BypassTypeOK(hub') /\ (Cargo(hub') = Cargo(hub) \/ (Cargo(hub') = Append(Cargo(hub), x) /\ to = ToInputs))
  <2>1. BypassTypeOK(hub)
    BY DEF GraphTypeOK
  <2>2. hub' = hub \/ (hub' = Pass(hub, c) /\ to = ToInputs)
    BY <1>4
  <2> QED
    BY <1>6, <2>1, <2>2, CargoPass
<1>13. \/ filter' = rest
       \/ to \in Flows /\ filter' = [rest EXCEPT ![to] = Enter(rest[to], c)]
  BY <1>4
<1>14. \A g \in Flows : /\ filter'[g] \in Filters
                        /\ filter'[g].queue = rest[g].queue /\ filter'[g].passed = rest[g].passed
                        /\ \/ filter'[g].writes = filter[g].writes
                           \/ filter'[g].writes = Append(filter[g].writes, c) /\ to \in Flows
  <2> TAKE g \in Flows
  <2>1. CASE filter' = rest
    BY <1>8, <1>9, <2>1
  <2>2. CASE to \in Flows /\ filter' = [rest EXCEPT ![to] = Enter(rest[to], c)]
    <3>1. CASE g = to
      <4>1. filter'[g] = Enter(rest[g], c) /\ rest[g] \in Filters
        BY <1>8, <2>2, <3>1
      <4>2. /\ Enter(rest[g], c) \in Filters
            /\ Enter(rest[g], c).writes = Append(rest[g].writes, c)
            /\ Enter(rest[g], c).queue = rest[g].queue /\ Enter(rest[g], c).passed = rest[g].passed
        BY <1>6, <4>1, EnterFacts
      <4> QED
        BY <1>9, <2>2, <4>1, <4>2
    <3>2. CASE g # to
      BY <1>8, <1>9, <2>2, <3>2
    <3> QED
      BY <3>1, <3>2
  <2> QED
    BY <1>13, <2>1, <2>2
<1>15. filter' \in [Flows -> Filters]
  <2>1. DOMAIN filter' = Flows /\ filter' = [g \in Flows |-> filter'[g]]
    BY <1>8, <1>13
  <2> QED
    BY <1>14, <2>1
<1>16. \A g \in Flows : Len(filter'[g].queue) <= FilterMAX
  <2> TAKE g \in Flows
  <2>1. Len(filter[g].queue) <= FilterMAX
    BY DEF GraphTypeOK
  <2>2. CASE g = f
    <3>1. filter'[g].queue = q
      BY <1>7, <1>8, <1>14, <2>2
    <3> QED
      BY <1>2, <2>1, <2>2, <3>1, RoomType
  <2>3. CASE g # f
    BY <1>9, <1>14, <2>1, <2>3
  <2> QED
    BY <2>2, <2>3
<1>17. GraphTypeOK'
  <2>1. BypassTypeOK(hub)' /\ BypassTypeOK(bypass)'
    BY <1>5, <1>12 DEF BypassTypeOK, GraphTypeOK
  <2> QED
    BY <1>5, <1>10, <1>11, <1>15, <1>16, <1>M, <2>1 DEF GraphTypeOK, FilterMAX
<1>18. /\ filter'[f].queue = q /\ \A g \in Flows : g # f => filter'[g].queue = filter[g].queue
       /\ \A g \in Flows : filter'[g].passed = filter[g].passed
  BY <1>7, <1>8, <1>9, <1>14
<1>19. \A g \in Flows :
         \/ EntriesOf(filter'[g].writes) = EntriesOf(filter[g].writes)
         \/ EntriesOf(filter'[g].writes) = Append(EntriesOf(filter[g].writes), x) /\ to \in Flows
  <2> TAKE g \in Flows
  <2>1. filter[g].writes \in Seq(Chunk)
    BY FilterFields DEF GraphTypeOK
  <2>2. EntriesOf(Append(filter[g].writes, c)) = Append(EntriesOf(filter[g].writes), x)
    BY <1>6, <2>1, EntriesAppend
  <2> QED
    BY <1>14, <2>2
<1>20. \E y \in Entry :
         /\ y.to # ToNone
         /\ Cargo(hub') = Cargo(hub) \/ Cargo(hub') = Append(Cargo(hub), y)
         /\ \A g \in Flows :
              \/ EntriesOf(filter'[g].writes) = EntriesOf(filter[g].writes)
              \/ EntriesOf(filter'[g].writes) = Append(EntriesOf(filter[g].writes), y)
  <2>1. ToNone # ToInputs /\ ToNone \notin Flows /\ ToInputs \in Targets
    BY KindsAssumption DEF ToNone, ToInputs, Targets
  <2>2. CASE to # ToNone
    BY <1>6, <1>12, <1>19, <2>2
  <2>3. CASE to = ToNone
    <3>1. /\ Cargo(hub') = Cargo(hub)
          /\ \A g \in Flows : EntriesOf(filter'[g].writes) = EntriesOf(filter[g].writes)
      BY <1>12, <1>19, <2>1, <2>3
    <3> DEFINE y == [x EXCEPT !.to = ToInputs]
    <3>2. y \in Entry /\ y.to # ToNone
      <4> HIDE DEF ToNone, ToInputs, Targets
      <4> QED
        BY <1>6, <2>1 DEF Entry
    <3> HIDE DEF y
    <3> QED
      BY <3>1, <3>2
  <2> QED
    BY <2>2, <2>3
<1> QED
  BY <1>1, <1>2, <1>10, <1>17, <1>18, <1>20, <1>M DEF e, q

(* pause(), resume() and stop() leave what the streams have read.          *)
LEMMA PauseType ==
  ASSUME GraphTypeOK, Pause
  PROVE  /\ GraphTypeOK'
         /\ \A i \in PullInputs : /\ stream'[i].buf = stream[i].buf
                                  /\ stream'[i].pipes = stream[i].pipes
<1>1. stream' = [i \in PullInputs |-> [stream[i] EXCEPT !.flowing = FALSE]]
  BY DEF Pause
<1>2. \A i \in PullInputs :
        /\ stream'[i] \in Streams
        /\ stream'[i].buf = stream[i].buf /\ stream'[i].pipes = stream[i].pipes
  <2> TAKE i \in PullInputs
  <2>1. stream'[i] = [stream[i] EXCEPT !.flowing = FALSE] /\ stream[i] \in Streams
    BY <1>1 DEF GraphTypeOK
  <2> QED
    BY <2>1 DEF Streams
<1>3. stream' \in [PullInputs -> Streams]
  BY <1>1, <1>2
<1>4. /\ UNCHANGED <<given, disk, bypass, hub, waiting, full, world, filter, work, marked, taken, stopped>>
      /\ paused' = TRUE /\ pauses' = pauses + 1 /\ pauses < world.pauses
  BY DEF Pause, flowSide
<1>5. pauses' \in 0..MaxPauses
  <2>1. world.pauses \in 0..MaxPauses /\ pauses \in 0..MaxPauses
    BY WorldType DEF GraphTypeOK
  <2> QED
    BY <1>4, <2>1, BoundsAssumption
<1>6. GraphTypeOK'
  <2>1. BypassTypeOK(hub)' /\ BypassTypeOK(bypass)'
    BY <1>4 DEF BypassTypeOK, GraphTypeOK
  <2>2. \A i \in PullInputs : Len(stream'[i].buf) <= MaxPending
    BY <1>2 DEF GraphTypeOK, FilterMAX
  <2> QED
    BY <1>3, <1>4, <1>5, <2>1, <2>2 DEF GraphTypeOK, FilterMAX
<1> QED
  BY <1>2, <1>6

LEMMA ResumeType ==
  ASSUME GraphTypeOK, Resume
  PROVE  /\ GraphTypeOK'
         /\ \A i \in PullInputs : /\ stream'[i].buf = stream[i].buf
                                  /\ stream'[i].pipes = stream[i].pipes + 1
<1>1. stream' = [i \in PullInputs |-> [stream[i] EXCEPT
        !.pipes = stream[i].pipes + 1,
        !.flowing = ~bypass.needDrain,
        !.awaiting = bypass.needDrain,
        !.listens = stream[i].listens \/ bypass.needDrain]]
  BY DEF Resume
<1>2. \A i \in PullInputs :
        /\ stream'[i] \in Streams
        /\ stream'[i].buf = stream[i].buf /\ stream'[i].pipes = stream[i].pipes + 1
  <2> TAKE i \in PullInputs
  <2> DEFINE p == stream[i].pipes + 1
             d == bypass.needDrain
             w == ~bypass.needDrain
             l == stream[i].listens \/ bypass.needDrain
  <2>1. stream'[i] = [stream[i] EXCEPT !.pipes = p, !.flowing = w, !.awaiting = d, !.listens = l]
    BY <1>1
  <2>2. stream[i] \in Streams
    BY DEF GraphTypeOK
  <2>3. p \in Nat /\ d \in BOOLEAN /\ w \in BOOLEAN /\ l \in BOOLEAN
    BY <2>2, StreamFields DEF GraphTypeOK, BypassTypeOK, Bypasses
  <2> HIDE DEF p, d, w, l
  <2>4. stream'[i] \in Streams /\ stream'[i].buf = stream[i].buf /\ stream'[i].pipes = p
    BY <2>1, <2>2, <2>3 DEF Streams
  <2> QED
    BY <2>4 DEF p
<1>3. stream' \in [PullInputs -> Streams]
  BY <1>1, <1>2
<1>4. /\ UNCHANGED <<given, disk, bypass, hub, waiting, full, world, filter, work, marked, taken, stopped, pauses>>
      /\ paused' = FALSE
  BY DEF Resume, flowSide
<1>5. GraphTypeOK'
  <2>1. BypassTypeOK(hub)' /\ BypassTypeOK(bypass)'
    BY <1>4 DEF BypassTypeOK, GraphTypeOK
  <2>2. \A i \in PullInputs : Len(stream'[i].buf) <= MaxPending
    BY <1>2 DEF GraphTypeOK, FilterMAX
  <2> QED
    BY <1>3, <1>4, <2>1, <2>2 DEF GraphTypeOK, FilterMAX
<1> QED
  BY <1>2, <1>5

LEMMA StopType ==
  ASSUME GraphTypeOK, Stop
  PROVE  /\ GraphTypeOK'
         /\ \A i \in PullInputs : /\ stream'[i].buf = stream[i].buf
                                  /\ stream'[i].pipes = 0
                                  /\ ~stream'[i].flowing /\ ~stream'[i].listens
<1>1. stream' = [i \in PullInputs |-> [stream[i] EXCEPT
        !.pipes = 0, !.flowing = FALSE, !.awaiting = FALSE, !.listens = FALSE]]
  BY DEF Stop
<1>2. \A i \in PullInputs :
        /\ stream'[i] \in Streams
        /\ stream'[i].buf = stream[i].buf /\ stream'[i].pipes = 0
        /\ ~stream'[i].flowing /\ ~stream'[i].listens
  <2> TAKE i \in PullInputs
  <2> DEFINE p == 0
             no == FALSE
  <2>1. stream'[i] = [stream[i] EXCEPT
          !.pipes = p, !.flowing = no, !.awaiting = no, !.listens = no]
    BY <1>1
  <2>2. stream[i] \in Streams
    BY DEF GraphTypeOK
  <2>3. p \in Nat /\ no \in BOOLEAN
    OBVIOUS
  <2> HIDE DEF p, no
  <2>4. /\ stream'[i] \in Streams /\ stream'[i].buf = stream[i].buf /\ stream'[i].pipes = p
        /\ stream'[i].flowing = no /\ stream'[i].listens = no
    BY <2>1, <2>2, <2>3 DEF Streams
  <2> QED
    BY <2>4 DEF p, no
<1>3. stream' \in [PullInputs -> Streams]
  BY <1>1, <1>2
<1>4. /\ UNCHANGED <<given, disk, bypass, hub, waiting, full, world, filter, work, marked, taken, paused, pauses>>
      /\ stopped' = TRUE
  BY DEF Stop, flowSide
<1>5. GraphTypeOK'
  <2>1. BypassTypeOK(hub)' /\ BypassTypeOK(bypass)'
    BY <1>4 DEF BypassTypeOK, GraphTypeOK
  <2>2. \A i \in PullInputs : Len(stream'[i].buf) <= MaxPending
    BY <1>2 DEF GraphTypeOK, FilterMAX
  <2> QED
    BY <1>3, <1>4, <2>1, <2>2 DEF GraphTypeOK, FilterMAX
<1> QED
  BY <1>2, <1>5

LEMMA CloseQueueType ==
  ASSUME GraphTypeOK, CloseQueue
  PROVE  /\ GraphTypeOK'
         /\ \E k \in 0..Len(disk) : disk' = SubSeq(disk, 1, k)
<1>1. disk \in Seq(Entry) /\ Len(disk) \in Nat
  BY DEF GraphTypeOK
<1>2. PICK k \in 0..Len(disk) - 1 : disk' = SubSeq(disk, 1, k)
  BY DEF CloseQueue
<1>3. k \in 0..Len(disk)
  BY <1>1, <1>2
<1>4. disk' \in Seq(Entry)
  BY <1>1, <1>2, <1>3
<1>5. UNCHANGED <<given, stream, bypass, hub, waiting, full, world, filter, work, marked, taken, paused, pauses, stopped>>
  BY DEF CloseQueue, flowSide
<1>6. GraphTypeOK'
  <2>1. BypassTypeOK(hub)' /\ BypassTypeOK(bypass)'
    BY <1>5 DEF BypassTypeOK, GraphTypeOK
  <2> QED
    BY <1>4, <1>5, <2>1 DEF GraphTypeOK, FilterMAX
<1> QED
  BY <1>2, <1>3, <1>6

(***************************************************************************)
(* Pipes and sources.                                                      *)
(***************************************************************************)

LEMMA PipesKept ==
  ASSUME PipesInPlace, UNCHANGED <<paused, pauses, stopped>>,
         \A i \in PullInputs :
           /\ stream'[i].pipes = stream[i].pipes
           /\ stopped => ~stream'[i].flowing /\ ~stream'[i].listens
  PROVE  PipesInPlace'
  BY DEF PipesInPlace

LEMMA StreamsKeepPipes ==
  ASSUME PipesInPlace, UNCHANGED <<stream, paused, pauses, stopped>>
  PROVE  PipesInPlace'
  BY DEF PipesInPlace

LEMMA PipesInvariant ==
  ASSUME GraphTypeOK, PipesInPlace, GraphNext
  PROVE  PipesInPlace'
<1>1. ASSUME NEW i \in PullInputs, Answer(i) PROVE PipesInPlace'
  <2>1. /\ stream'[i] = [stream[i] EXCEPT !.buf = Append(stream[i].buf, NextEntry(i))]
        /\ \A j \in PullInputs : j # i => stream'[j] = stream[j]
    BY <1>1, AnswerType
  <2>2. stream[i] \in Streams
    BY DEF GraphTypeOK
  <2>3. /\ stream'[i].pipes = stream[i].pipes /\ stream'[i].flowing = stream[i].flowing
        /\ stream'[i].listens = stream[i].listens
    BY <2>1, <2>2 DEF Streams
  <2>4. UNCHANGED <<paused, pauses, stopped>>
    BY <1>1 DEF Answer
  <2>5. \A j \in PullInputs :
          /\ stream'[j].pipes = stream[j].pipes
          /\ stopped => ~stream'[j].flowing /\ ~stream'[j].listens
    BY <2>1, <2>3 DEF PipesInPlace
  <2> QED
    BY <2>4, <2>5, PipesKept
<1>2. ASSUME NEW i \in PullInputs, EmitPull(i) PROVE PipesInPlace'
  <2>1. /\ stream'[i].pipes = stream[i].pipes /\ ~stopped
        /\ \A j \in PullInputs : j # i => stream'[j] = stream[j]
    BY <1>2, EmitPullType
  <2>2. UNCHANGED <<paused, pauses, stopped>>
    BY <1>2 DEF EmitPull
  <2>3. \A j \in PullInputs :
          /\ stream'[j].pipes = stream[j].pipes
          /\ stopped => ~stream'[j].flowing /\ ~stream'[j].listens
    BY <2>1
  <2> QED
    BY <2>2, <2>3, PipesKept
<1>3. CASE Pause
  <2>1. \A i \in PullInputs : stream'[i].pipes = stream[i].pipes /\ stream[i].pipes \in Nat
    BY <1>3, PauseType, StreamFields DEF GraphTypeOK
  <2>2. ~paused /\ ~stopped /\ paused' = TRUE /\ pauses' = pauses + 1 /\ stopped' = stopped
    BY <1>3 DEF Pause
  <2> QED
    BY <2>1, <2>2 DEF PipesInPlace
<1>4. CASE Resume
  <2>1. \A i \in PullInputs : stream'[i].pipes = stream[i].pipes + 1 /\ stream[i].pipes \in Nat
    BY <1>4, ResumeType, StreamFields DEF GraphTypeOK
  <2>2. paused /\ ~stopped /\ paused' = FALSE /\ pauses' = pauses /\ stopped' = stopped
    BY <1>4 DEF Resume
  <2>3. pauses \in Nat
    BY BoundsAssumption DEF GraphTypeOK
  <2> QED
    BY <2>1, <2>2, <2>3 DEF PipesInPlace
<1>5. CASE Stop
  <2>1. \A i \in PullInputs :
          stream'[i].pipes = 0 /\ ~stream'[i].flowing /\ ~stream'[i].listens
    BY <1>5, StopType
  <2>2. stopped' = TRUE /\ UNCHANGED <<paused, pauses>>
    BY <1>5 DEF Stop
  <2>3. pauses \in Nat
    BY BoundsAssumption DEF GraphTypeOK
  <2> QED
    BY <2>1, <2>2, <2>3 DEF PipesInPlace
<1>6. CASE DrainBypass
  <2>1. \A i \in PullInputs :
          /\ stream'[i].pipes = stream[i].pipes
          /\ stream'[i].listens = stream[i].listens
          /\ stream'[i].flowing => stream[i].flowing \/ stream[i].listens
    BY <1>6, DrainBypassType
  <2>2. UNCHANGED <<paused, pauses, stopped>>
    BY <1>6 DEF DrainBypass
  <2>3. \A i \in PullInputs :
          /\ stream'[i].pipes = stream[i].pipes
          /\ stopped => ~stream'[i].flowing /\ ~stream'[i].listens
    BY <2>1 DEF PipesInPlace
  <2> QED
    BY <2>2, <2>3, PipesKept
<1>7. ASSUME NEW i \in PushInputs, Receive(i) PROVE PipesInPlace'
  BY <1>7, StreamsKeepPipes DEF Receive
<1>8. ASSUME CloseQueue \/ EmitQueue PROVE PipesInPlace'
  BY <1>8, StreamsKeepPipes DEF CloseQueue, EmitQueue
<1>9. ASSUME EmitBypass \/ EmitHub \/ DrainHub PROVE PipesInPlace'
  BY <1>9, StreamsKeepPipes DEF EmitBypass, EmitHub, DrainHub, inputSide
<1>10. ASSUME NEW f \in Flows, DrainFilter(f) \/ FilterWrite(f) \/ TakeNext(f)
       PROVE  PipesInPlace'
  BY <1>10, StreamsKeepPipes DEF DrainFilter, FilterWrite, TakeNext, inputSide
<1> QED
  BY <1>1, <1>2, <1>3, <1>4, <1>5, <1>6, <1>7, <1>8, <1>9, <1>10 DEF GraphNext

(* What a source holds or hands to bypassStream is its own.                *)
LEMMA OwnKept ==
  ASSUME OwnEntries, disk' = disk, Cargo(bypass') = Cargo(bypass),
         \A i \in PullInputs : stream'[i].buf = stream[i].buf
  PROVE  OwnEntries'
  BY DEF OwnEntries

LEMMA SourcesKeepOwn ==
  ASSUME OwnEntries, UNCHANGED <<stream, disk, bypass>>
  PROVE  OwnEntries'
  BY DEF OwnEntries

LEMMA OwnInvariant ==
  ASSUME GraphTypeOK, PipesInPlace, OwnEntries, GraphNext
  PROVE  OwnEntries'
<1>1. ASSUME NEW i \in PullInputs, Answer(i) PROVE OwnEntries'
  <2> DEFINE e == NextEntry(i)
             b == stream[i].buf
  <2>1. /\ stream'[i] = [stream[i] EXCEPT !.buf = Append(b, e)] /\ e \in Entry
        /\ \A j \in PullInputs : j # i => stream'[j] = stream[j]
    BY <1>1, AnswerType
  <2>2. stream[i] \in Streams /\ b \in Seq(Entry)
    BY StreamFields DEF GraphTypeOK
  <2>3. IsRaw(e, i)
    BY DEF NextEntry, IsRaw
  <2> HIDE DEF e
  <2>4. stream'[i].buf = Append(b, e)
    BY <2>1, <2>2 DEF Streams
  <2>5. \A k \in 1..Len(b) : IsRaw(b[k], i)
    BY DEF OwnEntries
  <2> HIDE DEF b
  <2>6. \A k \in 1..Len(stream'[i].buf) : IsRaw(stream'[i].buf[k], i)
    BY <2>1, <2>2, <2>3, <2>4, <2>5, AppendProperties
  <2>7. UNCHANGED <<disk, bypass>>
    BY <1>1 DEF Answer
  <2> QED
    BY <2>1, <2>6, <2>7 DEF OwnEntries
<1>2. ASSUME NEW i \in PullInputs, EmitPull(i) PROVE OwnEntries'
  <2> DEFINE b == stream[i].buf
             c == Write(Head(b))
             n == stream[i].pipes
  <2>1. /\ stream'[i].buf = Tail(b) /\ b # <<>> /\ n \in Nat \ {0} /\ c \in Chunk
        /\ \A j \in PullInputs : j # i => stream'[j] = stream[j]
        /\ bypass' = Passes(bypass, c, n)[n]
    BY <1>2, EmitPullType
  <2>2. b \in Seq(Entry)
    BY StreamFields DEF GraphTypeOK
  <2>3. /\ \A k \in 1..Len(Tail(b)) : k + 1 \in 1..Len(b) /\ Tail(b)[k] = b[k + 1]
        /\ 1 \in 1..Len(b) /\ Head(b) = b[1]
    BY <2>1, <2>2
  <2>4. \A k \in 1..Len(b) : IsRaw(b[k], i)
    BY DEF OwnEntries
  <2>5. c.entry = Head(b)
    BY DEF Write
  <2>6. c.entry.input \in PullInputs
    BY <2>3, <2>4, <2>5 DEF IsRaw
  <2> HIDE DEF b, c, n
  <2>7. \A k \in 1..Len(stream'[i].buf) : IsRaw(stream'[i].buf[k], i)
    BY <2>1, <2>3, <2>4
  <2>8. BypassTypeOK(bypass)
    BY DEF GraphTypeOK
  <2>9. \A k \in 1..Len(Cargo(bypass')) :
          \/ Cargo(bypass')[k] = c.entry
          \/ \E j \in 1..Len(Cargo(bypass)) : Cargo(bypass')[k] = Cargo(bypass)[j]
    BY <2>1, <2>8, CargoPasses
  <2>10. \A k \in 1..Len(Cargo(bypass')) : Cargo(bypass')[k].input \in PullInputs
    BY <2>6, <2>9 DEF OwnEntries
  <2>11. disk' = disk
    BY <1>2 DEF EmitPull
  <2>12. \A j \in PullInputs : \A k \in 1..Len(stream'[j].buf) : IsRaw(stream'[j].buf[k], j)
    BY <2>1, <2>7 DEF OwnEntries
  <2> QED
    BY <2>10, <2>11, <2>12 DEF OwnEntries
<1>3. CASE EmitBypass
  <2> DEFINE b == Cargo(bypass)
  <2>1. b # <<>> /\ Cargo(bypass') = Tail(b)
    BY <1>3, EmitBypassType
  <2>2. b \in Seq(Entry)
    BY CargoType DEF GraphTypeOK, BypassTypeOK
  <2>3. \A k \in 1..Len(b) : b[k].input \in PullInputs
    BY DEF OwnEntries
  <2> HIDE DEF b
  <2>4. \A k \in 1..Len(Tail(b)) : k + 1 \in 1..Len(b) /\ Tail(b)[k] = b[k + 1]
    BY <2>1, <2>2
  <2>5. \A k \in 1..Len(Cargo(bypass')) : Cargo(bypass')[k].input \in PullInputs
    BY <2>1, <2>3, <2>4
  <2>6. UNCHANGED <<stream, disk>>
    BY <1>3 DEF EmitBypass, inputSide
  <2> QED
    BY <2>5, <2>6 DEF OwnEntries
<1>4. ASSUME NEW i \in PushInputs, Receive(i) PROVE OwnEntries'
  <2> DEFINE e == NextEntry(i)
  <2>1. e \in Entry /\ disk' = Append(disk, e)
    BY <1>4, ReceiveType
  <2>2. e.input \in PushInputs
    BY DEF NextEntry
  <2>3. disk \in Seq(Entry) /\ \A k \in 1..Len(disk) : disk[k].input \in PushInputs
    BY DEF GraphTypeOK, OwnEntries
  <2> HIDE DEF e
  <2>4. \A k \in 1..Len(disk') : disk'[k].input \in PushInputs
    BY <2>1, <2>2, <2>3, AppendProperties
  <2>5. UNCHANGED <<stream, bypass>>
    BY <1>4 DEF Receive
  <2> QED
    BY <2>4, <2>5 DEF OwnEntries
<1>5. CASE EmitQueue
  <2>1. disk # <<>> /\ disk' = Tail(disk)
    BY <1>5, EmitQueueType
  <2>2. disk \in Seq(Entry) /\ \A k \in 1..Len(disk) : disk[k].input \in PushInputs
    BY DEF GraphTypeOK, OwnEntries
  <2>3. \A k \in 1..Len(Tail(disk)) : k + 1 \in 1..Len(disk) /\ Tail(disk)[k] = disk[k + 1]
    BY <2>1, <2>2
  <2>4. \A k \in 1..Len(disk') : disk'[k].input \in PushInputs
    BY <2>1, <2>2, <2>3
  <2>5. UNCHANGED <<stream, bypass>>
    BY <1>5 DEF EmitQueue
  <2> QED
    BY <2>4, <2>5 DEF OwnEntries
<1>6. CASE CloseQueue
  <2>1. PICK k \in 0..Len(disk) : disk' = SubSeq(disk, 1, k)
    BY <1>6, CloseQueueType
  <2>2. disk \in Seq(Entry) /\ \A j \in 1..Len(disk) : disk[j].input \in PushInputs
    BY DEF GraphTypeOK, OwnEntries
  <2>3. \A j \in 1..Len(disk') : j \in 1..Len(disk) /\ disk'[j] = disk[j]
    BY <2>1, <2>2
  <2>4. \A j \in 1..Len(disk') : disk'[j].input \in PushInputs
    BY <2>2, <2>3
  <2>5. UNCHANGED <<stream, bypass>>
    BY <1>6 DEF CloseQueue
  <2> QED
    BY <2>4, <2>5 DEF OwnEntries
<1>7. CASE DrainBypass
  <2>1. disk' = disk
    BY <1>7 DEF DrainBypass
  <2> QED
    BY <1>7, <2>1, DrainBypassType, OwnKept
<1>8. ASSUME Pause \/ Resume \/ Stop PROVE OwnEntries'
  <2>1. UNCHANGED <<disk, bypass>>
    BY <1>8 DEF Pause, Resume, Stop
  <2>2. \A i \in PullInputs : stream'[i].buf = stream[i].buf
    BY <1>8, PauseType, ResumeType, StopType
  <2> QED
    BY <2>1, <2>2, OwnKept
<1>9. ASSUME EmitHub \/ DrainHub PROVE OwnEntries'
  BY <1>9, SourcesKeepOwn DEF EmitHub, DrainHub, inputSide
<1>10. ASSUME NEW f \in Flows, DrainFilter(f) \/ FilterWrite(f) \/ TakeNext(f)
       PROVE  OwnEntries'
  BY <1>10, SourcesKeepOwn DEF DrainFilter, FilterWrite, TakeNext, inputSide
<1> QED
  BY <1>1, <1>2, <1>3, <1>4, <1>5, <1>6, <1>7, <1>8, <1>9, <1>10 DEF GraphNext

(***************************************************************************)
(* The line of a flow, step by step.                                       *)
(***************************************************************************)

LEMMA PlacesNow ==
  ASSUME GraphTypeOK, NEW f \in Flows
  PROVE  /\ Line(f) \in Lines
         /\ Line(f)[1] = taken[f] /\ Line(f)[2] = filter[f].queue
         /\ Line(f)[3] = EntriesOf(filter[f].writes)
         /\ Line(f)[4] = Cargo(hub) /\ Line(f)[5] = Cargo(bypass)
<1>1. taken[f] \in Seq(Entry) /\ filter[f].queue \in Seq(Entry)
  BY FilterFields DEF GraphTypeOK
<1>2. EntriesOf(filter[f].writes) \in Seq(Entry)
  BY FilterFields, EntriesType DEF GraphTypeOK
<1>3. Cargo(hub) \in Seq(Entry) /\ Cargo(bypass) \in Seq(Entry)
  BY CargoType DEF GraphTypeOK, BypassTypeOK
<1>4. /\ Line(f)[1] = taken[f] /\ Line(f)[2] = filter[f].queue
      /\ Line(f)[3] = EntriesOf(filter[f].writes)
      /\ Line(f)[4] = Cargo(hub) /\ Line(f)[5] = Cargo(bypass)
      /\ Line(f) = [p \in 1..5 |-> Line(f)[p]]
  BY DEF Line
<1>5. \A p \in 1..5 : p = 1 \/ p = 2 \/ p = 3 \/ p = 4 \/ p = 5
  OBVIOUS
<1>6. \A p \in 1..5 : Line(f)[p] \in Seq(Entry)
  BY <1>1, <1>2, <1>3, <1>4, <1>5
<1> QED
  BY <1>4, <1>6 DEF Lines

LEMMA PlacesNext ==
  ASSUME GraphTypeOK', NEW CONSTANT f \in Flows
  PROVE  /\ Line(f)' \in Lines
         /\ Line(f)'[1] = taken'[f] /\ Line(f)'[2] = filter'[f].queue
         /\ Line(f)'[3] = EntriesOf(filter'[f].writes)
         /\ Line(f)'[4] = Cargo(hub') /\ Line(f)'[5] = Cargo(bypass')
<1>1. taken'[f] \in Seq(Entry) /\ filter'[f].queue \in Seq(Entry)
  BY FilterFields DEF GraphTypeOK
<1>2. EntriesOf(filter'[f].writes) \in Seq(Entry)
  BY FilterFields, EntriesType DEF GraphTypeOK
<1>3. Cargo(hub') \in Seq(Entry) /\ Cargo(bypass') \in Seq(Entry)
  BY CargoType DEF GraphTypeOK, BypassTypeOK
<1>4. /\ Line(f)'[1] = taken'[f] /\ Line(f)'[2] = filter'[f].queue
      /\ Line(f)'[3] = EntriesOf(filter'[f].writes)
      /\ Line(f)'[4] = Cargo(hub') /\ Line(f)'[5] = Cargo(bypass')
      /\ Line(f)' = [p \in 1..5 |-> Line(f)'[p]]
  BY DEF Line
<1>5. \A p \in 1..5 : p = 1 \/ p = 2 \/ p = 3 \/ p = 4 \/ p = 5
  OBVIOUS
<1>6. \A p \in 1..5 : Line(f)'[p] \in Seq(Entry)
  BY <1>1, <1>2, <1>3, <1>4, <1>5
<1> QED
  BY <1>4, <1>6 DEF Lines

LEMMA AlikeItself == \A s, i : Alike(s, s, i)
  BY DEF Alike

LEMMA CopiesType ==
  ASSUME GraphTypeOK, NEW i
  PROVE  Copies(i) \in Nat \ {0}
<1>1. pauses \in Nat
  BY BoundsAssumption DEF GraphTypeOK
<1> QED
  BY <1>1 DEF Copies

LEMMA CopiesTypeNext ==
  ASSUME GraphTypeOK', NEW CONSTANT i
  PROVE  Copies(i)' \in Nat \ {0}
<1>1. pauses' \in Nat
  BY BoundsAssumption DEF GraphTypeOK
<1>2. Copies(i)' = pauses' + 1 \/ Copies(i)' = 1
  BY DEF Copies
<1>3. pauses' + 1 \in Nat \ {0}
  <2> DEFINE n == pauses'
  <2>1. n \in Nat
    BY <1>1
  <2> HIDE DEF n
  <2>2. n + 1 \in Nat \ {0}
    BY <2>1
  <2> QED
    BY <2>2 DEF n
<1> QED
  BY <1>2, <1>3

LEMMA SourceType ==
  ASSUME GraphTypeOK, NEW i \in Inputs
  PROVE  SourceOf(i) \in Seq(Entry)
  BY StreamFields DEF GraphTypeOK, SourceOf

(* A step that changes no `when` and takes no mark back: what a flow is    *)
(* shut out of, it stays shut out of.                                      *)
MoreMarked == world' = world /\ marked \subseteq marked'

LEMMA MissesMore ==
  ASSUME MoreMarked, NEW CONSTANT f, NEW CONSTANT i
  PROVE  ShutOut(f, i) \subseteq ShutOut(f, i)'
  BY DEF ShutOut, MoreMarked

LEMMA MissesSame ==
  ASSUME UNCHANGED <<world, marked>>, NEW CONSTANT f, NEW CONSTANT i
  PROVE  ShutOut(f, i)' = ShutOut(f, i)
  BY DEF ShutOut

(* Nothing of input i moves on the way to flow f.                          *)
LEMMA StaysInLine ==
  ASSUME GraphTypeOK, GraphTypeOK', NEW CONSTANT f \in Flows, NEW CONSTANT i \in Inputs, InItsLine(f, i),
         \A p \in 1..5 : Alike(Line(f)[p], Line(f)'[p], i), MoreMarked,
         Copies(i) <= Copies(i)', given'[i] = given[i],
         stopped' \in BOOLEAN, stopped => stopped',
         Climbing(SourceOf(i), i) => Climbing(SourceOf(i)', i),
         \A n : Has(SourceOf(i)', i, n) <=> Has(SourceOf(i), i, n)
  PROVE  InItsLine(f, i)'
<1> DEFINE L == Line(f)
           M == Line(f)'
<1>1. L \in Lines /\ M \in Lines
  BY PlacesNow, PlacesNext
<1>2. Copies(i) \in Nat /\ Copies(i)' \in Nat
  BY CopiesType, CopiesTypeNext
<1>3. CASE i \in From[f]
  <2>1. InLine(L, i, Copies(i), ShutOut(f, i)) /\ Follows(SourceOf(i), L, i, given[i], ~stopped, ShutOut(f, i))
    BY <1>3 DEF InItsLine
  <2> DEFINE c == Copies(i)
             d == Copies(i)'
             src == SourceOf(i)
             rest == SourceOf(i)'
             all == ~stopped
             miss == ShutOut(f, i)
             wide == ShutOut(f, i)'
  <2>2. c \in Nat /\ d \in Nat /\ c <= d
    BY <1>2
  <2>3. \A p \in 1..5 : Alike(L[p], M[p], i)
    OBVIOUS
  <2>4. Climbing(src, i)
    BY <2>1 DEF Follows
  <2>5. Climbing(rest, i) /\ \A n : Has(rest, i, n) <=> Has(src, i, n)
    BY <2>4
  <2>6. InLine(L, i, c, miss) /\ Follows(src, L, i, given[i], all, miss) /\ miss \subseteq wide
    BY <2>1, MissesMore
  <2> HIDE DEF L, M, c, d, src, rest, all, miss, wide
  <2>7. InLine(M, i, d, miss) /\ \A n : Before(M, i, n, 5) <=> Before(L, i, n, 5)
    BY <1>1, <2>2, <2>3, <2>6, LineQuiet
  <2>8. Follows(rest, M, i, given[i], all, miss)
    BY <2>5, <2>6, <2>7, FollowsSame
  <2>W. InLine(M, i, d, wide) /\ Follows(rest, M, i, given[i], all, wide)
    BY <2>6, <2>7, <2>8, LineMisses
  <2>9. Follows(rest, M, i, given[i], ~stopped', wide)
    <3>1. CASE stopped'
      BY <2>W, <3>1 DEF Follows
    <3>2. CASE ~stopped'
      <4>1. all = TRUE /\ (~stopped') = TRUE
        BY <3>2 DEF all
      <4> QED
        BY <2>W, <4>1
    <3> QED
      BY <3>1, <3>2
  <2>10. InLine(Line(f)', i, Copies(i)', ShutOut(f, i)') /\ Follows(SourceOf(i)', Line(f)', i, given'[i], ~stopped', ShutOut(f, i)')
    BY <2>W, <2>9 DEF M, d, rest, wide
  <2> QED
    BY <1>3, <2>10 DEF InItsLine
<1>4. CASE i \notin From[f]
  <2>1. /\ \A n : Has(taken'[f], i, n) <=> Has(taken[f], i, n)
        /\ \A n : Has(filter'[f].queue, i, n) <=> Has(filter[f].queue, i, n)
    <3>1. /\ L[1] = taken[f] /\ M[1] = taken'[f]
          /\ L[2] = filter[f].queue /\ M[2] = filter'[f].queue
      BY PlacesNow, PlacesNext
    <3>2. Alike(L[1], M[1], i) /\ Alike(L[2], M[2], i)
      OBVIOUS
    <3> HIDE DEF L, M
    <3> QED
      BY <3>1, <3>2 DEF Alike
  <2> QED
    BY <1>4, <2>1 DEF InItsLine
<1> QED
  BY <1>3, <1>4

(* A step that changes no place of any line, nor a source.                 *)
LEMMA NothingMoves ==
  ASSUME GraphTypeOK, GraphTypeOK', InLines,
         \A f \in Flows : /\ taken'[f] = taken[f] /\ filter'[f].queue = filter[f].queue
                          /\ EntriesOf(filter'[f].writes) = EntriesOf(filter[f].writes),
         Cargo(hub') = Cargo(hub), Cargo(bypass') = Cargo(bypass),
         pauses <= pauses', given' = given, stopped => stopped', disk' = disk, MoreMarked,
         \A i \in PullInputs : stream'[i].buf = stream[i].buf
  PROVE  InLines'
<1> SUFFICES ASSUME NEW CONSTANT f \in Flows, NEW CONSTANT i \in Inputs
             PROVE  InItsLine(f, i)'
  BY DEF InLines
<1>1. \A p \in 1..5 : Line(f)'[p] = Line(f)[p]
  <2>1. \A p \in 1..5 : p = 1 \/ p = 2 \/ p = 3 \/ p = 4 \/ p = 5
    OBVIOUS
  <2> QED
    BY <2>1, PlacesNow, PlacesNext
<1>2. \A p \in 1..5 : Alike(Line(f)[p], Line(f)'[p], i)
  BY <1>1, AlikeItself
<1>3. SourceOf(i)' = SourceOf(i)
  BY DEF SourceOf
<1>4. Copies(i) <= Copies(i)'
  <2>1. pauses \in Nat /\ pauses' \in Nat
    BY BoundsAssumption DEF GraphTypeOK
  <2>2. \/ Copies(i) = 1 /\ Copies(i)' = 1
        \/ Copies(i) = pauses + 1 /\ Copies(i)' = pauses' + 1
    BY DEF Copies
  <2>3. ASSUME NEW a \in Nat, NEW b \in Nat, a <= b
        PROVE  1 <= 1 /\ a + 1 <= b + 1
    BY <2>3
  <2>4. 1 <= 1 /\ pauses + 1 <= pauses' + 1
    BY <2>1, <2>3
  <2> QED
    BY <2>2, <2>4
<1>5. InItsLine(f, i) /\ stopped' \in BOOLEAN
  BY DEF InLines, GraphTypeOK
<1> QED
  BY <1>2, <1>3, <1>4, <1>5, StaysInLine

(* An entry moves on from place p + 1 to place p of the line of flow f,    *)
(* which selects it if p is its queue.                                     *)
LEMMA MovesOn ==
  ASSUME GraphTypeOK, GraphTypeOK', NEW CONSTANT f \in Flows, NEW CONSTANT i \in Inputs, InItsLine(f, i),
         UNCHANGED <<given, stream, disk, pauses, stopped>>, MoreMarked, NEW p \in 1..4,
         Line(f)[p + 1] # <<>>, Line(f)'[p + 1] = Tail(Line(f)[p + 1]),
         \/ Line(f)'[p] = Append(Line(f)[p], Head(Line(f)[p + 1]))
         \/ ~IsRaw(Head(Line(f)[p + 1]), i) /\ Line(f)'[p] = Line(f)[p],
         \A q \in 1..5 : q \notin {p, p + 1} => Alike(Line(f)[q], Line(f)'[q], i),
         p = 2 => (IsRaw(Head(Line(f)[p + 1]), i) => i \in From[f])
  PROVE  InItsLine(f, i)'
<1> DEFINE L == Line(f)
           M == Line(f)'
           r == p + 1
           x == Head(L[r])
<1>1. L \in Lines /\ M \in Lines
  BY PlacesNow, PlacesNext
<1>2. p \in 1..5 /\ r \in 1..5 /\ p # r
  OBVIOUS
<1>3. /\ L[r] # <<>> /\ M[r] = Tail(L[r])
      /\ M[p] = Append(L[p], x) \/ (~IsRaw(x, i) /\ M[p] = L[p])
      /\ \A q \in 1..5 : q \notin {p, r} => Alike(L[q], M[q], i)
  OBVIOUS
<1>4. L[p] \in Seq(Entry) /\ L[r] \in Seq(Entry)
  BY <1>1, <1>2 DEF Lines
<1>5. x \in Entry
  BY <1>3, <1>4
<1>6. Copies(i)' = Copies(i) /\ Copies(i) \in Nat
  BY CopiesType DEF Copies
<1>7. SourceOf(i)' = SourceOf(i)
  BY DEF SourceOf
<1>8. stopped' \in BOOLEAN
  BY DEF GraphTypeOK
<1>9. CASE ~IsRaw(x, i)
  <2>1. Alike(L[r], M[r], i)
    <3> HIDE DEF L, M, r
    <3> QED
      BY <1>3, <1>4, <1>9, DropOther DEF x
  <2>2. Alike(L[p], M[p], i)
    <3> HIDE DEF L, M, r, x
    <3> QED
      BY <1>3, <1>4, <1>5, <1>9, AppendOther, AlikeItself
  <2>3. \A q \in 1..5 : Alike(L[q], M[q], i)
    <3> HIDE DEF L, M, r, x
    <3> QED
      BY <1>3, <2>1, <2>2
  <2>4. \A q \in 1..5 : Alike(Line(f)[q], Line(f)'[q], i)
    BY <2>3
  <2>5. given'[i] = given[i] /\ (stopped => stopped') /\ Copies(i) <= Copies(i)'
    BY <1>6
  <2> HIDE DEF L, M, r, x
  <2> QED
    BY <1>7, <1>8, <2>4, <2>5, StaysInLine DEF MoreMarked
<1>10. CASE IsRaw(x, i)
  <2>1. Loses(L[r], M[r], i, x.n)
    <3> HIDE DEF L, M, r
    <3> QED
      BY <1>3, <1>4, <1>10, DropRaw DEF x
  <2>2. Gains(L[p], M[p], i, x.n, 1)
    <3> HIDE DEF L, M, r, x
    <3> QED
      BY <1>3, <1>4, <1>5, <1>10, AppendRaw
  <2>3. CASE i \in From[f]
    <3>1. InLine(L, i, Copies(i), ShutOut(f, i)) /\ Follows(SourceOf(i), L, i, given[i], ~stopped, ShutOut(f, i))
      BY <2>3 DEF InItsLine
    <3> DEFINE c == Copies(i)
               m == x.n
               miss == ShutOut(f, i)
    <3>2. /\ InLine(M, i, c, miss)
          /\ \A n : Before(M, i, n, 5) <=> Before(L, i, n, 5)
      <4>1. Loses(L[p + 1], M[p + 1], i, m) /\ Gains(L[p], M[p], i, m, 1)
        BY <2>1, <2>2
      <4>2. \A q \in 1..5 : q \notin {p, p + 1} => Alike(L[q], M[q], i)
        BY <1>3
      <4>3. c \in Nat /\ InLine(L, i, c, miss)
        BY <1>6, <3>1
      <4> HIDE DEF L, M, r, x, c, m, miss
      <4> QED
        BY <1>1, <4>1, <4>2, <4>3, LineMove
    <3>3. Follows(SourceOf(i), M, i, given[i], ~stopped, miss)
      <4>1. Climbing(SourceOf(i), i) /\ Follows(SourceOf(i), L, i, given[i], ~stopped, miss)
        BY <3>1 DEF Follows
      <4> HIDE DEF L, M, miss
      <4> QED
        BY <3>2, <4>1, FollowsSame
    <3>M. miss \subseteq ShutOut(f, i)'
      BY MissesMore
    <3>W. /\ InLine(M, i, c, ShutOut(f, i)')
          /\ Follows(SourceOf(i), M, i, given[i], ~stopped, ShutOut(f, i)')
      <4> HIDE DEF M, c, miss
      <4> QED
        BY <3>2, <3>3, <3>M, LineMisses
    <3>4. /\ InLine(Line(f)', i, Copies(i)', ShutOut(f, i)')
          /\ Follows(SourceOf(i)', Line(f)', i, given'[i], ~stopped', ShutOut(f, i)')
      BY <1>6, <1>7, <3>W
    <3> QED
      BY <2>3, <3>4 DEF InItsLine
  <2>4. CASE i \notin From[f]
    <3>1. /\ L[1] = taken[f] /\ M[1] = taken'[f]
          /\ L[2] = filter[f].queue /\ M[2] = filter'[f].queue
      BY PlacesNow, PlacesNext
    <3>2. \A n \in Nat : ~Has(L[1], i, n) /\ ~Has(L[2], i, n)
      BY <2>4, <3>1 DEF InItsLine
    <3>3. p # 2
      BY <1>10, <2>4
    <3>4. p # 1
      <4>1. ASSUME p = 1
            PROVE  FALSE
        <5>1. Has(L[2], i, x.n) /\ x.n \in Nat
          <6>1. r = 2
            BY <4>1
          <6>2. Has(L[r], i, x.n)
            BY <2>1 DEF Loses
          <6>3. x.n \in Nat
            BY <1>5, RawFacts
          <6> QED
            BY <6>1, <6>2, <6>3
        <5> QED
          BY <3>2, <5>1
      <4> QED
        BY <4>1
    <3>5. Alike(L[1], M[1], i) /\ Alike(L[2], M[2], i)
      <4>1. 1 \notin {p, r} /\ 2 \notin {p, r}
        BY <3>3, <3>4
      <4> HIDE DEF L, M, r
      <4> QED
        BY <1>3, <4>1
    <3>6. \A n \in Nat : ~Has(M[1], i, n) /\ ~Has(M[2], i, n)
      BY <3>2, <3>5 DEF Alike
    <3>7. \A n \in Nat : ~Has(taken'[f], i, n) /\ ~Has(filter'[f].queue, i, n)
      BY <3>1, <3>6
    <3> QED
      BY <2>4, <3>7 DEF InItsLine
  <2> QED
    BY <2>3, <2>4
<1> QED
  BY <1>9, <1>10

(* A flow takes nothing of an input that it does not select.               *)
LEMMA OthersTakeNone ==
  ASSUME NEW CONSTANT f \in Flows, NEW CONSTANT i \in Inputs, InItsLine(f, i),
         i \notin From[f], taken'[f] = taken[f], filter'[f].queue = filter[f].queue
  PROVE  InItsLine(f, i)'
<1>1. \A n \in Nat : ~Has(taken[f], i, n) /\ ~Has(filter[f].queue, i, n)
  BY DEF InItsLine
<1>2. \A n \in Nat : ~Has(taken'[f], i, n) /\ ~Has(filter'[f].queue, i, n)
  BY <1>1
<1> QED
  BY <1>2 DEF InItsLine

LEMMA LineSame ==
  ASSUME UNCHANGED <<taken, filter, hub, bypass>>, NEW CONSTANT f \in Flows
  PROVE  Line(f)' = Line(f)
BY DEF Line

(* What the input gives comes last.                                        *)
LEMMA GivesMore ==
  ASSUME GraphTypeOK, NEW CONSTANT f \in Flows, NEW CONSTANT i \in Inputs, InItsLine(f, i),
         UNCHANGED <<taken, filter, hub, bypass, pauses, stopped, world, marked>>, ~stopped,
         NextEntry(i) \in Entry, given'[i] = given[i] + 1,
         SourceOf(i)' = Append(SourceOf(i), NextEntry(i))
  PROVE  InItsLine(f, i)'
<1>1. CASE i \in From[f]
  <2> DEFINE L == Line(f)
             src == SourceOf(i)
             last == given[i]
             x == NextEntry(i)
             miss == ShutOut(f, i)
  <2>1. InLine(L, i, Copies(i), miss) /\ Follows(src, L, i, last, ~stopped, miss)
    BY <1>1 DEF InItsLine
  <2>2. (~stopped) = TRUE /\ (~stopped') = TRUE
    OBVIOUS
  <2>3. Follows(src, L, i, last, TRUE, miss)
    BY <2>1, <2>2
  <2>4. src \in Seq(Entry) /\ last \in Nat
    BY SourceType DEF GraphTypeOK
  <2>5. x \in Entry /\ x = Raw(i, last + 1)
    BY DEF NextEntry, Raw
  <2>6. Follows(Append(src, x), L, i, last + 1, TRUE, miss)
    <3> HIDE DEF L, src, last, x, miss
    <3> QED
      BY <2>3, <2>4, <2>5, FollowsGiven
  <2>7. Line(f)' = L /\ Copies(i)' = Copies(i) /\ ShutOut(f, i)' = miss
    BY LineSame, MissesSame DEF Copies
  <2>8. InLine(Line(f)', i, Copies(i)', ShutOut(f, i)')
    BY <2>1, <2>7
  <2>9. Follows(SourceOf(i)', Line(f)', i, given'[i], ~stopped', ShutOut(f, i)')
    BY <2>2, <2>6, <2>7
  <2> QED
    BY <1>1, <2>8, <2>9 DEF InItsLine
<1>2. CASE i \notin From[f]
  BY <1>2, OthersTakeNone
<1> QED
  BY <1>1, <1>2

LEMMA AnswerLines ==
  ASSUME GraphTypeOK, InLines, NEW CONSTANT j \in PullInputs, Answer(j)
  PROVE  InLines'
<1> SUFFICES ASSUME NEW CONSTANT f \in Flows, NEW CONSTANT i \in Inputs
             PROVE  InItsLine(f, i)'
  BY DEF InLines
<1>1. /\ GraphTypeOK' /\ NextEntry(j) \in Entry
      /\ given' = [given EXCEPT ![j] = given[j] + 1]
      /\ stream'[j] = [stream[j] EXCEPT !.buf = Append(stream[j].buf, NextEntry(j))]
      /\ \A h \in PullInputs : h # j => stream'[h] = stream[h]
  BY AnswerType
<1>2. UNCHANGED <<taken, filter, hub, bypass, disk, pauses, stopped, world, marked>> /\ ~stopped
  BY DEF Answer, MayGive, flowSide
<1>3. InItsLine(f, i) /\ given \in [Inputs -> Nat] /\ j \in Inputs /\ stopped' \in BOOLEAN
  BY <1>1 DEF InLines, GraphTypeOK, Inputs
<1>4. CASE i = j
  <2>1. stream'[j].buf = Append(stream[j].buf, NextEntry(j))
    <3>1. stream[j] \in Streams
      BY DEF GraphTypeOK
    <3> QED
      BY <1>1, <3>1 DEF Streams
  <2>2. SourceOf(i)' = Append(SourceOf(i), NextEntry(i))
    BY <1>4, <2>1 DEF SourceOf
  <2>3. given'[i] = given[i] + 1
    BY <1>1, <1>3, <1>4
  <2> QED
    BY <1>1, <1>2, <1>3, <1>4, <2>2, <2>3, GivesMore
<1>5. CASE i # j
  <2>1. SourceOf(i)' = SourceOf(i)
    BY <1>1, <1>2, <1>5 DEF SourceOf
  <2>2. given'[i] = given[i]
    BY <1>1, <1>3, <1>5
  <2>3. Line(f)' = Line(f)
    BY <1>2, LineSame
  <2>4. \A p \in 1..5 : Alike(Line(f)[p], Line(f)'[p], i)
    BY <2>3, AlikeItself
  <2>5. Copies(i)' = Copies(i) /\ Copies(i) \in Nat
    BY <1>2, CopiesType DEF Copies
  <2>6. Copies(i) <= Copies(i)'
    BY <2>5
  <2> QED
    BY <1>1, <1>2, <1>3, <2>1, <2>2, <2>4, <2>6, StaysInLine DEF MoreMarked
<1> QED
  BY <1>4, <1>5

LEMMA ReceiveLines ==
  ASSUME GraphTypeOK, InLines, NEW CONSTANT j \in PushInputs, Receive(j)
  PROVE  InLines'
<1> SUFFICES ASSUME NEW CONSTANT f \in Flows, NEW CONSTANT i \in Inputs
             PROVE  InItsLine(f, i)'
  BY DEF InLines
<1> DEFINE x == NextEntry(j)
<1>1. /\ GraphTypeOK' /\ x \in Entry
      /\ given' = [given EXCEPT ![j] = given[j] + 1]
      /\ disk' = Append(disk, x)
  BY ReceiveType
<1>2. UNCHANGED <<taken, filter, hub, bypass, stream, pauses, stopped, world, marked>> /\ ~stopped
  BY DEF Receive, MayGive, flowSide
<1>3. InItsLine(f, i) /\ given \in [Inputs -> Nat] /\ j \in Inputs /\ stopped' \in BOOLEAN
      /\ disk \in Seq(Entry)
  BY <1>1 DEF InLines, GraphTypeOK, Inputs
<1>4. j \notin PullInputs
  BY KindsAssumption
<1>5. CASE i = j
  <2>1. SourceOf(i)' = Append(SourceOf(i), NextEntry(i))
    BY <1>1, <1>4, <1>5 DEF SourceOf
  <2>2. given'[i] = given[i] + 1
    BY <1>1, <1>3, <1>5
  <2> QED
    BY <1>1, <1>2, <1>3, <1>5, <2>1, <2>2, GivesMore
<1>6. CASE i # j
  <2>1. ~IsRaw(x, i)
    BY <1>6 DEF NextEntry, IsRaw
  <2>2. \A n : x # Raw(i, n)
    BY <1>1, <2>1, RawFacts
  <2>3. /\ \A n : Has(Append(disk, x), i, n) <=> Has(disk, i, n)
        /\ Climbing(disk, i) => Climbing(Append(disk, x), i)
    <3> HIDE DEF x
    <3>1. \A n : Has(Append(disk, x), i, n) <=> Has(disk, i, n)
      BY <1>1, <1>3, <2>2, HasAppend
    <3>2. Climbing(disk, i) => Climbing(Append(disk, x), i)
      BY <1>1, <1>3, <2>1, ClimbingAppend
    <3> QED
      BY <3>1, <3>2
  <2>4. /\ Climbing(SourceOf(i), i) => Climbing(SourceOf(i)', i)
        /\ \A n : Has(SourceOf(i)', i, n) <=> Has(SourceOf(i), i, n)
    BY <1>1, <1>2, <2>3 DEF SourceOf
  <2>5. given'[i] = given[i]
    BY <1>1, <1>3, <1>6
  <2>6. Line(f)' = Line(f)
    BY <1>2, LineSame
  <2>7. \A p \in 1..5 : Alike(Line(f)[p], Line(f)'[p], i)
    BY <2>6, AlikeItself
  <2>8. Copies(i)' = Copies(i) /\ Copies(i) \in Nat
    BY <1>2, CopiesType DEF Copies
  <2>9. Copies(i) <= Copies(i)'
    BY <2>8
  <2> QED
    BY <1>1, <1>2, <1>3, <2>4, <2>5, <2>7, <2>9, StaysInLine DEF MoreMarked
<1> QED
  BY <1>5, <1>6

(* A stream writes its first entry to bypassStream as often as it has      *)
(* pipes.                                                                  *)
LEMMA EmitPullLines ==
  ASSUME GraphTypeOK, PipesInPlace, OwnEntries, InLines,
         NEW CONSTANT j \in PullInputs, EmitPull(j)
  PROVE  InLines'
<1> SUFFICES ASSUME NEW CONSTANT f \in Flows, NEW CONSTANT i \in Inputs
             PROVE  InItsLine(f, i)'
  BY DEF InLines
<1> DEFINE src == stream[j].buf
           x == Head(src)
           k == stream[j].pipes
           after == Passes(bypass, Write(x), k)[k]
<1>1. /\ GraphTypeOK' /\ stream'[j].buf = Tail(src) /\ src # <<>>
      /\ k \in Nat \ {0} /\ ~stopped /\ Write(x) \in Chunk /\ bypass' = after
      /\ \A h \in PullInputs : h # j => stream'[h] = stream[h]
  BY EmitPullType
<1>2. UNCHANGED <<given, disk, hub, taken, filter, pauses, stopped, world, marked>>
  BY DEF EmitPull, flowSide
<1>3. InItsLine(f, i) /\ stopped' \in BOOLEAN /\ BypassTypeOK(bypass) /\ src \in Seq(Entry)
      /\ given[i] \in Nat
  BY <1>1, StreamFields DEF InLines, GraphTypeOK
<1>4. x \in Entry /\ Write(x).entry = x /\ IsRaw(x, j)
  <2>1. x \in Entry /\ x = src[1] /\ 1 \in 1..Len(src)
    BY <1>1, <1>3
  <2> QED
    BY <2>1, WriteType DEF OwnEntries
<1>5. IF IsRaw(x, i) THEN Gains(Cargo(bypass), Cargo(bypass'), i, x.n, k)
                     ELSE Alike(Cargo(bypass), Cargo(bypass'), i)
  <2> DEFINE c == Write(x)
             s == bypass
  <2>1. c \in Chunk /\ BypassTypeOK(s) /\ k \in Nat \ {0} /\ c.entry = x
        /\ bypass' = Passes(s, c, k)[k]
    BY <1>1, <1>3, <1>4
  <2>2. IF IsRaw(c.entry, i) THEN Gains(Cargo(s), Cargo(Passes(s, c, k)[k]), i, c.entry.n, k)
                             ELSE Alike(Cargo(s), Cargo(Passes(s, c, k)[k]), i)
    <3> HIDE DEF c, s, k
    <3> QED
      BY <2>1, CargoPasses
  <2> HIDE DEF c, x, k
  <2> QED
    BY <2>1, <2>2 DEF s
<1>6. Copies(i)' = Copies(i) /\ Copies(i) \in Nat
  BY <1>2, CopiesType DEF Copies
<1>7. /\ Line(f) \in Lines /\ Line(f)' \in Lines
      /\ Line(f)[5] = Cargo(bypass) /\ Line(f)'[5] = Cargo(bypass')
      /\ \A p \in 1..5 : p # 5 => Line(f)'[p] = Line(f)[p]
  <2>1. \A p \in 1..5 : p = 1 \/ p = 2 \/ p = 3 \/ p = 4 \/ p = 5
    OBVIOUS
  <2> QED
    BY <1>1, <1>2, <2>1, PlacesNow, PlacesNext
<1>8. \A p \in 1..5 : p # 5 => Alike(Line(f)[p], Line(f)'[p], i)
  BY <1>7, AlikeItself
<1>9. CASE i # j
  <2>1. Alike(Cargo(bypass), Cargo(bypass'), i)
    <3>1. ~IsRaw(x, i)
      BY <1>4, <1>9 DEF IsRaw
    <3> QED
      BY <1>5, <3>1
  <2>2. \A p \in 1..5 : Alike(Line(f)[p], Line(f)'[p], i)
    BY <1>7, <1>8, <2>1
  <2>3. SourceOf(i)' = SourceOf(i)
    BY <1>1, <1>2, <1>9 DEF SourceOf
  <2>4. Copies(i) <= Copies(i)' /\ given'[i] = given[i] /\ (stopped => stopped')
    BY <1>2, <1>6
  <2> QED
    BY <1>1, <1>2, <1>3, <2>2, <2>3, <2>4, StaysInLine DEF MoreMarked
<1>10. CASE i = j /\ i \notin From[f]
  BY <1>2, <1>3, <1>10, OthersTakeNone
<1>11. CASE i = j /\ i \in From[f]
  <2> DEFINE L == Line(f)
             M == Line(f)'
             max == Copies(i)
             rest == Tail(src)
             last == given[i]
             all == ~stopped
             m == x.n
             miss == ShutOut(f, i)
  <2>1. SourceOf(i) = src /\ SourceOf(i)' = rest
    BY <1>1, <1>11 DEF SourceOf
  <2>2. InLine(L, i, max, miss) /\ Follows(src, L, i, last, all, miss)
    BY <1>3, <1>11, <2>1 DEF InItsLine
  <2>3. Gains(L[5], M[5], i, m, k)
    BY <1>4, <1>5, <1>7, <1>11
  <2>4. k <= max
    <3>1. k <= IF paused THEN pauses ELSE pauses + 1
      BY DEF PipesInPlace
    <3>2. pauses \in Nat
      BY BoundsAssumption DEF GraphTypeOK
    <3>3. max = pauses + 1
      BY <1>11 DEF Copies
    <3> QED
      BY <1>1, <3>1, <3>2, <3>3
  <2>5. m \in Nat /\ x = Raw(i, m)
    BY <1>4, <1>11, RawFacts
  <2>6. \A n : Has(src, i, n) <=> Has(rest, i, n) \/ n = m
    <3>1. \A n : Has(src, i, n) <=> Has(rest, i, n) \/ x = Raw(i, n)
      <4> HIDE DEF src
      <4> QED
        BY <1>1, <1>3, HasTail
    <3>2. \A n : x = Raw(i, n) <=> n = m
      BY <1>4, <2>5, RawFacts
    <3> QED
      BY <3>1, <3>2
  <2>7. Climbing(rest, i) /\ \A n : Has(rest, i, n) => m < n /\ n \in Nat
    <3>1. Climbing(src, i)
      BY <2>2 DEF Follows
    <3>2. Climbing(rest, i) /\ \A n : Has(rest, i, n) => m < n
      <4>1. IsRaw(Head(src), i) /\ m = Head(src).n
        BY <1>4, <1>11
      <4> HIDE DEF src, m, x
      <4> QED
        BY <1>1, <1>3, <3>1, <4>1, ClimbingTail
    <3>3. \A n : Has(src, i, n) => n \in Nat
      <4> HIDE DEF src
      <4> QED
        BY <1>3, HasSome
    <3> QED
      BY <2>6, <3>2, <3>3
  <2>8. L \in Lines /\ M \in Lines /\ max \in Nat /\ last \in Nat
    BY <1>3, <1>6, <1>7
  <2>9. \A p \in 1..5 : p # 5 => Alike(L[p], M[p], i)
    BY <1>8
  <2>10. k \in Nat \ {0}
    BY <1>1
  <2>11. InLine(M, i, max, miss) /\ Follows(rest, M, i, last, all, miss)
    <3>1. \A p \in 1..5 : p > 5 => \A n : ~Has(L[p], i, n)
      OBVIOUS
    <3>2. 5 \in {4, 5}
      OBVIOUS
    <3> HIDE DEF L, M, max, src, rest, last, all, m, k, miss
    <3> QED
      BY <2>2, <2>3, <2>4, <2>5, <2>6, <2>7, <2>8, <2>9, <2>10, <3>1, <3>2, LineFrom
  <2>12. InLine(Line(f)', i, Copies(i)', ShutOut(f, i)') /\ Follows(SourceOf(i)', Line(f)', i, given'[i], ~stopped', ShutOut(f, i)')
    BY <1>2, <1>6, <2>1, <2>11, MissesSame
  <2> QED
    BY <1>11, <2>12 DEF InItsLine
<1> QED
  BY <1>9, <1>10, <1>11

(* inputStream takes the first entry of queueStream.                       *)
LEMMA EmitQueueLines ==
  ASSUME GraphTypeOK, OwnEntries, InLines, EmitQueue
  PROVE  InLines'
<1> SUFFICES ASSUME NEW CONSTANT f \in Flows, NEW CONSTANT i \in Inputs
             PROVE  InItsLine(f, i)'
  BY DEF InLines
<1> DEFINE x == Head(disk)
<1>1. /\ GraphTypeOK' /\ disk # <<>> /\ x \in Entry
      /\ Cargo(hub') = Append(Cargo(hub), x) /\ disk' = Tail(disk)
  BY EmitQueueType
<1>2. UNCHANGED <<given, stream, bypass, taken, filter, pauses, stopped, world, marked>>
  BY DEF EmitQueue, flowSide
<1>3. InItsLine(f, i) /\ stopped' \in BOOLEAN /\ disk \in Seq(Entry) /\ given[i] \in Nat
  BY <1>1 DEF InLines, GraphTypeOK
<1>4. x.input \in PushInputs
  <2>1. x = disk[1] /\ 1 \in 1..Len(disk)
    BY <1>1, <1>3
  <2> QED
    BY <2>1 DEF OwnEntries
<1>5. Copies(i)' = Copies(i) /\ Copies(i) \in Nat \ {0}
  BY <1>2, CopiesType DEF Copies
<1>6. /\ Line(f) \in Lines /\ Line(f)' \in Lines
      /\ Line(f)[5] = Cargo(bypass) /\ Line(f)'[4] = Append(Line(f)[4], x)
      /\ \A p \in 1..5 : p # 4 => Line(f)'[p] = Line(f)[p]
  <2>1. \A p \in 1..5 : p = 1 \/ p = 2 \/ p = 3 \/ p = 4 \/ p = 5
    OBVIOUS
  <2> QED
    BY <1>1, <1>2, <2>1, PlacesNow, PlacesNext
<1>7. \A p \in 1..5 : p # 4 => Alike(Line(f)[p], Line(f)'[p], i)
  BY <1>6, AlikeItself
<1>8. Line(f)[4] \in Seq(Entry)
  BY <1>6 DEF Lines
<1>9. Copies(i) <= Copies(i)' /\ given'[i] = given[i] /\ (stopped => stopped')
  BY <1>2, <1>5
<1>10. CASE ~IsRaw(x, i)
  <2>1. Alike(Line(f)[4], Line(f)'[4], i)
    <3> HIDE DEF x
    <3> QED
      BY <1>1, <1>6, <1>8, <1>10, AppendOther
  <2>2. \A p \in 1..5 : Alike(Line(f)[p], Line(f)'[p], i)
    BY <1>7, <2>1
  <2>3. /\ \A n : Has(Tail(disk), i, n) <=> Has(disk, i, n)
        /\ Climbing(disk, i) => Climbing(Tail(disk), i)
    <3>1. \A n : x # Raw(i, n)
      BY <1>1, <1>10, RawFacts
    <3> QED
      BY <1>1, <1>3, <3>1, HasTail, ClimbingTail
  <2>4. /\ Climbing(SourceOf(i), i) => Climbing(SourceOf(i)', i)
        /\ \A n : Has(SourceOf(i)', i, n) <=> Has(SourceOf(i), i, n)
    BY <1>1, <1>2, <2>3 DEF SourceOf
  <2> QED
    BY <1>1, <1>2, <1>3, <1>9, <2>2, <2>4, StaysInLine DEF MoreMarked
<1>11. CASE IsRaw(x, i) /\ i \notin From[f]
  BY <1>2, <1>3, <1>11, OthersTakeNone
<1>12. CASE IsRaw(x, i) /\ i \in From[f]
  <2> DEFINE L == Line(f)
             M == Line(f)'
             max == Copies(i)
             src == disk
             rest == Tail(disk)
             last == given[i]
             all == ~stopped
             m == x.n
             k == 1
             p == 4
             miss == ShutOut(f, i)
  <2>1. SourceOf(i) = src /\ SourceOf(i)' = rest
    <3>1. i \notin PullInputs
      BY <1>4, <1>12, KindsAssumption DEF IsRaw
    <3> QED
      BY <1>1, <3>1 DEF SourceOf
  <2>2. InLine(L, i, max, miss) /\ Follows(src, L, i, last, all, miss)
    BY <1>3, <1>12, <2>1 DEF InItsLine
  <2>3. m \in Nat /\ x = Raw(i, m)
    BY <1>1, <1>12, RawFacts
  <2>4. Gains(L[4], M[4], i, m, 1)
    <3>1. Gains(L[4], Append(L[4], x), i, x.n, 1)
      <4> HIDE DEF x, L
      <4> QED
        BY <1>1, <1>8, <1>12, AppendRaw DEF L
    <3> QED
      BY <1>6, <3>1
  <2>5. \A n : ~Has(L[5], i, n)
    <3>1. i \notin PullInputs
      BY <1>4, <1>12, KindsAssumption DEF IsRaw
    <3>2. L[5] = Cargo(bypass)
      BY <1>6
    <3> QED
      BY <3>1, <3>2 DEF OwnEntries, Has, Raw
  <2>6. \A n : Has(src, i, n) <=> Has(rest, i, n) \/ n = m
    <3>1. \A n : Has(src, i, n) <=> Has(rest, i, n) \/ x = Raw(i, n)
      BY <1>1, <1>3, HasTail
    <3>2. \A n : x = Raw(i, n) <=> n = m
      BY <1>1, <2>3, RawFacts
    <3> QED
      BY <3>1, <3>2
  <2>7. Climbing(rest, i) /\ \A n : Has(rest, i, n) => m < n /\ n \in Nat
    <3>1. Climbing(src, i)
      BY <2>2 DEF Follows
    <3>2. Climbing(rest, i) /\ \A n : Has(rest, i, n) => m < n
      BY <1>1, <1>3, <1>12, <3>1, ClimbingTail
    <3>3. \A n : Has(src, i, n) => n \in Nat
      BY <1>3, HasSome
    <3> QED
      BY <2>6, <3>2, <3>3
  <2>8. L \in Lines /\ M \in Lines /\ max \in Nat /\ last \in Nat
    BY <1>3, <1>5, <1>6
  <2>9. \A q \in 1..5 : q # p => Alike(L[q], M[q], i)
    BY <1>7
  <2>10. k \in Nat \ {0} /\ k <= max
    BY <1>5
  <2>11. InLine(M, i, max, miss) /\ Follows(rest, M, i, last, all, miss)
    <3>1. \A q \in 1..5 : q > p => \A n : ~Has(L[q], i, n)
      <4>1. \A q \in 1..5 : q > 4 => q = 5
        OBVIOUS
      <4> QED
        BY <2>5, <4>1
    <3>2. p \in {4, 5} /\ Gains(L[p], M[p], i, m, k)
      BY <2>4
    <3> HIDE DEF L, M, max, src, rest, last, all, m, k, p, miss
    <3>3. k <= max /\ k \in Nat \ {0} /\ m \in Nat
      BY <2>3, <2>10
    <3> QED
      BY ONLY <2>2, <2>6, <2>7, <2>8, <2>9, <3>1, <3>2, <3>3, LineFrom, SMTT(60)
  <2>12. InLine(Line(f)', i, Copies(i)', ShutOut(f, i)') /\ Follows(SourceOf(i)', Line(f)', i, given'[i], ~stopped', ShutOut(f, i)')
    BY <1>2, <1>5, <2>1, <2>11, MissesSame
  <2> QED
    BY <1>12, <2>12 DEF InItsLine
<1> QED
  BY <1>10, <1>11, <1>12

(* The entries that move on from stream to stream.                         *)
LEMMA EmitBypassLines ==
  ASSUME GraphTypeOK, InLines, EmitBypass
  PROVE  InLines'
<1> SUFFICES ASSUME NEW CONSTANT f \in Flows, NEW CONSTANT i \in Inputs
             PROVE  InItsLine(f, i)'
  BY DEF InLines
<1>1. /\ GraphTypeOK' /\ Cargo(bypass) # <<>>
      /\ Cargo(hub') = Append(Cargo(hub), Head(Cargo(bypass)))
      /\ Cargo(bypass') = Tail(Cargo(bypass))
  BY EmitBypassType
<1>2. UNCHANGED <<given, stream, disk, pauses, stopped, taken, filter, world, marked>>
  BY DEF EmitBypass, inputSide, flowSide
<1>3. InItsLine(f, i)
  BY DEF InLines
<1> DEFINE p == 4
<1>4. /\ Line(f)[p + 1] # <<>> /\ Line(f)'[p + 1] = Tail(Line(f)[p + 1])
      /\ Line(f)'[p] = Append(Line(f)[p], Head(Line(f)[p + 1]))
      /\ \A q \in 1..5 : q \notin {p, p + 1} => Line(f)'[q] = Line(f)[q]
  <2>1. /\ Line(f)[5] # <<>> /\ Line(f)'[5] = Tail(Line(f)[5])
        /\ Line(f)'[4] = Append(Line(f)[4], Head(Line(f)[5]))
    BY <1>1, <1>2, PlacesNow, PlacesNext
  <2>2. /\ Line(f)'[1] = Line(f)[1] /\ Line(f)'[2] = Line(f)[2]
        /\ Line(f)'[3] = Line(f)[3]
    BY <1>1, <1>2, PlacesNow, PlacesNext
  <2>3. \A q \in 1..5 : q \notin {4, 5} => q = 1 \/ q = 2 \/ q = 3
    OBVIOUS
  <2>4. \A q \in 1..5 : q \notin {4, 5} => Line(f)'[q] = Line(f)[q]
    BY <2>2, <2>3
  <2> QED
    BY <2>1, <2>4
<1>5. p \in 1..4 /\ p # 2
  OBVIOUS
<1>6. \A q \in 1..5 : q \notin {p, p + 1} => Alike(Line(f)[q], Line(f)'[q], i)
  BY <1>4, AlikeItself
<1> HIDE DEF p
<1> QED
  BY <1>1, <1>2, <1>3, <1>4, <1>5, <1>6, MovesOn DEF MoreMarked

LEMMA EmitHubLines ==
  ASSUME GraphTypeOK, InLines, EmitHub
  PROVE  InLines'
<1> SUFFICES ASSUME NEW CONSTANT f \in Flows, NEW CONSTANT i \in Inputs
             PROVE  InItsLine(f, i)'
  BY DEF InLines
<1>1. /\ GraphTypeOK' /\ Cargo(hub) # <<>>
      /\ Cargo(hub') = Tail(Cargo(hub))
      /\ filter'[f].queue = filter[f].queue
      /\ EntriesOf(filter'[f].writes) = Append(EntriesOf(filter[f].writes), Head(Cargo(hub)))
  BY EmitHubType
<1>2. UNCHANGED <<given, stream, disk, pauses, stopped, taken, bypass, world, marked>>
  BY DEF EmitHub, inputSide
<1>3. InItsLine(f, i)
  BY DEF InLines
<1> DEFINE p == 3
<1>4. /\ Line(f)[p + 1] # <<>> /\ Line(f)'[p + 1] = Tail(Line(f)[p + 1])
      /\ Line(f)'[p] = Append(Line(f)[p], Head(Line(f)[p + 1]))
      /\ \A q \in 1..5 : q \notin {p, p + 1} => Line(f)'[q] = Line(f)[q]
  <2>1. /\ Line(f)[4] # <<>> /\ Line(f)'[4] = Tail(Line(f)[4])
        /\ Line(f)'[3] = Append(Line(f)[3], Head(Line(f)[4]))
    BY <1>1, <1>2, PlacesNow, PlacesNext
  <2>2. /\ Line(f)'[1] = Line(f)[1] /\ Line(f)'[2] = Line(f)[2]
        /\ Line(f)'[5] = Line(f)[5]
    BY <1>1, <1>2, PlacesNow, PlacesNext
  <2>3. \A q \in 1..5 : q \notin {3, 4} => q = 1 \/ q = 2 \/ q = 5
    OBVIOUS
  <2>4. \A q \in 1..5 : q \notin {3, 4} => Line(f)'[q] = Line(f)[q]
    BY <2>2, <2>3
  <2> QED
    BY <2>1, <2>4
<1>5. p \in 1..4 /\ p # 2
  OBVIOUS
<1>6. \A q \in 1..5 : q \notin {p, p + 1} => Alike(Line(f)[q], Line(f)'[q], i)
  BY <1>4, AlikeItself
<1> HIDE DEF p
<1> QED
  BY <1>1, <1>2, <1>3, <1>4, <1>5, <1>6, MovesOn DEF MoreMarked

(* A flow drops an entry that it is shut out of.                           *)
LEMMA DropsOut ==
  ASSUME GraphTypeOK, GraphTypeOK', NEW CONSTANT f \in Flows, NEW CONSTANT i \in Inputs, InItsLine(f, i),
         UNCHANGED <<given, stream, disk, pauses, stopped, world, marked>>,
         Line(f)[3] # <<>>, Line(f)'[3] = Tail(Line(f)[3]), IsRaw(Head(Line(f)[3]), i),
         i \in From[f], Head(Line(f)[3]).n \in ShutOut(f, i),
         \A q \in 1..5 : q # 3 => Alike(Line(f)[q], Line(f)'[q], i)
  PROVE  InItsLine(f, i)'
<1> DEFINE L == Line(f)
           M == Line(f)'
           x == Head(L[3])
           m == x.n
           c == Copies(i)
           src == SourceOf(i)
           last == given[i]
           all == ~stopped
           miss == ShutOut(f, i)
<1>1. L \in Lines /\ M \in Lines /\ c \in Nat
  BY PlacesNow, PlacesNext, CopiesType
<1>2. InLine(L, i, c, miss) /\ Follows(src, L, i, last, all, miss)
  BY DEF InItsLine
<1>3. L[3] # <<>> /\ M[3] = Tail(L[3]) /\ IsRaw(Head(L[3]), i) /\ m \in miss
      /\ \A q \in 1..5 : q # 3 => Alike(L[q], M[q], i)
  OBVIOUS
<1>4. /\ Copies(i)' = c /\ SourceOf(i)' = src /\ ShutOut(f, i)' = miss
      /\ given'[i] = last /\ (~stopped') = all
  BY MissesSame DEF Copies, SourceOf
<1>5. L[3] \in Seq(Entry)
  BY <1>1 DEF Lines
<1> HIDE DEF L, M, c, src, last, all, miss
<1>6. Loses(L[3], M[3], i, m)
  BY <1>3, <1>5, DropRaw
<1>7. /\ InLine(M, i, c, miss)
      /\ \A n : /\ Before(M, i, n, 5) => Before(L, i, n, 5)
                /\ Before(L, i, n, 5) => Before(M, i, n, 5) \/ n \in miss
  <2> DEFINE p == 3
  <2>1. p \in 1..5 /\ Loses(L[p], M[p], i, m)
        /\ \A q \in 1..5 : q # p => Alike(L[q], M[q], i)
    BY <1>3, <1>6
  <2> HIDE DEF p, m
  <2> QED
    BY <1>1, <1>2, <1>3, <2>1, LineDrop
<1>8. Follows(src, M, i, last, all, miss)
  <2>1. Climbing(src, i)
    BY <1>2 DEF Follows
  <2> QED
    BY <1>2, <1>7, <2>1, FollowsSame
<1>9. /\ InLine(Line(f)', i, Copies(i)', ShutOut(f, i)')
      /\ Follows(SourceOf(i)', Line(f)', i, given'[i], ~stopped', ShutOut(f, i)')
  BY <1>4, <1>7, <1>8 DEF M
<1> QED
  BY <1>9 DEF InItsLine

LEMMA FilterWriteLines ==
  ASSUME GraphTypeOK, PassedSelected, InLines, NEW CONSTANT g \in Flows, FilterWrite(g)
  PROVE  InLines'
<1> SUFFICES ASSUME NEW CONSTANT f \in Flows, NEW CONSTANT i \in Inputs
             PROVE  InItsLine(f, i)'
  BY DEF InLines
<1> DEFINE w == EntriesOf(filter[g].writes)
           x == Head(w)
           in == Lets(g)
           ends == /\ EntriesOf(filter'[g].writes) = Tail(w)
                   /\ filter'[g].queue = IF in THEN Append(filter[g].queue, x) ELSE filter[g].queue
           stays == filter'[g].writes = filter[g].writes /\ filter'[g].queue = filter[g].queue
<1>1. /\ GraphTypeOK' /\ w # <<>> /\ x \in Entry
      /\ in <=> filter[g].passed \/ Matches(g, x)
      /\ ends \/ stays
      /\ \A h \in Flows : h # g => filter'[h] = filter[h]
  BY FilterWriteType
<1>2. UNCHANGED <<given, stream, disk, pauses, stopped, taken, bypass, hub, world, marked>>
  BY DEF FilterWrite, inputSide
<1>3. InItsLine(f, i) /\ stopped' \in BOOLEAN
  BY <1>1 DEF InLines, GraphTypeOK
<1>4. \A q \in 1..5 : q = 1 \/ q = 2 \/ q = 3 \/ q = 4 \/ q = 5
  OBVIOUS
<1>5. CASE f # g \/ stays
  <2>1. \A q \in 1..5 : Line(f)'[q] = Line(f)[q]
    BY <1>1, <1>2, <1>4, <1>5, PlacesNow, PlacesNext
  <2>2. \A q \in 1..5 : Alike(Line(f)[q], Line(f)'[q], i)
    BY <2>1, AlikeItself
  <2>3. SourceOf(i)' = SourceOf(i) /\ Copies(i)' = Copies(i) /\ Copies(i) \in Nat
    BY <1>2, CopiesType DEF SourceOf, Copies
  <2>4. Copies(i) <= Copies(i)' /\ given'[i] = given[i] /\ (stopped => stopped')
    BY <1>2, <2>3
  <2> QED
    BY <1>1, <1>2, <1>3, <2>2, <2>3, <2>4, StaysInLine DEF MoreMarked
<1>6. CASE f = g /\ ends
  <2>1. IsRaw(x, i) => /\ in => i \in From[f]
                       /\ ~in /\ i \in From[f] => x.n \in ShutOut(f, i)
    <3>1. x.n \in Nat
      BY <1>1 DEF Entry
    <3>2. in => Selects(f, x)
      BY <1>1, <1>6 DEF PassedSelected, Matches
    <3> HIDE DEF x, w, in
    <3> QED
      BY <1>1, <1>6, <3>1, <3>2, RawMatches
  <2>2. /\ Line(f)[3] = w /\ Line(f)'[3] = Tail(w)
        /\ Line(f)'[2] = IF in THEN Append(Line(f)[2], x) ELSE Line(f)[2]
        /\ \A q \in 1..5 : q \notin {2, 3} => Line(f)'[q] = Line(f)[q]
    BY <1>1, <1>2, <1>4, <1>6, PlacesNow, PlacesNext
  <2>3. \A q \in 1..5 : q \notin {2, 3} => Alike(Line(f)[q], Line(f)'[q], i)
    BY <2>2, AlikeItself
  <2>4. CASE IsRaw(x, i) => in
    <3> DEFINE p == 2
    <3>1. p \in 1..4 /\ p + 1 = 3 /\ \A q \in 1..5 : q \notin {p, p + 1} => q \notin {2, 3}
      OBVIOUS
    <3>2. \/ Line(f)'[p] = Append(Line(f)[p], Head(Line(f)[p + 1]))
          \/ ~IsRaw(Head(Line(f)[p + 1]), i) /\ Line(f)'[p] = Line(f)[p]
      BY <2>2, <2>4
    <3>3. IsRaw(Head(Line(f)[p + 1]), i) => i \in From[f]
      BY <2>1, <2>2, <2>4
    <3>4. Line(f)[p + 1] # <<>> /\ Line(f)'[p + 1] = Tail(Line(f)[p + 1])
      <4> HIDE DEF p, w
      <4> QED
        BY <1>1, <2>2, <3>1
    <3>5. \A q \in 1..5 : q \notin {p, p + 1} => Alike(Line(f)[q], Line(f)'[q], i)
      BY <2>3, <3>1
    <3> HIDE DEF p, x, w, in
    <3> QED
      BY <1>1, <1>2, <1>3, <3>1, <3>2, <3>3, <3>4, <3>5, MovesOn DEF MoreMarked
  <2>5. CASE IsRaw(x, i) /\ ~in /\ i \notin From[f]
    BY <1>1, <1>2, <1>3, <1>6, <2>5, OthersTakeNone
  <2>6. CASE IsRaw(x, i) /\ ~in /\ i \in From[f]
    <3>1. \A q \in 1..5 : q # 3 => Alike(Line(f)[q], Line(f)'[q], i)
      BY <2>2, <2>3, <2>6, AlikeItself
    <3>2. /\ Line(f)[3] # <<>> /\ Line(f)'[3] = Tail(Line(f)[3]) /\ IsRaw(Head(Line(f)[3]), i)
          /\ i \in From[f] /\ Head(Line(f)[3]).n \in ShutOut(f, i)
      BY <1>1, <2>1, <2>2, <2>6
    <3> HIDE DEF x, w, in
    <3> QED
      BY <1>1, <1>2, <1>3, <3>1, <3>2, DropsOut
  <2> QED
    BY <2>4, <2>5, <2>6
<1> QED
  BY <1>1, <1>5, <1>6

(* What a transporter reemits carries a $$reemit.                          *)
LEMMA TakeNextLines ==
  ASSUME GraphTypeOK, InLines, NEW CONSTANT g \in Flows, TakeNext(g)
  PROVE  InLines'
<1> SUFFICES ASSUME NEW CONSTANT f \in Flows, NEW CONSTANT i \in Inputs
             PROVE  InItsLine(f, i)'
  BY DEF InLines
<1>1. /\ GraphTypeOK'
      /\ filter[g].queue # <<>> /\ Head(filter[g].queue) \in Entry
      /\ taken'[g] = Append(taken[g], Head(filter[g].queue))
      /\ filter'[g].queue = Tail(filter[g].queue)
      /\ \A h \in Flows : h # g => taken'[h] = taken[h] /\ filter'[h].queue = filter[h].queue
      /\ marked \subseteq marked'
      /\ \E x \in Entry :
              /\ x.to # ToNone
              /\ Cargo(hub') = Cargo(hub) \/ Cargo(hub') = Append(Cargo(hub), x)
              /\ \A h \in Flows :
                   \/ EntriesOf(filter'[h].writes) = EntriesOf(filter[h].writes)
                   \/ EntriesOf(filter'[h].writes) = Append(EntriesOf(filter[h].writes), x)
  BY TakeNextType
<1>2. UNCHANGED <<given, stream, disk, pauses, stopped, bypass, world>>
  BY DEF TakeNext, inputSide
<1>3. InItsLine(f, i) /\ stopped' \in BOOLEAN
  BY <1>1 DEF InLines, GraphTypeOK
<1>4. \A q \in 1..5 : q = 1 \/ q = 2 \/ q = 3 \/ q = 4 \/ q = 5
  OBVIOUS
<1>5. Line(f) \in Lines
  BY PlacesNow
<1>6. \A q \in 3..5 : Alike(Line(f)[q], Line(f)'[q], i)
  <2>1. PICK x \in Entry :
          /\ x.to # ToNone
          /\ Cargo(hub') = Cargo(hub) \/ Cargo(hub') = Append(Cargo(hub), x)
          /\ \/ EntriesOf(filter'[f].writes) = EntriesOf(filter[f].writes)
             \/ EntriesOf(filter'[f].writes) = Append(EntriesOf(filter[f].writes), x)
    BY <1>1
  <2>2. ~IsRaw(x, i)
    BY <2>1 DEF IsRaw
  <2> SUFFICES ASSUME NEW q \in 3..5
               PROVE  Alike(Line(f)[q], Line(f)'[q], i)
    OBVIOUS
  <2>3. Line(f)'[q] = Line(f)[q] \/ Line(f)'[q] = Append(Line(f)[q], x)
    BY <1>1, <1>2, <2>1, PlacesNow, PlacesNext
  <2>4. Line(f)[q] \in Seq(Entry)
    BY <1>5 DEF Lines
  <2> QED
    BY <2>2, <2>3, <2>4, AppendOther, AlikeItself
<1>7. CASE f # g
  <2>1. \A q \in 1..2 : Line(f)'[q] = Line(f)[q]
    BY <1>1, <1>7, PlacesNow, PlacesNext
  <2>2. \A q \in 1..5 : Alike(Line(f)[q], Line(f)'[q], i)
    BY <1>4, <1>6, <2>1, AlikeItself
  <2>3. SourceOf(i)' = SourceOf(i) /\ Copies(i)' = Copies(i) /\ Copies(i) \in Nat
    BY <1>2, CopiesType DEF SourceOf, Copies
  <2>4. Copies(i) <= Copies(i)' /\ given'[i] = given[i] /\ (stopped => stopped')
    BY <1>2, <2>3
  <2> QED
    BY <1>1, <1>2, <1>3, <2>2, <2>3, <2>4, StaysInLine DEF MoreMarked
<1>8. CASE f = g
  <2> DEFINE p == 1
  <2>1. /\ Line(f)[p + 1] # <<>> /\ Line(f)'[p + 1] = Tail(Line(f)[p + 1])
        /\ Line(f)'[p] = Append(Line(f)[p], Head(Line(f)[p + 1]))
    <3>1. p = 1 /\ p + 1 = 2
      OBVIOUS
    <3> HIDE DEF p
    <3> QED
      BY <1>1, <1>8, <3>1, PlacesNow, PlacesNext
  <2>2. p \in 1..4 /\ p # 2
    OBVIOUS
  <2>3. \A q \in 1..5 : q \notin {p, p + 1} => Alike(Line(f)[q], Line(f)'[q], i)
    BY <1>6
  <2> HIDE DEF p
  <2> QED
    BY <1>1, <1>2, <1>3, <2>1, <2>2, <2>3, MovesOn DEF MoreMarked
<1> QED
  BY <1>7, <1>8

(* The next process truncates what queueStream leaves: only once stopped.  *)
LEMMA CloseQueueLines ==
  ASSUME GraphTypeOK, InLines, CloseQueue
  PROVE  InLines'
<1> SUFFICES ASSUME NEW CONSTANT f \in Flows, NEW CONSTANT i \in Inputs
             PROVE  InItsLine(f, i)'
  BY DEF InLines
<1>1. GraphTypeOK' /\ \E k \in 0..Len(disk) : disk' = SubSeq(disk, 1, k)
  BY CloseQueueType
<1>2. UNCHANGED <<given, stream, bypass, hub, taken, filter, pauses, stopped, world, marked>> /\ stopped
  BY DEF CloseQueue, flowSide
<1>3. InItsLine(f, i) /\ disk \in Seq(Entry)
  BY DEF InLines, GraphTypeOK
<1>4. CASE i \notin From[f]
  BY <1>2, <1>3, <1>4, OthersTakeNone
<1>5. CASE i \in From[f]
  <2> DEFINE L == Line(f)
             last == given[i]
             all == ~stopped
             miss == ShutOut(f, i)
  <2>1. InLine(L, i, Copies(i), miss) /\ Follows(SourceOf(i), L, i, last, all, miss)
    BY <1>3, <1>5 DEF InItsLine
  <2>2. Follows(SourceOf(i)', L, i, last, FALSE, miss)
    <3>1. CASE i \in PullInputs
      <4>1. SourceOf(i)' = SourceOf(i) /\ all = FALSE
        BY <1>2, <3>1 DEF SourceOf
      <4> QED
        BY <2>1, <4>1
    <3>2. CASE i \notin PullInputs
      <4>1. PICK k \in 0..Len(disk) : disk' = SubSeq(disk, 1, k)
        BY <1>1
      <4>2. SourceOf(i) = disk /\ SourceOf(i)' = SubSeq(disk, 1, k)
        BY <3>2, <4>1 DEF SourceOf
      <4>3. Follows(disk, L, i, last, all, miss)
        BY <2>1, <4>2
      <4>4. Follows(SubSeq(disk, 1, k), L, i, last, FALSE, miss)
        <5> HIDE DEF L, last, all, miss
        <5> QED
          BY <1>3, <4>3, FollowsForgotten
      <4> QED
        BY <4>2, <4>4
    <3> QED
      BY <3>1, <3>2
  <2>3. Line(f)' = L /\ Copies(i)' = Copies(i) /\ given'[i] = last /\ (~stopped') = FALSE
        /\ ShutOut(f, i)' = miss
    BY <1>2, LineSame, MissesSame DEF Copies
  <2>4. InLine(Line(f)', i, Copies(i)', ShutOut(f, i)') /\ Follows(SourceOf(i)', Line(f)', i, given'[i], ~stopped', ShutOut(f, i)')
    BY <2>1, <2>2, <2>3
  <2> QED
    BY <1>5, <2>4 DEF InItsLine
<1> QED
  BY <1>4, <1>5

(***************************************************************************)
(* The invariant.                                                          *)
(***************************************************************************)

LEMMA InitGraphInv ==
  ASSUME GraphInit
  PROVE  GraphInv
<1>1. /\ world \in Worlds /\ given = [i \in Inputs |-> 0]
      /\ stream = [i \in PullInputs |-> Piped] /\ disk = <<>>
      /\ bypass = Bypass /\ hub = Bypass /\ filter = [f \in Flows |-> Filter]
      /\ waiting = {} /\ full = {} /\ work = [f \in Flows |-> {}] /\ marked = {}
      /\ paused = FALSE /\ pauses = 0 /\ stopped = FALSE
      /\ taken = [f \in Flows |-> <<>>]
  BY DEF GraphInit
<1>2. Piped \in Streams /\ Piped.buf = <<>> /\ Piped.pipes = 1 /\ Piped.listens = FALSE
  BY EmptySeq DEF Piped, Streams
<1>3. Filter \in Filters /\ Filter.queue = <<>> /\ Filter.writes = <<>> /\ Filter.passed = FALSE
  BY EmptySeq DEF Filter, Filters
<1>4. GraphTypeOK
  <2>1. given \in [Inputs -> Nat] /\ \A i \in Inputs : given[i] <= world.most[i]
    <3>1. \A i \in Inputs : world.most[i] \in Nat /\ given[i] = 0
      BY <1>1, WorldType
    <3>2. \A n \in Nat : 0 <= n
      OBVIOUS
    <3>3. given \in [Inputs -> Nat]
      BY <1>1
    <3> QED
      BY <3>1, <3>2, <3>3
  <2>2. /\ stream \in [PullInputs -> Streams]
        /\ \A i \in PullInputs : Len(stream[i].buf) <= MaxPending
    BY <1>1, <1>2, Limits
  <2>3. disk \in Seq(Entry)
    BY <1>1, EmptySeq
  <2>4. BypassTypeOK(bypass) /\ BypassTypeOK(hub)
    BY <1>1, CargoEmpty
  <2>5. /\ filter \in [Flows -> Filters]
        /\ \A f \in Flows : Len(filter[f].queue) <= FilterMAX
    <3>1. FilterMAX \in Nat \ {0}
      BY <1>1, WorldType DEF FilterMAX
    <3> QED
      BY <1>1, <1>3, <3>1
  <2>6. /\ work \in [Flows -> SUBSET Entry]
        /\ \A f \in Flows : \A d, e \in work[f] : d = e
        /\ marked \subseteq Entry
    BY <1>1
  <2>7. taken \in [Flows -> Seq(Entry)]
    BY <1>1, EmptySeq
  <2>8. waiting \subseteq Sources /\ full \subseteq Flows
    BY <1>1
  <2>9. pauses \in 0..MaxPauses /\ {paused, stopped} \subseteq BOOLEAN
    <3>1. MaxPauses \in Nat
      BY BoundsAssumption
    <3>2. 0 \in 0..MaxPauses
      BY <3>1
    <3> QED
      BY <1>1, <3>2
  <2> QED
    BY <1>1, <2>1, <2>2, <2>3, <2>4, <2>5, <2>6, <2>7, <2>8, <2>9 DEF GraphTypeOK
<1>5. PipesInPlace
  BY <1>1, <1>2 DEF PipesInPlace
<1>6. OwnEntries
  <2>1. /\ \A i \in PullInputs : stream[i].buf = <<>>
        /\ Cargo(bypass) = <<>> /\ disk = <<>>
    BY <1>1, <1>2, CargoEmpty
  <2>2. Len(<<>>) = 0
    OBVIOUS
  <2> QED
    BY <2>1, <2>2 DEF OwnEntries
<1>7. InLines
  <2> SUFFICES ASSUME NEW f \in Flows, NEW i \in Inputs
               PROVE  InItsLine(f, i)
    BY DEF InLines
  <2> DEFINE L == Line(f)
             max == Copies(i)
  <2>1. \A p \in 1..5 : L[p] = <<>>
    <3>1. \A p \in 1..5 : p = 1 \/ p = 2 \/ p = 3 \/ p = 4 \/ p = 5
      OBVIOUS
    <3>2. taken[f] = <<>> /\ filter[f].queue = <<>> /\ filter[f].writes = <<>>
      BY <1>1, <1>3
    <3>3. L[1] = <<>> /\ L[2] = <<>> /\ L[3] = <<>> /\ L[4] = <<>> /\ L[5] = <<>>
      BY <1>1, <1>4, <3>2, PlacesNow, CargoEmpty, EntriesEmpty
    <3> QED
      BY <3>1, <3>3
  <2>2. max \in Nat
    BY <1>4, CopiesType
  <2>3. SourceOf(i) = <<>> /\ given[i] = 0
    BY <1>1, <1>2 DEF SourceOf
  <2>4. Rising(<<>>, i) /\ Climbing(<<>>, i)
    <3>1. Len(<<>>) = 0
      OBVIOUS
    <3> QED
      BY <3>1 DEF Rising, Climbing
  <2>5. \A n : ~Has(<<>>, i, n) /\ TimesIn(<<>>, i, n) = 0
    BY HasNone, TimesEmpty
  <2> HIDE DEF L, max
  <2>6. \A n : ~Before(L, i, n, 5)
    BY <2>1, <2>5 DEF Before
  <2>7. \A n \in Nat : Times(L, i, n) <= max
    <3> SUFFICES ASSUME NEW n \in Nat
                 PROVE  Times(L, i, n) <= max
      OBVIOUS
    <3>1. Times(L, i, n) = 0 + 0 + 0 + 0 + 0
      BY <2>1, <2>5 DEF Times
    <3> QED
      BY <2>2, <3>1
  <2>8. InLine(L, i, max, ShutOut(f, i))
    BY <2>1, <2>4, <2>5, <2>7 DEF InLine
  <2>9. Follows(<<>>, L, i, 0, ~stopped, ShutOut(f, i))
    BY <2>4, <2>5, <2>6 DEF Follows
  <2>10. /\ InLine(Line(f), i, Copies(i), ShutOut(f, i))
         /\ Follows(SourceOf(i), Line(f), i, given[i], ~stopped, ShutOut(f, i))
    BY <2>3, <2>8, <2>9 DEF L, max
  <2>11. \A n \in Nat : ~Has(taken[f], i, n) /\ ~Has(filter[f].queue, i, n)
    BY <1>1, <1>3, <2>5
  <2> QED
    BY <2>10, <2>11 DEF InItsLine
<1>8. PassedSelected
  BY <1>1, <1>3 DEF PassedSelected
<1> QED
  BY <1>4, <1>5, <1>6, <1>7, <1>8 DEF GraphInv

LEMMA TypeInvariant ==
  ASSUME GraphTypeOK, PipesInPlace, GraphNext
  PROVE  GraphTypeOK'
<1>1. ASSUME NEW i \in PullInputs, Answer(i) \/ EmitPull(i) PROVE GraphTypeOK'
  BY <1>1, AnswerType, EmitPullType
<1>2. ASSUME NEW i \in PushInputs, Receive(i) PROVE GraphTypeOK'
  BY <1>2, ReceiveType
<1>3. ASSUME Pause \/ Resume \/ Stop \/ CloseQueue PROVE GraphTypeOK'
  BY <1>3, PauseType, ResumeType, StopType, CloseQueueType
<1>4. ASSUME EmitBypass \/ EmitQueue \/ EmitHub PROVE GraphTypeOK'
  BY <1>4, EmitBypassType, EmitQueueType, EmitHubType
<1>5. ASSUME DrainBypass \/ DrainHub PROVE GraphTypeOK'
  BY <1>5, DrainBypassType, DrainHubType
<1>6. ASSUME NEW f \in Flows, DrainFilter(f) \/ FilterWrite(f) \/ TakeNext(f)
      PROVE  GraphTypeOK'
  BY <1>6, DrainFilterType, FilterWriteType, TakeNextType
<1> QED
  BY <1>1, <1>2, <1>3, <1>4, <1>5, <1>6 DEF GraphNext

(* What awaits room stays first until its write ends.                      *)
LEMMA PassedKept ==
  ASSUME GraphTypeOK, PassedSelected,
         \A f \in Flows :
           /\ filter'[f].passed = filter[f].passed
           /\ \/ EntriesOf(filter'[f].writes) = EntriesOf(filter[f].writes)
              \/ \E x \in Entry :
                   EntriesOf(filter'[f].writes) = Append(EntriesOf(filter[f].writes), x)
  PROVE  PassedSelected'
<1> SUFFICES ASSUME NEW CONSTANT f \in Flows, filter'[f].passed
             PROVE  /\ filter'[f].writes # <<>>
                    /\ Selects(f, Head(EntriesOf(filter'[f].writes)))
  BY DEF PassedSelected, Selects
<1> DEFINE v == EntriesOf(filter[f].writes)
           w == EntriesOf(filter'[f].writes)
<1>1. filter[f].passed /\ filter[f].writes \in Seq(Chunk)
  BY FilterFields DEF GraphTypeOK
<1>2. filter[f].writes # <<>> /\ Selects(f, Head(v))
  BY <1>1 DEF PassedSelected
<1>3. v \in Seq(Entry) /\ v # <<>>
  BY <1>1, <1>2, EntriesType, EntriesTail
<1>4. w = v \/ \E x \in Entry : w = Append(v, x)
  OBVIOUS
<1>5. w # <<>> => filter'[f].writes # <<>>
  BY EntriesEmpty
<1> HIDE DEF v, w
<1>6. w # <<>> /\ Head(w) = Head(v)
  BY <1>3, <1>4
<1> QED
  BY <1>2, <1>5, <1>6 DEF w

LEMMA PassedInvariant ==
  ASSUME GraphTypeOK, PassedSelected, GraphNext
  PROVE  PassedSelected'
<1>1. ASSUME UNCHANGED filter PROVE PassedSelected'
  BY <1>1 DEF PassedSelected, Selects
<1>2. CASE EmitHub
  <2>1. \A f \in Flows : /\ filter'[f].passed = filter[f].passed
                         /\ \E x \in Entry : EntriesOf(filter'[f].writes)
                                               = Append(EntriesOf(filter[f].writes), x)
    BY <1>2, EmitHubType
  <2> QED
    BY <2>1, PassedKept
<1>3. ASSUME NEW g \in Flows, DrainFilter(g) PROVE PassedSelected'
  BY <1>3, DrainFilterType, PassedKept
<1>4. ASSUME NEW g \in Flows, FilterWrite(g) PROVE PassedSelected'
  <2> DEFINE w == EntriesOf(filter[g].writes)
  <2>1. /\ w # <<>>
        /\ Lets(g) <=> filter[g].passed \/ Matches(g, Head(w))
        /\ \A h \in Flows : h # g => filter'[h] = filter[h]
        /\ ~filter'[g].passed \/ (Lets(g) /\ filter'[g].writes = filter[g].writes)
    BY <1>4, FilterWriteType
  <2>2. filter[g].writes # <<>> /\ (Lets(g) => Selects(g, Head(w)))
    BY <1>4, <2>1 DEF PassedSelected, Matches, FilterWrite, MayWrite
  <2> HIDE DEF w
  <2>3. ASSUME NEW CONSTANT f \in Flows, filter'[f].passed
        PROVE  /\ filter'[f].writes # <<>>
               /\ Selects(f, Head(EntriesOf(filter'[f].writes)))
    <3>1. CASE f = g
      BY <2>1, <2>2, <2>3, <3>1 DEF w
    <3>2. CASE f # g
      BY <2>1, <2>3, <3>2 DEF PassedSelected
    <3> QED
      BY <3>1, <3>2
  <2> QED
    BY <2>3 DEF PassedSelected, Selects
<1>5. ASSUME NEW g \in Flows, TakeNext(g) PROVE PassedSelected'
  BY <1>5, TakeNextType, PassedKept
<1>6. ASSUME NEW i \in PullInputs, Answer(i) \/ EmitPull(i) PROVE PassedSelected'
  BY <1>1, <1>6 DEF Answer, EmitPull, flowSide
<1>7. ASSUME NEW i \in PushInputs, Receive(i) PROVE PassedSelected'
  BY <1>1, <1>7 DEF Receive, flowSide
<1>8. ASSUME Pause \/ Resume \/ Stop \/ CloseQueue \/ EmitBypass \/ EmitQueue PROVE PassedSelected'
  BY <1>1, <1>8 DEF Pause, Resume, Stop, CloseQueue, EmitBypass, EmitQueue, flowSide
<1>9. ASSUME DrainBypass \/ DrainHub PROVE PassedSelected'
  BY <1>1, <1>9 DEF DrainBypass, DrainHub, flowSide
<1> QED
  BY <1>2, <1>3, <1>4, <1>5, <1>6, <1>7, <1>8, <1>9 DEF GraphNext

LEMMA LinesInvariant ==
  ASSUME GraphTypeOK, PassedSelected, PipesInPlace, OwnEntries, InLines, GraphNext
  PROVE  InLines'
<1>0. GraphTypeOK'
  BY TypeInvariant
<1>1. ASSUME NEW CONSTANT i \in PullInputs, Answer(i) \/ EmitPull(i) PROVE InLines'
  BY <1>1, AnswerLines, EmitPullLines
<1>2. ASSUME NEW CONSTANT i \in PushInputs, Receive(i) PROVE InLines'
  BY <1>2, ReceiveLines
<1>3. ASSUME Pause \/ Resume \/ Stop PROVE InLines'
  <2>1. UNCHANGED <<disk, bypass, hub, filter, taken, given, world, marked>> /\ pauses <= pauses'
        /\ (stopped => stopped')
    <3>1. UNCHANGED <<disk, bypass, hub, filter, taken, given, world, marked>> /\ (stopped => stopped')
      BY <1>3 DEF Pause, Resume, Stop, flowSide
    <3>2. pauses' = pauses \/ pauses' = pauses + 1
      BY <1>3 DEF Pause, Resume, Stop
    <3>3. pauses \in Nat
      BY BoundsAssumption DEF GraphTypeOK
    <3>4. pauses <= pauses'
      BY <3>2, <3>3
    <3> QED
      BY <3>1, <3>4
  <2>2. \A i \in PullInputs : stream'[i].buf = stream[i].buf
    BY <1>3, PauseType, ResumeType, StopType
  <2> QED
    BY <1>0, <2>1, <2>2, NothingMoves DEF MoreMarked
<1>4. CASE CloseQueue
  BY <1>4, CloseQueueLines
<1>5. ASSUME EmitBypass \/ EmitQueue \/ EmitHub PROVE InLines'
  BY <1>5, EmitBypassLines, EmitQueueLines, EmitHubLines
<1>6. CASE DrainBypass
  <2>1. UNCHANGED <<disk, hub, filter, taken, given, pauses, stopped, world, marked>>
    BY <1>6 DEF DrainBypass, flowSide
  <2>2. /\ Cargo(bypass') = Cargo(bypass)
        /\ \A i \in PullInputs : stream'[i].buf = stream[i].buf
    BY <1>6, DrainBypassType
  <2>3. pauses <= pauses'
    BY <2>1, BoundsAssumption DEF GraphTypeOK
  <2> QED
    BY <1>0, <2>1, <2>2, <2>3, NothingMoves DEF MoreMarked
<1>7. CASE DrainHub
  <2>1. UNCHANGED <<stream, disk, bypass, filter, taken, given, pauses, stopped, world, marked>>
    BY <1>7 DEF DrainHub, inputSide, flowSide
  <2>2. Cargo(hub') = Cargo(hub)
    BY <1>7, DrainHubType
  <2>3. pauses <= pauses'
    BY <2>1, BoundsAssumption DEF GraphTypeOK
  <2> QED
    BY <1>0, <2>1, <2>2, <2>3, NothingMoves DEF MoreMarked
<1>8. ASSUME NEW CONSTANT f \in Flows, DrainFilter(f) PROVE InLines'
  <2>1. UNCHANGED <<stream, disk, bypass, hub, taken, given, pauses, stopped, world, marked>>
    BY <1>8 DEF DrainFilter, inputSide, flowSide
  <2>2. \A g \in Flows : filter'[g].writes = filter[g].writes
                         /\ filter'[g].queue = filter[g].queue
    BY <1>8, DrainFilterType
  <2>3. pauses <= pauses'
    BY <2>1, BoundsAssumption DEF GraphTypeOK
  <2> QED
    BY <1>0, <2>1, <2>2, <2>3, NothingMoves DEF MoreMarked
<1>9. ASSUME NEW CONSTANT f \in Flows, FilterWrite(f) \/ TakeNext(f) PROVE InLines'
  BY <1>9, FilterWriteLines, TakeNextLines
<1> QED
  BY <1>1, <1>2, <1>3, <1>4, <1>5, <1>6, <1>7, <1>8, <1>9 DEF GraphNext

LEMMA NextGraphInv ==
  ASSUME GraphInv, [Next]_vars
  PROVE  GraphInv'
<1>1. CASE GraphNext
  BY <1>1, TypeInvariant, PassedInvariant, PipesInvariant, OwnInvariant, LinesInvariant DEF GraphInv
<1>2. CASE UNCHANGED graphVars
  <2>1. UNCHANGED <<world, given, stream, disk, bypass, hub, filter, waiting, full, work,
                    marked, paused, pauses, stopped, taken>>
    BY <1>2 DEF graphVars, inputSide, flowSide
  <2>2. GraphTypeOK'
    BY <2>1 DEF GraphInv, GraphTypeOK, FilterMAX, BypassTypeOK
  <2>3. PipesInPlace' /\ OwnEntries'
    BY <2>1, StreamsKeepPipes, SourcesKeepOwn DEF GraphInv
  <2>5. PassedSelected'
    BY <2>1 DEF GraphInv, PassedSelected, Selects
  <2>4. InLines'
    <3>1. pauses <= pauses'
      BY <2>1, BoundsAssumption DEF GraphInv, GraphTypeOK
    <3> QED
      BY <2>1, <2>2, <3>1, NothingMoves DEF GraphInv, MoreMarked
  <2> QED
    BY <2>2, <2>3, <2>4, <2>5 DEF GraphInv
<1> QED
  BY <1>1, <1>2 DEF Next, vars

(* What the graph keeps in every step: each flow has a line of its own of  *)
(* the entries of each input that it selects (nsyslog/index.js:271-290,    *)
(* filterstream.js:34-44, bypasstream.js:70-75).                           *)
THEOREM Invariance == Spec => []GraphInv
<1>1. Init => GraphInv
  BY InitGraphInv DEF Init
<1>2. GraphInv /\ [Next]_vars => GraphInv'
  BY NextGraphInv
<1> QED
  BY <1>1, <1>2, PTL DEF Spec

(* Every variable keeps its type: a stream holds the callback of a write   *)
(* exactly while it is at its mark, no queue outgrows its limit, and a flow*)
(* waits for one reemission (bypasstream.js:20-28, filterstream.js:22-44). *)
THEOREM TypeCorrect == Spec => []GraphTypeOK
<1>1. GraphInv => GraphTypeOK
  BY DEF GraphInv
<1> QED
  BY <1>1, Invariance, PTL

(* A flow takes the entries of each input in their order and skips none    *)
(* but those that its `when` shuts out, one reemitted to the inputs before *)
(* the flow filters it among them, as the mark is set on the object that   *)
(* all flows hold (reemiter.js:38-39, filterstream.js:34-44); it takes     *)
(* each at most once for the start and for every resume() of the wrapper,  *)
(* which pipes its stream again (wrapper.js:186-194, 255-263), whatever the*)
(* sizes of the buffers, the pauses, a stop and what is reemitted.         *)
THEOREM TakenInOrder == Spec => []InOrderNoneSkipped
<1>1. GraphInv => InOrderNoneSkipped
  <2> SUFFICES ASSUME GraphInv, NEW f \in Flows, NEW i \in Inputs
               PROVE  /\ Rising(taken[f], i)
                      /\ \A m \in 1..given[i] :
                           /\ Has(taken[f], i, m) =>
                                \A n \in 1..(m - 1) : Has(taken[f], i, n) \/ n \in ShutOut(f, i)
                           /\ TimesIn(taken[f], i, m) <= Copies(i)
    BY DEF InOrderNoneSkipped
  <2>1. GraphTypeOK /\ InItsLine(f, i)
    BY DEF GraphInv, InLines
  <2>2. Copies(i) \in Nat /\ taken[f] \in Seq(Entry) /\ given[i] \in Nat
    BY <2>1, CopiesType DEF GraphTypeOK
  <2>3. CASE i \in From[f]
    <3> DEFINE L == Line(f)
    <3>1. InLine(L, i, Copies(i), ShutOut(f, i)) /\ L \in Lines /\ L[1] = taken[f]
      BY <2>1, <2>3, PlacesNow DEF InItsLine
    <3> HIDE DEF L
    <3>2. Rising(L[1], i)
      BY <3>1 DEF InLine
    <3>3. ASSUME NEW m \in 1..given[i], Has(L[1], i, m),
                 NEW n \in 1..(m - 1), n \notin ShutOut(f, i)
          PROVE  Has(L[1], i, n)
      <4>1. Before(L, i, n, 1)
        BY <2>2, <3>1, <3>3 DEF InLine
      <4>2. \A q \in 1..1 : q = 1
        OBVIOUS
      <4> QED
        BY <4>1, <4>2 DEF Before
    <3>4. ASSUME NEW n \in 1..given[i]
          PROVE  TimesIn(L[1], i, n) <= Copies(i)
      <4> DEFINE t(q) == TimesIn(L[q], i, n)
      <4>1. t(1) \in Nat /\ t(2) \in Nat /\ t(3) \in Nat /\ t(4) \in Nat /\ t(5) \in Nat
        <5>1. \A q \in 1..5 : TimesIn(L[q], i, n) \in Nat
          BY <3>1, LineFacts
        <5> QED
          BY <5>1
      <4>2. Times(L, i, n) = t(1) + t(2) + t(3) + t(4) + t(5)
        BY DEF Times
      <4>3. Times(L, i, n) <= Copies(i)
        BY <2>2, <3>1 DEF InLine
      <4> HIDE DEF t
      <4>4. t(1) <= Copies(i)
        BY <2>2, <4>1, <4>2, <4>3
      <4> QED
        BY <4>4 DEF t
    <3> QED
      BY <3>1, <3>2, <3>3, <3>4
  <2>4. CASE i \notin From[f]
    <3>1. \A n \in Nat : ~Has(taken[f], i, n)
      BY <2>1, <2>4 DEF InItsLine
    <3>2. \A k \in 1..Len(taken[f]) : ~IsRaw(taken[f][k], i)
      BY <2>2, <3>1, HasSome
    <3>3. Rising(taken[f], i)
      BY <3>2 DEF Rising
    <3>4. \A n \in 1..given[i] : ~Has(taken[f], i, n) /\ TimesIn(taken[f], i, n) = 0
      BY <2>2, <3>1, HasAreTimes
    <3> QED
      BY <2>2, <3>3, <3>4
  <2> QED
    BY <2>3, <2>4
<1> QED
  BY <1>1, Invariance, PTL
=============================================================================
