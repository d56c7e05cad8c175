-------------------------- MODULE FileInput_proofs --------------------------
(***************************************************************************)
(* Proofs about FileInput, for any set of files, any block size, read mode *)
(* and start offset, any worlds, and any number of writes and processes.   *)
(***************************************************************************)
EXTENDS FileInput, Operators_proofs, FiniteSetTheorems, SequenceTheorems, TLAPS

(***************************************************************************)
(* The text of lines.                                                      *)
(***************************************************************************)

Texts(ls) == [k \in 1..Len(ls) |-> ls[k].text]

LEMMA TextsType ==
  ASSUME NEW ls \in Seq(Line)
  PROVE  /\ Texts(ls) \in Seq(Seq(Units)) /\ Len(Texts(ls)) = Len(ls)
         /\ \A k \in 1..Len(ls) : Texts(ls)[k] = ls[k].text
<1>1. Len(ls) \in Nat /\ \A k \in 1..Len(ls) : ls[k].text \in Seq(Units)
  <2>1. Len(ls) \in Nat /\ \A k \in 1..Len(ls) : ls[k] \in Line
    BY ElementOfSeq, LenProperties
  <2> QED
    BY <2>1 DEF Line
<1>2. Texts(ls) \in [1..Len(ls) -> Seq(Units)]
  BY <1>1 DEF Texts
<1>3. Texts(ls) \in Seq(Seq(Units))
  BY <1>1, <1>2, SeqDef
<1>4. DOMAIN Texts(ls) = 1..Len(ls)
  BY DEF Texts
<1>5. Len(Texts(ls)) = Len(ls)
  BY <1>1, <1>3, <1>4, LenProperties
<1> QED
  BY <1>3, <1>5 DEF Texts

LEMMA TextType ==
  ASSUME NEW ls \in Seq(Line)
  PROVE  Text(ls) \in Seq(Units)
BY TextsType, FlattenType DEF Text, Texts

LEMMA TextEmpty == Text(<<>>) = <<>>
<1>1. Texts(<<>>) = <<>>
  BY DEF Texts
<1> QED
  BY <1>1, FlattenEmpty DEF Text, Texts

(* The text of one more line comes last.                                   *)
LEMMA TextAppend ==
  ASSUME NEW ls \in Seq(Line), NEW x \in Line
  PROVE  Text(Append(ls, x)) = Text(ls) \o x.text
<1> DEFINE more == Append(ls, x)
<1>1. /\ more \in Seq(Line) /\ Len(more) = Len(ls) + 1 /\ Len(ls) \in Nat
      /\ \A k \in 1..Len(ls) : more[k] = ls[k]
      /\ more[Len(ls) + 1] = x /\ x.text \in Seq(Units)
  BY AppendProperties DEF Line
<1> HIDE DEF more
<1>2. /\ Texts(ls) \in Seq(Seq(Units)) /\ Len(Texts(ls)) = Len(ls)
      /\ \A k \in 1..Len(ls) : Texts(ls)[k] = ls[k].text
  BY TextsType
<1>3. /\ Texts(more) \in Seq(Seq(Units)) /\ Len(Texts(more)) = Len(more)
      /\ \A k \in 1..Len(more) : Texts(more)[k] = more[k].text
  BY <1>1, TextsType
<1> DEFINE joined == Append(Texts(ls), x.text)
<1>4. /\ joined \in Seq(Seq(Units)) /\ Len(joined) = Len(Texts(ls)) + 1
      /\ \A k \in 1..Len(Texts(ls)) : joined[k] = Texts(ls)[k]
      /\ joined[Len(Texts(ls)) + 1] = x.text
  BY <1>1, <1>2, AppendProperties
<1> HIDE DEF joined
<1>5. \A k \in 1..Len(joined) : Texts(more)[k] = joined[k]
  <2> SUFFICES ASSUME NEW k \in 1..Len(joined)
               PROVE  Texts(more)[k] = joined[k]
    OBVIOUS
  <2>1. Texts(more)[k] = more[k].text /\ (k \in 1..Len(ls) \/ k = Len(ls) + 1)
    BY <1>1, <1>2, <1>3, <1>4
  <2> QED
    BY <1>1, <1>2, <1>4, <2>1
<1>6. Texts(more) = joined
  <2>1. Len(Texts(more)) = Len(joined)
    BY <1>1, <1>2, <1>3, <1>4
  <2> QED
    BY <1>3, <1>4, <1>5, <2>1, SeqEqual
<1>7. FlattenSeq(joined) = FlattenSeq(Texts(ls)) \o x.text
  BY <1>1, <1>2, FlattenAppend DEF joined
<1> QED
  BY <1>6, <1>7 DEF Text, Texts, more

(* A sequence that is not empty is its front and its last element.         *)
LEMMA FrontLast ==
  ASSUME NEW T, NEW n \in Nat, NEW s \in Seq(T), Len(s) = n + 1
  PROVE  /\ SubSeq(s, 1, n) \in Seq(T) /\ Len(SubSeq(s, 1, n)) = n
         /\ s[n + 1] \in T /\ s = Append(SubSeq(s, 1, n), s[n + 1])
<1> DEFINE front == SubSeq(s, 1, n)
           x == s[n + 1]
<1>1. /\ front \in Seq(T) /\ Len(front) = n
      /\ \A i \in 1..n : front[i] = s[i]
  BY SubSeqProperties
<1>2. x \in T
  OBVIOUS
<1> HIDE DEF front, x
<1>3. /\ Append(front, x) \in Seq(T) /\ Len(Append(front, x)) = n + 1
      /\ \A i \in 1..n : Append(front, x)[i] = front[i]
      /\ Append(front, x)[n + 1] = x
  BY <1>1, <1>2, AppendProperties
<1>4. \A i \in 1..Len(s) : s[i] = Append(front, x)[i]
  BY <1>1, <1>3 DEF x
<1>5. s = Append(front, x)
  BY <1>3, <1>4, SeqEqual
<1> QED
  BY <1>1, <1>2, <1>5 DEF front, x

LEMMA ConcatAppend ==
  ASSUME NEW T, NEW a \in Seq(T), NEW b \in Seq(T), NEW x \in T
  PROVE  a \o Append(b, x) = Append(a \o b, x)
<1>1. Append(b, x) = b \o <<x>> /\ <<x>> \in Seq(T)
  BY AppendIsConcat
<1>2. Append(a \o b, x) = (a \o b) \o <<x>>
  BY ConcatProperties, AppendIsConcat
<1> QED
  BY <1>1, <1>2, ConcatAssociative

LEMMA UnitsAppend ==
  \A a, b \in Seq(Units), x \in Units : a \o Append(b, x) = Append(a \o b, x)
BY ConcatAppend

LEMMA LinesAppend ==
  \A a, b \in Seq(Line), x \in Line : a \o Append(b, x) = Append(a \o b, x)
BY ConcatAppend

LEMMA UnitsAssociative ==
  \A s, t, w \in Seq(Units) : (s \o t) \o w = s \o (t \o w)
BY SMTT(30), ConcatAssociative

(* The text of lines after lines.                                          *)
LEMMA TextConcat ==
  ASSUME NEW a \in Seq(Line), NEW b \in Seq(Line)
  PROVE  Text(a \o b) = Text(a) \o Text(b)
<1> DEFINE S == {n \in Nat : \A c \in Seq(Line) :
                   Len(c) = n => Text(a \o c) = Text(a) \o Text(c)}
<1>1. 0 \in S
  <2> SUFFICES ASSUME NEW c \in Seq(Line), Len(c) = 0
               PROVE  Text(a \o c) = Text(a) \o Text(c)
    OBVIOUS
  <2>1. c = <<>>
    OBVIOUS
  <2>2. a \o c = a
    BY <2>1, ConcatEmptySeq
  <2>3. Text(a) \o Text(c) = Text(a)
    BY <2>1, TextEmpty, TextType, ConcatEmptySeq
  <2> QED
    BY <2>2, <2>3
<1>2. ASSUME NEW n \in Nat, n \in S
      PROVE  n + 1 \in S
  <2> SUFFICES ASSUME NEW c \in Seq(Line), Len(c) = n + 1
               PROVE  Text(a \o c) = Text(a) \o Text(c)
    OBVIOUS
  <2> DEFINE front == SubSeq(c, 1, n)
             x == c[n + 1]
  <2>1. front \in Seq(Line) /\ Len(front) = n /\ x \in Line /\ c = Append(front, x)
    BY FrontLast
  <2> HIDE DEF front, x
  <2>2. Text(a \o front) = Text(a) \o Text(front)
    BY <1>2, <2>1
  <2>3. a \o c = Append(a \o front, x) /\ a \o front \in Seq(Line)
    BY <2>1, LinesAppend, ConcatProperties
  <2>4. Text(a \o c) = (Text(a) \o Text(front)) \o x.text
    <3>1. Text(Append(a \o front, x)) = Text(a \o front) \o x.text
      BY <2>1, <2>3, TextAppend
    <3> QED
      BY <2>2, <2>3, <3>1
  <2>5. Text(c) = Text(front) \o x.text
    BY <2>1, TextAppend
  <2>6. /\ Text(a) \in Seq(Units) /\ Text(front) \in Seq(Units)
        /\ x.text \in Seq(Units)
    BY <2>1, TextType DEF Line
  <2>7. (Text(a) \o Text(front)) \o x.text = Text(a) \o (Text(front) \o x.text)
    BY <2>6, UnitsAssociative
  <2> QED
    BY <2>4, <2>5, <2>7
<1> HIDE DEF S
<1>3. Len(b) \in Nat /\ Len(b) \in S
  BY <1>1, <1>2, Induction
<1> QED
  BY <1>3 DEF S

(***************************************************************************)
(* The split of what was read into lines.                                  *)
(***************************************************************************)

(* What the lines that `a` adds to `ls` are: numbered on, and with the new *)
(* tail the text `read`.                                                   *)
Splits(a, line, ls, read) ==
  \E new \in Seq(Line) :
    /\ a.lines = ls \o new /\ a.tail \in Seq(Units) /\ a.line = line + Len(new)
    /\ Text(new) \o a.tail = read
    /\ \A k \in 1..Len(new) : new[k].ln = line + k

LEMMA CutSplits ==
  ASSUME NEW line \in Nat, NEW ls \in Seq(Line), NEW read \in Seq(Units),
         NEW a, NEW u \in Units,
         a = [tail |-> a.tail, line |-> a.line, lines |-> a.lines],
         Splits(a, line, ls, read)
  PROVE  /\ Splits(Cut(a, u), line, ls, Append(read, u))
         /\ Cut(a, u) = [tail |-> Cut(a, u).tail, line |-> Cut(a, u).line,
                         lines |-> Cut(a, u).lines]
<1>1. PICK new \in Seq(Line) :
        /\ a.lines = ls \o new /\ a.tail \in Seq(Units) /\ a.line = line + Len(new)
        /\ Text(new) \o a.tail = read
        /\ \A k \in 1..Len(new) : new[k].ln = line + k
  BY DEF Splits
<1>2. Len(new) \in Nat /\ Text(new) \in Seq(Units) /\ a.line \in Nat
  BY <1>1, TextType
<1> DEFINE tail == Append(a.tail, u)
<1>3. tail \in Seq(Units) /\ Text(new) \o tail = Append(read, u)
  <2>1. a.tail \in Seq(Units) /\ Text(new) \in Seq(Units) /\ u \in Units
    BY <1>1, <1>2
  <2>2. Text(new) \o Append(a.tail, u) = Append(Text(new) \o a.tail, u)
    BY ONLY <2>1, UnitsAppend
  <2> QED
    BY <1>1, <2>1, <2>2
<1>4. CASE u \in ends
  <2> DEFINE x == [ln |-> a.line + 1, text |-> tail]
             more == Append(new, x)
  <2>1. x \in Line
    BY <1>2, <1>3 DEF Line
  <2>2. /\ more \in Seq(Line) /\ Len(more) = Len(new) + 1
        /\ \A k \in 1..Len(new) : more[k] = new[k]
        /\ more[Len(new) + 1] = x
    BY <2>1, AppendProperties
  <2>3. Cut(a, u) = [tail |-> <<>>, line |-> a.line + 1, lines |-> Append(a.lines, x)]
    BY <1>4 DEF Cut
  <2>4. Append(a.lines, x) = ls \o more
    <3> HIDE DEF x
    <3>1. ls \o Append(new, x) = Append(ls \o new, x)
      BY <2>1, LinesAppend
    <3> QED
      BY <1>1, <3>1
  <2>5. Text(more) = Append(read, u)
    <3>1. Text(more) = Text(new) \o x.text
      BY <2>1, TextAppend
    <3> QED
      BY <1>3, <3>1
  <2>6. Text(more) \o <<>> = Append(read, u) /\ <<>> \in Seq(Units)
    <3>1. Append(read, u) \in Seq(Units)
      OBVIOUS
    <3> HIDE DEF more
    <3> QED
      BY <2>5, <3>1, ConcatEmptySeq, EmptySeq
  <2>7. \A k \in 1..Len(more) : more[k].ln = line + k
    <3>1. x.ln = line + (Len(new) + 1)
      BY <1>1, <1>2
    <3> HIDE DEF x, more
    <3> SUFFICES ASSUME NEW k \in 1..Len(more)
                 PROVE  more[k].ln = line + k
      OBVIOUS
    <3>2. k \in 1..Len(new) \/ k = Len(new) + 1
      BY <1>2, <2>2
    <3> QED
      BY <1>1, <1>2, <2>2, <3>1, <3>2
  <2> HIDE DEF x, more, tail
  <2>8. Cut(a, u).line = line + Len(more)
    BY <1>1, <1>2, <2>2, <2>3
  <2>9. Cut(a, u).lines = ls \o more /\ Cut(a, u).tail = <<>>
    BY <2>3, <2>4
  <2>10. Splits(Cut(a, u), line, ls, Append(read, u))
    BY <2>2, <2>6, <2>7, <2>8, <2>9 DEF Splits
  <2> QED
    BY <2>3, <2>10
<1>5. CASE u \notin ends
  <2>1. Cut(a, u) = [a EXCEPT !.tail = tail]
    BY <1>5 DEF Cut
  <2>2. Cut(a, u) = [tail |-> tail, line |-> a.line, lines |-> a.lines]
    BY <2>1
  <2> HIDE DEF tail
  <2>3. /\ Cut(a, u).lines = ls \o new /\ Cut(a, u).tail = tail
        /\ Cut(a, u).line = line + Len(new)
    BY <1>1, <2>2
  <2>4. Splits(Cut(a, u), line, ls, Append(read, u))
    BY <1>1, <1>3, <2>3 DEF Splits
  <2> QED
    BY <2>2, <2>4
<1> QED
  BY <1>4, <1>5

(* What the recursion of Split says of its function.                       *)
IsCut(c, first, block, n) ==
  /\ c[0] = first
  /\ \A i \in 1..n : c[i] = Cut(c[i - 1], block[i])

LEMMA CutExists ==
  ASSUME NEW n \in Nat, NEW first, NEW block
  PROVE  \E c : IsCut(c, first, block, n)
<1> DEFINE S == {k \in Nat : \E c : IsCut(c, first, block, k)}
<1>1. 0 \in S
  <2> DEFINE g == [i \in {0} |-> first]
  <2>1. g[0] = first
    OBVIOUS
  <2> HIDE DEF g
  <2>2. IsCut(g, first, block, 0)
    BY <2>1 DEF IsCut
  <2> QED
    BY <2>2
<1>2. ASSUME NEW k \in Nat, k \in S
      PROVE  k + 1 \in S
  <2>1. PICK c : IsCut(c, first, block, k)
    BY <1>2
  <2> DEFINE g == [i \in 0..(k + 1) |->
                     IF i = k + 1 THEN Cut(c[k], block[k + 1]) ELSE c[i]]
  <2>2. c[0] = first /\ \A i \in 1..k : c[i] = Cut(c[i - 1], block[i])
    BY <2>1 DEF IsCut
  <2>3. /\ \A i \in 0..k : g[i] = c[i]
        /\ g[k + 1] = Cut(c[k], block[k + 1])
    OBVIOUS
  <2> HIDE DEF g
  <2>4. g[0] = first
    BY <2>2, <2>3
  <2>5. \A i \in 1..(k + 1) : g[i] = Cut(g[i - 1], block[i])
    <3> TAKE i \in 1..(k + 1)
    <3>1. CASE i = k + 1
      <4>1. g[i - 1] = c[k]
        BY <2>3, <3>1
      <4> QED
        BY <2>3, <3>1, <4>1
    <3>2. CASE i # k + 1
      <4>1. i \in 1..k /\ i - 1 \in 0..k /\ i \in 0..k
        BY <3>2
      <4> QED
        BY <2>2, <2>3, <4>1
    <3> QED
      BY <3>1, <3>2
  <2>6. IsCut(g, first, block, k + 1)
    BY <2>4, <2>5 DEF IsCut
  <2> QED
    BY <2>6
<1> HIDE DEF S
<1>3. n \in S
  BY <1>1, <1>2, Induction
<1> QED
  BY <1>3 DEF S

First(f, ls) == [tail |-> f.tail, line |-> f.line, lines |-> ls]

LEMMA SplitIsCut ==
  ASSUME NEW f, NEW ls, NEW block \in Seq(Units)
  PROVE  \E c : /\ IsCut(c, First(f, ls), block, Len(block))
                /\ Split(f, ls, block) = c[Len(block)]
<1> DEFINE n == Len(block)
           Def(c) == c = [i \in 0..n |-> IF i = 0 THEN First(f, ls)
                                         ELSE Cut(c[i - 1], block[i])]
           c == CHOOSE g : Def(g)
<1>1. n \in Nat
  OBVIOUS
<1>2. Split(f, ls, block) = c[n]
  BY DEF Split, First
<1> HIDE DEF n
<1>3. PICK h : IsCut(h, First(f, ls), block, n)
  BY <1>1, CutExists
<1> DEFINE g == [i \in 0..n |-> h[i]]
<1>4. \A i \in 0..n : g[i] = h[i]
  OBVIOUS
<1>5. \A i \in 0..n : g[i] = IF i = 0 THEN First(f, ls) ELSE Cut(g[i - 1], block[i])
  <2> HIDE DEF g
  <2>1. \A i \in 0..n : i # 0 => i - 1 \in 0..n /\ i \in 1..n
    BY <1>1
  <2> QED
    BY <1>1, <1>3, <1>4, <2>1 DEF IsCut
<1>6. g = [i \in 0..n |-> g[i]]
  OBVIOUS
<1>7. Def(g)
  <2> HIDE DEF g
  <2> QED
    BY <1>5, <1>6
<1>8. Def(c)
  <2> HIDE DEF g, Def
  <2> QED
    BY <1>7
<1> HIDE DEF c
<1>9. \A i \in 0..n : c[i] = IF i = 0 THEN First(f, ls) ELSE Cut(c[i - 1], block[i])
  BY <1>8
<1> HIDE DEF Def
<1>10. IsCut(c, First(f, ls), block, n)
  BY <1>1, <1>9 DEF IsCut
<1> QED
  BY <1>2, <1>10 DEF n

(* The split adds to the lines those that end in the block, and what they  *)
(* leave is the new tail: nothing is lost, and the numbers go on.          *)
LEMMA SplitGives ==
  ASSUME NEW f, f.tail \in Seq(Units), f.line \in Nat,
         NEW ls \in Seq(Line), NEW block \in Seq(Units)
  PROVE  Splits(Split(f, ls, block), f.line, ls, f.tail \o block)
<1>1. PICK c : /\ IsCut(c, First(f, ls), block, Len(block))
               /\ Split(f, ls, block) = c[Len(block)]
  BY SplitIsCut
<1> DEFINE m == Len(block)
           part(k) == SubSeq(block, 1, k)
           Good(k) == /\ c[k] = [tail |-> c[k].tail, line |-> c[k].line, lines |-> c[k].lines]
                      /\ Splits(c[k], f.line, ls, f.tail \o part(k))
           S == {k \in Nat : k <= m => Good(k)}
<1>2. m \in Nat
  OBVIOUS
<1>3. c[0] = First(f, ls) /\ \A i \in 1..m : c[i] = Cut(c[i - 1], block[i])
  BY <1>1 DEF IsCut
<1>4. 0 \in S
  <2>1. part(0) = <<>> /\ f.tail \o <<>> = f.tail
    BY SubSeqEmpty, ConcatEmptySeq
  <2>2. ls \o <<>> = ls /\ <<>> \in Seq(Line) /\ Len(<<>>) = 0
    BY ConcatEmptySeq, EmptySeq
  <2>3. Text(<<>>) \o f.tail = f.tail
    BY TextEmpty, ConcatEmptySeq
  <2>4. \A k \in 1..Len(<<>>) : <<>>[k].ln = f.line + k
    OBVIOUS
  <2>5. Splits(First(f, ls), f.line, ls, f.tail \o part(0))
    <3> HIDE DEF part
    <3>1. /\ First(f, ls).lines = ls \o <<>> /\ First(f, ls).tail \in Seq(Units)
          /\ First(f, ls).line = f.line + Len(<<>>)
          /\ Text(<<>>) \o First(f, ls).tail = f.tail \o part(0)
      BY <2>1, <2>2, <2>3 DEF First
    <3> QED
      BY <2>2, <2>4, <3>1 DEF Splits
  <2> HIDE DEF part
  <2>6. Good(0)
    BY <1>3, <2>5 DEF First
  <2> QED
    BY <2>6
<1>5. ASSUME NEW k \in Nat, k \in S
      PROVE  k + 1 \in S
  <2> SUFFICES ASSUME k + 1 <= m
               PROVE  Good(k + 1)
    OBVIOUS
  <2>1. Good(k)
    BY <1>2, <1>5
  <2>2. c[k + 1] = Cut(c[k], block[k + 1]) /\ block[k + 1] \in Units
    <3>1. k + 1 \in 1..m /\ (k + 1) - 1 = k
      BY <1>2
    <3>2. c[k + 1] = Cut(c[(k + 1) - 1], block[k + 1])
      BY <1>3, <3>1
    <3> QED
      BY <3>1, <3>2
  <2>3. part(k) \in Seq(Units) /\ part(k + 1) = Append(part(k), block[k + 1])
    <3>1. /\ part(k) \in Seq(Units) /\ Len(part(k)) = k
          /\ \A i \in 1..k : part(k)[i] = block[i]
      BY SubSeqProperties
    <3>2. /\ part(k + 1) \in Seq(Units) /\ Len(part(k + 1)) = k + 1
          /\ \A i \in 1..(k + 1) : part(k + 1)[i] = block[i]
      BY SubSeqProperties
    <3> HIDE DEF part
    <3>3. /\ Append(part(k), block[k + 1]) \in Seq(Units)
          /\ Len(Append(part(k), block[k + 1])) = k + 1
          /\ \A i \in 1..k : Append(part(k), block[k + 1])[i] = part(k)[i]
          /\ Append(part(k), block[k + 1])[k + 1] = block[k + 1]
      BY <2>2, <3>1, AppendProperties
    <3>4. \A i \in 1..(k + 1) : part(k + 1)[i] = Append(part(k), block[k + 1])[i]
      BY <3>1, <3>2, <3>3
    <3>5. part(k + 1) = Append(part(k), block[k + 1])
      BY <3>2, <3>3, <3>4, SeqEqual
    <3> QED
      BY <3>1, <3>5
  <2> HIDE DEF part
  <2>4. f.tail \o part(k) \in Seq(Units)
    BY <2>3, ConcatProperties
  <2>5. f.tail \o part(k + 1) = Append(f.tail \o part(k), block[k + 1])
    <3> DEFINE u == block[k + 1]
    <3>1. u \in Units /\ part(k + 1) = Append(part(k), u)
      BY <2>2, <2>3
    <3> HIDE DEF u
    <3>2. f.tail \o Append(part(k), u) = Append(f.tail \o part(k), u)
      <4> DEFINE q == part(k)
                 g == f.tail
      <4>1. q \in Seq(Units) /\ g \in Seq(Units)
        BY <2>3
      <4> HIDE DEF q, g
      <4>2. u \in Units
        BY <3>1
      <4>3. g \o Append(q, u) = Append(g \o q, u)
        BY ONLY <4>1, <4>2, UnitsAppend
      <4> QED
        BY <4>3 DEF q, g
    <3>3. f.tail \o part(k + 1) = Append(f.tail \o part(k), u)
      BY <3>1, <3>2
    <3> QED
      BY <3>3 DEF u
  <2>6. /\ Splits(Cut(c[k], block[k + 1]), f.line, ls, Append(f.tail \o part(k), block[k + 1]))
        /\ Cut(c[k], block[k + 1]) = [tail |-> Cut(c[k], block[k + 1]).tail,
                                      line |-> Cut(c[k], block[k + 1]).line,
                                      lines |-> Cut(c[k], block[k + 1]).lines]
    <3> DEFINE u == block[k + 1]
               a == c[k]
               read == f.tail \o part(k)
               line == f.line
    <3>1. /\ a = [tail |-> a.tail, line |-> a.line, lines |-> a.lines]
          /\ Splits(a, line, ls, read) /\ u \in Units
          /\ line \in Nat /\ read \in Seq(Units)
      BY <2>1, <2>2, <2>4
    <3> HIDE DEF u, a, read, line
    <3>2. /\ Splits(Cut(a, u), line, ls, Append(read, u))
          /\ Cut(a, u) = [tail |-> Cut(a, u).tail, line |-> Cut(a, u).line,
                          lines |-> Cut(a, u).lines]
      BY SMTT(30), <3>1, CutSplits
    <3> QED
      BY <3>2 DEF u, a, read, line
  <2> QED
    BY <2>2, <2>5, <2>6
<1> HIDE DEF S
<1>6. m \in S
  BY <1>2, <1>4, <1>5, Induction
<1>7. part(m) = block
  BY SubSeqFull
<1>8. Good(m)
  BY <1>2, <1>6 DEF S
<1> HIDE DEF part
<1> QED
  BY <1>1, <1>7, <1>8

(***************************************************************************)
(* Where the text of lines lies in the file.                               *)
(***************************************************************************)

Position == [offset : Nat, tail : Seq(Units), line : Nat]

(* `text` is what the file d holds before the offset.                      *)
Lies(d, text, offset) ==
  /\ offset <= Len(d) /\ Len(text) <= offset
  /\ \A k \in 1..Len(text) : text[k] = d[offset - Len(text) + k]

(* The lines are numbered in sequence, up to `line`.                       *)
Numbered(cut, line) == \A k \in 1..Len(cut) : cut[k].ln = line - Len(cut) + k

(* The lines `cut` of the file and what is kept of a line end at the mark. *)
Accounted(d, cut, mark) ==
  Lies(d, Text(cut) \o mark.tail, mark.offset) /\ Numbered(cut, mark.line)

(* The units before those.                                                 *)
Gone(d, cut, mark) == {d[k] : k \in 1..(mark.offset - Len(Text(cut) \o mark.tail))}

LEMMA LiesOn ==
  ASSUME NEW d \in Seq(Units), NEW text \in Seq(Units), NEW offset \in Nat,
         NEW upTo \in Nat, offset <= upTo, upTo <= Len(d),
         Lies(d, text, offset)
  PROVE  /\ Lies(d, text \o SubSeq(d, offset + 1, upTo), upTo)
         /\ Len(SubSeq(d, offset + 1, upTo)) = upTo - offset
         /\ SubSeq(d, offset + 1, upTo) \in Seq(Units)
<1> DEFINE block == SubSeq(d, offset + 1, upTo)
<1>1. Len(d) \in Nat /\ \A k \in 1..Len(d) : d[k] \in Units
  OBVIOUS
<1>2. \A k \in (offset + 1)..upTo : d[k] \in Units
  BY <1>1
<1>3. /\ block \in Seq(Units) /\ Len(block) = upTo - offset
      /\ \A k \in 1..(upTo - offset) : block[k] = d[offset + k]
  <2>1. /\ block \in Seq(Units)
        /\ Len(block) = IF offset + 1 <= upTo THEN upTo - (offset + 1) + 1 ELSE 0
        /\ \A k \in 1..(upTo - (offset + 1) + 1) : block[k] = d[(offset + 1) + k - 1]
    BY <1>2, SubSeqProperties
  <2> HIDE DEF block
  <2> QED
    BY <2>1
<1> HIDE DEF block
<1>4. /\ text \o block \in Seq(Units) /\ Len(text \o block) = Len(text) + Len(block)
      /\ \A k \in 1..(Len(text) + Len(block)) :
           (text \o block)[k] = IF k <= Len(text) THEN text[k] ELSE block[k - Len(text)]
  BY <1>3, ConcatProperties
<1> DEFINE all == text \o block
<1> HIDE DEF all
<1>5. \A k \in 1..Len(all) : all[k] = d[upTo - Len(all) + k]
  <2> SUFFICES ASSUME NEW k \in 1..Len(all)
               PROVE  all[k] = d[upTo - Len(all) + k]
    OBVIOUS
  <2>1. /\ Len(all) = Len(text) + (upTo - offset) /\ Len(text) \in Nat
        /\ all[k] = IF k <= Len(text) THEN text[k] ELSE block[k - Len(text)]
    BY <1>3, <1>4 DEF all
  <2>2. CASE k <= Len(text)
    BY <2>1, <2>2 DEF Lies
  <2>3. CASE ~(k <= Len(text))
    BY <1>3, <2>1, <2>3
  <2> QED
    BY <2>2, <2>3
<1>6. Len(all) <= upTo
  BY <1>3, <1>4 DEF Lies, all
<1> QED
  BY <1>3, <1>5, <1>6 DEF Lies, all, block

LEMMA LiesSuffix ==
  ASSUME NEW d \in Seq(Units), NEW a \in Seq(Units), NEW b \in Seq(Units),
         NEW offset \in Nat, Lies(d, a \o b, offset)
  PROVE  /\ Lies(d, b, offset)
         /\ \A k \in 1..Len(a) : a[k] = d[offset - Len(a \o b) + k]
         /\ Len(a \o b) = Len(a) + Len(b)
<1>1. /\ Len(a \o b) = Len(a) + Len(b) /\ Len(a) \in Nat /\ Len(b) \in Nat
      /\ \A k \in 1..(Len(a) + Len(b)) :
           (a \o b)[k] = IF k <= Len(a) THEN a[k] ELSE b[k - Len(a)]
  BY ConcatProperties
<1> DEFINE all == a \o b
<1> HIDE DEF all
<1>2. /\ Len(all) = Len(a) + Len(b) /\ offset <= Len(d) /\ Len(all) <= offset
      /\ \A k \in 1..Len(all) : all[k] = d[offset - Len(all) + k]
      /\ \A k \in 1..Len(a) : all[k] = a[k]
      /\ \A k \in 1..Len(b) : all[Len(a) + k] = b[k]
  BY <1>1 DEF Lies, all
<1>3. \A k \in 1..Len(b) : b[k] = d[offset - Len(b) + k]
  <2> TAKE k \in 1..Len(b)
  <2> DEFINE m == Len(a)
             n == Len(b)
  <2>0. m \in Nat /\ n \in Nat /\ Len(all) = m + n /\ k \in 1..n
    BY <1>1, <1>2
  <2> HIDE DEF m, n
  <2>1. m + k \in 1..Len(all) /\ offset - Len(all) + (m + k) = offset - n + k
    BY <2>0
  <2>2. b[k] = all[m + k]
    BY <1>2 DEF m
  <2> QED
    BY <1>2, <2>1, <2>2 DEF m, n
<1>4. \A k \in 1..Len(a) : a[k] = d[offset - Len(all) + k]
  BY <1>1, <1>2
<1> QED
  BY <1>1, <1>2, <1>3, <1>4 DEF Lies, all

LEMMA LiesMore ==
  ASSUME NEW d \in Seq(Units), NEW text \in Seq(Units), NEW offset \in Nat,
         NEW u \in Units, Lies(d, text, offset)
  PROVE  Lies(Append(d, u), text, offset)
<1>1. /\ Len(Append(d, u)) = Len(d) + 1 /\ Len(d) \in Nat /\ Len(text) \in Nat
      /\ \A k \in 1..Len(d) : Append(d, u)[k] = d[k]
  BY AppendProperties
<1>2. \A k \in 1..Len(text) : offset - Len(text) + k \in 1..Len(d)
  BY <1>1 DEF Lies
<1> QED
  BY <1>1, <1>2 DEF Lies

(* The text of delivered and kept lines and the tail.                      *)
LEMMA AccountType ==
  ASSUME NEW cut \in Seq(Line), NEW tail \in Seq(Units)
  PROVE  /\ Text(cut) \o tail \in Seq(Units)
         /\ Len(Text(cut) \o tail) \in Nat
BY TextType, ConcatProperties

LEMMA LinesAssociative ==
  \A s, t, w \in Seq(Line) : (s \o t) \o w = s \o (t \o w)
BY SMTT(30), ConcatAssociative

(* A block that was read and split is accounted for.                       *)
LEMMA AccountedOn ==
  ASSUME NEW d \in Seq(Units), NEW delivered \in Seq(Line), NEW ls \in Seq(Line),
         NEW mark \in Position, Accounted(d, delivered \o ls, mark),
         NEW upTo \in Nat, mark.offset <= upTo, upTo <= Len(d), NEW a, NEW after,
         Splits(a, mark.line, ls, mark.tail \o SubSeq(d, mark.offset + 1, upTo)),
         after = [offset |-> upTo, tail |-> a.tail, line |-> a.line]
  PROVE  /\ Accounted(d, delivered \o a.lines, after)
         /\ Gone(d, delivered \o a.lines, after) = Gone(d, delivered \o ls, mark)
         /\ a.lines \in Seq(Line) /\ after \in Position
<1> DEFINE cut == delivered \o ls
           block == SubSeq(d, mark.offset + 1, upTo)
           text == Text(cut) \o mark.tail
<1>1. mark.offset \in Nat /\ mark.tail \in Seq(Units) /\ mark.line \in Nat
  BY DEF Position
<1>2. PICK new \in Seq(Line) :
        /\ a.lines = ls \o new /\ a.tail \in Seq(Units) /\ a.line = mark.line + Len(new)
        /\ Text(new) \o a.tail = mark.tail \o block
        /\ \A k \in 1..Len(new) : new[k].ln = mark.line + k
  BY DEF Splits
<1>3. /\ cut \in Seq(Line) /\ delivered \o a.lines = cut \o new
      /\ a.lines \in Seq(Line)
  <2>1. cut \in Seq(Line) /\ ls \o new \in Seq(Line)
    BY ConcatProperties
  <2>2. (delivered \o ls) \o new = delivered \o (ls \o new)
    BY LinesAssociative
  <2> QED
    BY <1>2, <2>1, <2>2
<1>4. text \in Seq(Units) /\ Lies(d, text, mark.offset)
  BY <1>1, <1>3, AccountType DEF Accounted
<1>5. /\ Lies(d, text \o block, upTo) /\ Len(block) = upTo - mark.offset
      /\ block \in Seq(Units)
  <2> DEFINE offset == mark.offset
  <2> HIDE DEF text, offset
  <2>1. /\ Lies(d, text \o SubSeq(d, offset + 1, upTo), upTo)
        /\ Len(SubSeq(d, offset + 1, upTo)) = upTo - offset
        /\ SubSeq(d, offset + 1, upTo) \in Seq(Units)
    <3>1. offset \in Nat /\ offset <= upTo /\ Lies(d, text, offset)
      BY <1>1, <1>4 DEF offset
    <3> QED
      BY <1>4, <3>1, LiesOn
  <2> QED
    BY <2>1 DEF offset
<1> HIDE DEF block
<1>6. Text(cut \o new) \o a.tail = text \o block
  <2> HIDE DEF cut
  <2>1. /\ Text(cut) \in Seq(Units) /\ Text(new) \in Seq(Units)
        /\ Text(cut \o new) = Text(cut) \o Text(new)
    BY <1>3, TextType, TextConcat
  <2>2. (Text(cut) \o Text(new)) \o a.tail = Text(cut) \o (Text(new) \o a.tail)
    BY <1>2, <2>1, UnitsAssociative
  <2>3. (Text(cut) \o mark.tail) \o block = Text(cut) \o (mark.tail \o block)
    BY ZenonT(30), <1>1, <1>5, <2>1, UnitsAssociative
  <2> QED
    BY <1>2, <2>1, <2>2, <2>3
<1>7. Len(text \o block) = Len(text) + Len(block) /\ Len(text) \in Nat
  <2> HIDE DEF text
  <2>1. text \in Seq(Units) /\ block \in Seq(Units)
    BY <1>4, <1>5
  <2>2. Len(text \o block) = Len(text) + Len(block)
    BY <2>1, ConcatProperties
  <2> QED
    BY <2>1, <2>2
<1> HIDE DEF cut
<1>8. Numbered(cut \o new, a.line)
  <2>1. /\ Len(cut \o new) = Len(cut) + Len(new) /\ Len(cut) \in Nat /\ Len(new) \in Nat
        /\ \A k \in 1..(Len(cut) + Len(new)) :
             (cut \o new)[k] = IF k <= Len(cut) THEN cut[k] ELSE new[k - Len(cut)]
    BY <1>3, ConcatProperties
  <2>2. \A k \in 1..Len(cut) : cut[k].ln = mark.line - Len(cut) + k
    BY DEF Accounted, Numbered, cut
  <2> SUFFICES ASSUME NEW k \in 1..Len(cut \o new)
               PROVE  (cut \o new)[k].ln = a.line - Len(cut \o new) + k
    BY DEF Numbered
  <2> DEFINE n == Len(cut)
             m == Len(new)
             x == (cut \o new)[k]
  <2> HIDE DEF n, m, x
  <2>3. /\ n \in Nat /\ m \in Nat /\ k \in 1..(n + m) /\ Len(cut \o new) = n + m
        /\ a.line = mark.line + m
        /\ x = IF k <= n THEN cut[k] ELSE new[k - n]
        /\ \A j \in 1..n : cut[j].ln = mark.line - n + j
        /\ \A j \in 1..m : new[j].ln = mark.line + j
    BY <1>2, <2>1, <2>2 DEF n, m, x
  <2>4. x.ln = (mark.line + m) - (n + m) + k
    <3>1. CASE k <= n
      <4>1. k \in 1..n /\ x.ln = mark.line - n + k
        BY <2>3, <3>1
      <4> QED
        BY <1>1, <2>3, <4>1
    <3>2. CASE ~(k <= n)
      <4>1. k - n \in 1..m /\ x.ln = mark.line + (k - n)
        BY SMTT(30), <2>3, <3>2
      <4> QED
        BY SMTT(30), <1>1, <2>3, <4>1
    <3> QED
      BY <3>1, <3>2
  <2> QED
    BY <2>3, <2>4 DEF x
<1>9. after \in Position
  BY <1>1, <1>2 DEF Position
<1>10. Accounted(d, cut \o new, after)
  BY <1>5, <1>6, <1>8 DEF Accounted
<1>11. upTo - Len(text \o block) = mark.offset - Len(text)
  <2> DEFINE n == Len(text)
             m == Len(block)
             s == Len(text \o block)
             offset == mark.offset
  <2>1. n \in Nat /\ s = n + m /\ m = upTo - offset /\ offset \in Nat
    <3> HIDE DEF text
    <3> QED
      BY <1>1, <1>5, <1>7
  <2> HIDE DEF n, m, s, offset
  <2>2. upTo - s = offset - n
    BY ONLY <2>1, upTo \in Nat
  <2> QED
    BY ONLY <2>2 DEF n, s, offset
<1>12. Gone(d, cut \o new, after) = Gone(d, cut, mark)
  <2>1. after.offset = upTo /\ after.tail = a.tail
    OBVIOUS
  <2>2. after.offset - Len(Text(cut \o new) \o after.tail)
          = mark.offset - Len(Text(cut) \o mark.tail)
    BY <1>6, <1>11, <2>1
  <2> QED
    BY <2>2 DEF Gone
<1> QED
  BY <1>3, <1>9, <1>10, <1>12 DEF cut

(* Without the lines that were delivered, what is left is accounted for;   *)
(* and what is before it was before them or is their text.                 *)
LEMMA AccountedRest ==
  ASSUME NEW d \in Seq(Units), NEW delivered \in Seq(Line), NEW ls \in Seq(Line),
         NEW mark \in Position, Accounted(d, delivered \o ls, mark)
  PROVE  /\ Accounted(d, ls, mark)
         /\ Gone(d, ls, mark) \subseteq
              Gone(d, delivered \o ls, mark) \union ToSet(Text(delivered))
         /\ Len(Text(delivered \o ls) \o mark.tail) =
              Len(Text(delivered)) + Len(Text(ls) \o mark.tail)
         /\ \A k \in 1..Len(Text(delivered)) : Text(delivered)[k] =
              d[mark.offset - Len(Text(delivered \o ls) \o mark.tail) + k]
<1> DEFINE a == Text(delivered)
           b == Text(ls) \o mark.tail
<1>1. mark.offset \in Nat /\ mark.tail \in Seq(Units) /\ mark.line \in Nat
  BY DEF Position
<1>2. a \in Seq(Units) /\ Text(ls) \in Seq(Units) /\ b \in Seq(Units)
  BY <1>1, TextType, AccountType
<1>3. Text(delivered \o ls) \o mark.tail = a \o b
  <2>1. Text(delivered \o ls) = a \o Text(ls)
    BY TextConcat
  <2>2. (a \o Text(ls)) \o mark.tail = a \o (Text(ls) \o mark.tail)
    BY ZenonT(30), <1>1, <1>2, UnitsAssociative
  <2> QED
    BY <2>1, <2>2
<1>4. Lies(d, a \o b, mark.offset)
  BY <1>3 DEF Accounted
<1> DEFINE offset == mark.offset
<1> HIDE DEF a, b
<1>5. /\ Lies(d, b, offset)
      /\ \A k \in 1..Len(a) : a[k] = d[offset - Len(a \o b) + k]
      /\ Len(a \o b) = Len(a) + Len(b) /\ Len(a) \in Nat /\ Len(b) \in Nat
  <2> HIDE DEF offset
  <2>1. offset \in Nat /\ Lies(d, a \o b, offset)
    BY <1>1, <1>4 DEF offset
  <2> QED
    BY <1>2, <2>1, LiesSuffix
<1>6. Numbered(ls, mark.line)
  <2>1. /\ Len(delivered \o ls) = Len(delivered) + Len(ls)
        /\ Len(delivered) \in Nat /\ Len(ls) \in Nat
        /\ \A k \in 1..(Len(delivered) + Len(ls)) : (delivered \o ls)[k] =
             IF k <= Len(delivered) THEN delivered[k] ELSE ls[k - Len(delivered)]
    BY ConcatProperties
  <2> SUFFICES ASSUME NEW k \in 1..Len(ls)
               PROVE  ls[k].ln = mark.line - Len(ls) + k
    BY DEF Numbered
  <2>2. /\ Len(delivered) + k \in 1..Len(delivered \o ls)
        /\ (delivered \o ls)[Len(delivered) + k] = ls[k]
    BY <2>1
  <2>3. (delivered \o ls)[Len(delivered) + k].ln =
          mark.line - Len(delivered \o ls) + (Len(delivered) + k)
    BY <2>2 DEF Accounted, Numbered
  <2> QED
    BY <1>1, <2>1, <2>2, <2>3
<1>7. ASSUME NEW k \in 1..(offset - Len(b)), ~(k \in 1..(offset - Len(a \o b)))
      PROVE  d[k] \in ToSet(a)
  <2> DEFINE j == k - (offset - Len(a \o b))
  <2>1. j \in 1..Len(a) /\ offset - Len(a \o b) + j = k
    BY SMTT(30), <1>1, <1>5, <1>7
  <2>2. a[j] = d[k]
    BY <1>5, <2>1
  <2> QED
    BY <1>2, <2>1, <2>2 DEF ToSet
<1>8. Gone(d, ls, mark) \subseteq Gone(d, delivered \o ls, mark) \union ToSet(a)
  BY <1>3, <1>7 DEF Gone, b
<1> QED
  BY <1>3, <1>5, <1>6, <1>8 DEF Accounted, a, b

(* A file that grows keeps what is accounted for.                          *)
LEMMA AccountedMore ==
  ASSUME NEW d \in Seq(Units), NEW cut \in Seq(Line), NEW mark \in Position,
         NEW u \in Units, Accounted(d, cut, mark)
  PROVE  /\ Accounted(Append(d, u), cut, mark)
         /\ Gone(Append(d, u), cut, mark) = Gone(d, cut, mark)
<1> DEFINE text == Text(cut) \o mark.tail
           offset == mark.offset
<1>1. text \in Seq(Units) /\ Len(text) \in Nat /\ offset \in Nat
  BY AccountType DEF Position
<1>2. Lies(d, text, offset)
  BY DEF Accounted
<1>3. /\ Len(Append(d, u)) = Len(d) + 1 /\ Len(d) \in Nat
      /\ \A k \in 1..Len(d) : Append(d, u)[k] = d[k]
  BY AppendProperties
<1> HIDE DEF text, offset
<1>4. Lies(Append(d, u), text, offset)
  BY <1>1, <1>2, LiesMore
<1>5. \A k \in 1..(offset - Len(text)) : Append(d, u)[k] = d[k]
  BY <1>1, <1>2, <1>3 DEF Lies
<1> QED
  BY <1>4, <1>5 DEF Accounted, Gone, text, offset

(* Nothing is accounted for at the start.                                  *)
LEMMA AccountedNothing ==
  ASSUME NEW d \in Seq(Units), NEW mark \in Position, mark.tail = <<>>,
         mark.offset <= Len(d)
  PROVE  /\ Accounted(d, <<>>, mark)
         /\ mark.offset = 0 => Gone(d, <<>>, mark) = {}
<1>1. Text(<<>>) \o mark.tail = <<>>
  BY TextEmpty, EmptySeq, ConcatEmptySeq
<1>2. mark.offset \in Nat
  BY DEF Position
<1> QED
  BY <1>1, <1>2 DEF Accounted, Lies, Numbered, Gone

(***************************************************************************)
(* Types.                                                                  *)
(***************************************************************************)

Callers == Tasks \union {Saver, Stopper}
TaskState == [pc : {"free", "ask", "queued", "granted", "opening", "opened",
                    "waiting", "locked", "reading", "stat", "closing"},
              obj : {"new", "old"}]

(* An object with a descriptor is that of an inode.                        *)
OpenFiles == {f \in FileObject : f.fd = "open" => f.ino \in Inodes}

FileTypes ==
  /\ data \in [Inodes -> Seq(Units)] /\ written \in 0..MaxUnits
  /\ link \in [Files -> {0} \union Inodes]
  /\ file \in [Files -> OpenFiles] /\ old \in [Files -> OpenFiles]
  /\ lines \in [Files -> Seq(Line)]
  /\ wm \in [Files -> {NoMark} \union Position]
  /\ db \in [Files -> [mark : {NoMark} \union Position, lines : Seq(Line)]]
  /\ sem \in SemaphoreOf(Callers)
  /\ task \in [Tasks -> TaskState]
  /\ out \in [Inodes -> Seq(Line)]

LEMMA TaskOfCaller ==
  /\ \A t \in Tasks : /\ t = <<t[1], t[2]>> /\ t[1] \in {"read", "open", "close"}
                      /\ t[2] \in Files /\ t \in Callers
  /\ Saver \in Callers /\ Stopper \in Callers
  /\ Saver[1] = "save" /\ Stopper[1] = "stop"
  /\ \A c \in Callers : c[1] \in {"read", "open", "close"} => c \in Tasks
  /\ \A p \in Files : <<"open", p>> \in Tasks /\ <<"read", p>> \in Tasks /\ <<"close", p>> \in Tasks
  BY DEF Tasks, Callers, Saver, Stopper

LEMMA SemType ==
  ASSUME NEW C
  PROVE  Sem(1) \in SemaphoreOf(C) /\ Sem(1).wait = <<>>
<1>1. <<>> \in Seq(C)
  BY EmptySeq
<1> QED
  BY <1>1 DEF Sem, SemaphoreOf

LEMMA NoFileType ==
  /\ NoFile \in OpenFiles /\ NoFile.ino = 0 /\ NoFile.fd = "none"
  /\ NoFile.held.wait = <<>>
<1>1. <<>> \in Seq(Units)
  BY EmptySeq
<1>2. Sem(1) \in SemaphoreOf(Tasks) /\ Sem(1).wait = <<>>
  BY SemType
<1> QED
  BY <1>1, <1>2 DEF NoFile, OpenFiles, FileObject

LEMMA FreeType == Free \in TaskState
  BY DEF Free, TaskState

(* An object whose semaphore is left or taken, or whose descriptor changes.*)
LEMMA ObjectChange ==
  ASSUME NEW f \in OpenFiles, NEW h \in SemaphoreOf(Tasks),
         NEW fd \in {"none", "shut", f.fd}
  PROVE  /\ [f EXCEPT !.held = h] \in OpenFiles
         /\ [f EXCEPT !.fd = fd] \in OpenFiles
  BY DEF OpenFiles, FileObject

LEMMA ObjectMoves ==
  ASSUME NEW f \in OpenFiles, NEW n \in Nat, NEW tail \in Seq(Units), NEW line \in Nat
  PROVE  /\ [f EXCEPT !.offset = n] \in OpenFiles
         /\ [f EXCEPT !.offset = n, !.tail = tail, !.line = line] \in OpenFiles
  BY DEF OpenFiles, FileObject

LEMMA ObjectFields ==
  ASSUME NEW f \in OpenFiles
  PROVE  /\ f.ino \in {0} \union Inodes /\ f.fd \in {"none", "open", "shut"}
         /\ f.offset \in Nat /\ f.tail \in Seq(Units) /\ f.line \in Nat
         /\ f.held \in SemaphoreOf(Tasks)
         /\ f.fd = "open" => f.ino \in Inodes
         /\ ToJSON(f) \in Position
         /\ Leave(f.held) \in SemaphoreOf(Tasks)
<1>1. /\ f.ino \in {0} \union Inodes /\ f.fd \in {"none", "open", "shut"}
      /\ f.offset \in Nat /\ f.tail \in Seq(Units) /\ f.line \in Nat
      /\ f.held \in SemaphoreOf(Tasks)
      /\ f.fd = "open" => f.ino \in Inodes
  BY DEF OpenFiles, FileObject
<1>2. ToJSON(f) \in Position
  BY <1>1 DEF ToJSON, Position
<1>3. Leave(f.held) \in SemaphoreOf(Tasks)
  BY <1>1, LeaveProperties
<1> QED
  BY <1>1, <1>2, <1>3

LEMMA OwnType ==
  ASSUME FileTypes, NEW t \in Tasks
  PROVE  Own(t) \in OpenFiles /\ t[2] \in Files
  BY TaskOfCaller DEF FileTypes, Own

LEMMA BecomesType ==
  ASSUME FileTypes, NEW t \in Tasks, NEW f \in OpenFiles, NEW e, Becomes(t, f, e)
  PROVE  file' \in [Files -> OpenFiles] /\ old' \in [Files -> OpenFiles]
<1>1. t[2] \in Files
  BY TaskOfCaller
<1>2. CASE task[t].obj = "new"
  <2>1. file' = [file EXCEPT ![t[2]] = f] /\ old' = old
    BY <1>2 DEF Becomes
  <2> QED
    BY <1>1, <2>1 DEF FileTypes
<1>3. CASE task[t].obj # "new"
  <2>1. old' = [old EXCEPT ![t[2]] = IF e THEN NoFile ELSE f] /\ file' = file
    BY <1>3 DEF Becomes
  <2>2. (IF e THEN NoFile ELSE f) \in OpenFiles
    BY NoFileType
  <2> QED
    BY <1>1, <2>1, <2>2 DEF FileTypes
<1> QED
  BY <1>2, <1>3

LEMMA EndsType ==
  ASSUME FileTypes, NEW t \in Tasks, NEW f \in OpenFiles, Ends(t, f)
  PROVE  /\ file' \in [Files -> OpenFiles] /\ old' \in [Files -> OpenFiles]
         /\ task' \in [Tasks -> TaskState]
<1>1. [f EXCEPT !.held = Leave(@)] \in OpenFiles
  BY ObjectFields, ObjectChange
<1>2. Becomes(t, [f EXCEPT !.held = Leave(@)], TRUE)
  BY DEF Ends
<1>3. file' \in [Files -> OpenFiles] /\ old' \in [Files -> OpenFiles]
  BY <1>1, <1>2, BecomesType
<1>4. task' = Unlocked(t, Free)
  BY DEF Ends
<1>5. \A u \in Tasks : task[u] \in TaskState /\ [task[u] EXCEPT !.pc = "locked"] \in TaskState
  BY DEF FileTypes, TaskState
<1>6. task' \in [Tasks -> TaskState]
  BY <1>4, <1>5, FreeType DEF Unlocked
<1> QED
  BY <1>3, <1>6

LEMMA WokeType ==
  ASSUME NEW tasks \in [Tasks -> TaskState]
  PROVE  Woke(tasks) \in [Tasks -> TaskState]
<1>1. \A u \in Tasks : tasks[u] \in TaskState /\ [tasks[u] EXCEPT !.pc = "granted"] \in TaskState
  BY DEF TaskState
<1> QED
  BY <1>1 DEF Woke

LEMMA TaskType ==
  ASSUME NEW tasks \in [Tasks -> TaskState], NEW t \in Tasks,
         NEW pc \in {"free", "ask", "queued", "granted", "opening", "opened",
                    "waiting", "locked", "reading", "stat", "closing"}
  PROVE  [tasks EXCEPT ![t].pc = pc] \in [Tasks -> TaskState]
<1>1. [tasks[t] EXCEPT !.pc = pc] \in TaskState
  BY DEF TaskState
<1> QED
  BY <1>1

LEMMA AfterOpenType ==
  ASSUME NEW tasks \in [Tasks -> TaskState], NEW t \in Tasks, NEW p \in Files
  PROVE  /\ AfterOpen(tasks, t) \in [Tasks -> TaskState]
         /\ Orphans(tasks, p) \in [Tasks -> TaskState]
<1>1. AfterOpen(tasks, t) \in [Tasks -> TaskState]
  <2>1. (IF t[1] = "open" THEN Free ELSE [tasks[t] EXCEPT !.pc = "opened"]) \in TaskState
    BY FreeType DEF TaskState
  <2> QED
    BY <2>1 DEF AfterOpen
<1>2. Orphans(tasks, p) \in [Tasks -> TaskState]
  <2>1. <<"read", p>> \in Tasks
    BY TaskOfCaller
  <2>2. [tasks[<<"read", p>>] EXCEPT !.obj = "old"] \in TaskState
    BY <2>1 DEF TaskState
  <2> QED
    BY <2>1, <2>2 DEF Orphans
<1> QED
  BY <1>1, <1>2

LEMMA UpToDateType ==
  ASSUME FileTypes
  PROVE  UpToDate \in [Files -> {NoMark} \union Position]
  BY ObjectFields DEF FileTypes, UpToDate

LEMMA StoreType ==
  ASSUME FileTypes, Store
  PROVE  /\ wm' \in [Files -> {NoMark} \union Position]
         /\ db' \in [Files -> [mark : {NoMark} \union Position, lines : Seq(Line)]]
  BY UpToDateType DEF FileTypes, Store

LEMMA OpenedType ==
  ASSUME FileTypes, NEW p \in Files, link[p] # 0
  PROVE  /\ Opened(p) \in Position /\ NewFile(p) \in OpenFiles
         /\ ToJSON(NewFile(p)) = Opened(p)
         /\ NewFile(p).ino = link[p] /\ NewFile(p).held.wait = <<>>
<1>3. Opened(p) \in Position
  <2>1. CASE Marked(p)
    BY <2>1 DEF FileTypes, Opened, Marked
  <2>2. CASE ~Marked(p)
    <3>1. Opened(p) = [NoMark EXCEPT !.offset = IF StartAt = "start" THEN 0 ELSE Len(data[link[p]])]
      BY <2>2 DEF Opened, Unmarked
    <3>2. Len(data[link[p]]) \in Nat /\ <<>> \in Seq(Units)
      BY EmptySeq DEF FileTypes
    <3> DEFINE n == IF StartAt = "start" THEN 0 ELSE Len(data[link[p]])
    <3>3. n \in Nat
      BY <3>2
    <3> HIDE DEF n
    <3>4. [NoMark EXCEPT !.offset = n] = [offset |-> n, tail |-> <<>>, line |-> 0]
      BY DEF NoMark
    <3>5. [NoMark EXCEPT !.offset = n] \in Position
      <4>1. [offset |-> n, tail |-> <<>>, line |-> 0] \in Position
        BY <3>3, EmptySeq DEF Position
      <4> QED
        BY <3>4, <4>1
    <3> QED
      BY <3>1, <3>5 DEF n
  <2> QED
    BY <2>1, <2>2
<1>4. Sem(1) \in SemaphoreOf(Tasks) /\ Sem(1).wait = <<>>
  BY SemType
<1>5. link[p] \in Inodes
  BY DEF FileTypes
<1>6. NewFile(p) \in OpenFiles
  BY <1>3, <1>4, <1>5 DEF NewFile, OpenFiles, FileObject, Position
<1>7. ToJSON(NewFile(p)) = Opened(p)
  BY <1>3 DEF NewFile, ToJSON, Position
<1> QED
  BY <1>3, <1>4, <1>6, <1>7 DEF NewFile

(* The block to read is a piece of the file from the offset on.            *)
LEMMA BlockOf ==
  ASSUME FileTypes, NEW f \in OpenFiles, f.fd = "open"
  PROVE  /\ Block(f) \in Seq(Units) /\ Len(Block(f)) \in Nat
         /\ \A k \in 1..Len(Block(f)) : f.offset + k <= Len(data[f.ino])
         /\ f.offset <= Len(data[f.ino]) =>
              /\ f.offset + Len(Block(f)) <= Len(data[f.ino])
              /\ Block(f) = SubSeq(data[f.ino], f.offset + 1, f.offset + Len(Block(f)))
<1> DEFINE d == data[f.ino]
           size == Len(d)
           upTo == IF f.offset + BlockSize < size THEN f.offset + BlockSize ELSE size
<1>1. d \in Seq(Units) /\ size \in Nat /\ f.offset \in Nat /\ BlockSize \in Nat
  BY ObjectFields, ConfigAssumption DEF FileTypes
<1>2. upTo \in Nat /\ upTo <= size
  BY <1>1
<1>3. Block(f) = SubSeq(d, f.offset + 1, upTo)
  BY DEF Block
<1> DEFINE from == f.offset
<1>4. \A k \in (from + 1)..upTo : d[k] \in Units
  BY <1>1, <1>2
<1>5. from <= size => from <= upTo
  BY <1>1
<1> HIDE DEF d, upTo, from
<1>6. /\ SubSeq(d, from + 1, upTo) \in Seq(Units)
      /\ Len(SubSeq(d, from + 1, upTo)) = IF from + 1 <= upTo THEN upTo - (from + 1) + 1 ELSE 0
  BY <1>1, <1>2, <1>4, SubSeqProperties DEF from
<1> DEFINE b == SubSeq(d, from + 1, upTo)
<1> HIDE DEF b
<1>7. /\ b \in Seq(Units) /\ from \in Nat
      /\ Len(b) = IF from + 1 <= upTo THEN upTo - from ELSE 0
  BY <1>1, <1>2, <1>6 DEF b, from
<1>8. \A k \in 1..Len(b) : from + k <= size
  BY <1>1, <1>2, <1>7
<1>9. from <= size => from + Len(b) = upTo
  BY <1>1, <1>2, <1>5, <1>7
<1>10. Len(b) \in Nat
  BY <1>7
<1> QED
  BY <1>2, <1>3, <1>7, <1>8, <1>9, <1>10 DEF b, from, d

(* The steps that leave the files, their content and the marks alone.      *)
LEMMA CallTypes ==
  ASSUME FileTypes, sem' \in SemaphoreOf(Callers), task' \in [Tasks -> TaskState],
         UNCHANGED <<data, written, link, file, old, lines, wm, db, out>>
  PROVE  FileTypes'
  BY DEF FileTypes

LEMMA AskSemType ==
  ASSUME FileTypes, NEW t \in Tasks, AskSem(t)
  PROVE  sem' \in SemaphoreOf(Callers) /\ task' \in [Tasks -> TaskState]
<1>1. sem' \in SemaphoreOf(Callers)
  BY TaskOfCaller, TakeProperties DEF AskSem, FileTypes
<1>2. task' \in [Tasks -> TaskState]
  BY TaskType DEF AskSem, FileTypes
<1> QED
  BY <1>1, <1>2

LEMMA LeaveSemType ==
  ASSUME FileTypes, NEW tasks \in [Tasks -> TaskState], LeaveSem(tasks)
  PROVE  sem' \in SemaphoreOf(Callers) /\ task' \in [Tasks -> TaskState]
<1>1. sem' \in SemaphoreOf(Callers)
  BY LeaveProperties DEF LeaveSem, FileTypes
<1>2. task' \in [Tasks -> TaskState]
  BY WokeType DEF LeaveSem
<1> QED
  BY <1>1, <1>2

LEMMA OpenTypes ==
  ASSUME FileTypes, NEW t \in Tasks, Ask(t) \/ Granted(t) \/ Open(t)
  PROVE  FileTypes'
<1>0. t[2] \in Files /\ task \in [Tasks -> TaskState]
  BY TaskOfCaller DEF FileTypes
<1>1. CASE Ask(t)
  BY <1>1, AskSemType, CallTypes DEF Ask, World, disk, memory, marks
<1>2. CASE Granted(t)
  <2>1. sem' \in SemaphoreOf(Callers) /\ task' \in [Tasks -> TaskState]
    <3>1. CASE file[t[2]].fd = "none"
      <4>1. task' = [task EXCEPT ![t].pc = "opening"] /\ sem' = sem
        BY <1>2, <3>1 DEF Granted
      <4>2. [task EXCEPT ![t].pc = "opening"] \in [Tasks -> TaskState]
        BY <1>0, TaskType
      <4> QED
        BY <4>1, <4>2 DEF FileTypes
    <3>2. CASE file[t[2]].fd # "none"
      <4>1. LeaveSem(AfterOpen(task, t))
        BY <1>2, <3>2 DEF Granted
      <4> QED
        BY <1>0, <4>1, AfterOpenType, LeaveSemType
    <3> QED
      BY <3>1, <3>2
  <2> QED
    BY <1>2, <2>1, CallTypes DEF Granted, World, disk, memory, marks
<1>3. CASE Open(t)
  <2> DEFINE p == t[2]
  <2>1. /\ link[p] # 0 /\ KeepOrphan(p)
        /\ file' = [file EXCEPT ![p] = NewFile(p)]
        /\ lines' = [lines EXCEPT ![p] = IF Marked(p) THEN @ ELSE <<>>]
        /\ wm' = [wm EXCEPT ![p] = Opened(p)]
        /\ LeaveSem(AfterOpen(Orphans(task, p), t))
        /\ UNCHANGED <<data, written, link, out, db>>
    BY <1>3 DEF Open, World, disk
  <2>2. NewFile(p) \in OpenFiles /\ Opened(p) \in Position /\ <<>> \in Seq(Line)
    BY <1>0, <2>1, OpenedType, EmptySeq
  <2>3. sem' \in SemaphoreOf(Callers) /\ task' \in [Tasks -> TaskState]
    BY <1>0, <2>1, AfterOpenType, LeaveSemType
  <2>4. old' \in [Files -> OpenFiles]
    BY <1>0, <2>1 DEF KeepOrphan, FileTypes
  <2> HIDE DEF p
  <2>5. p \in Files
    BY <1>0 DEF p
  <2> QED
    BY <2>1, <2>2, <2>3, <2>4, <2>5 DEF FileTypes
<1> QED
  BY <1>1, <1>2, <1>3

(* The steps that change an object and the calls.                          *)
LEMMA ObjectTypes ==
  ASSUME FileTypes, file' \in [Files -> OpenFiles], old' \in [Files -> OpenFiles],
         task' \in [Tasks -> TaskState],
         UNCHANGED <<data, written, link, lines, wm, db, sem, out>>
  PROVE  FileTypes'
  BY DEF FileTypes

LEMMA FailsType ==
  ASSUME FileTypes, NEW t \in Tasks, Fails(t), UNCHANGED Reading
  PROVE  FileTypes'
<1>1. /\ file' \in [Files -> OpenFiles] /\ old' \in [Files -> OpenFiles]
      /\ task' \in [Tasks -> TaskState]
  BY OwnType, EndsType DEF Fails
<1> QED
  BY <1>1, ObjectTypes DEF Fails, Reading, World, disk, marks

LEMMA DeliversType ==
  ASSUME FileTypes, NEW t \in Tasks, NEW f \in OpenFiles, NEW ls \in Seq(Line),
         Delivers(t, f, ls)
  PROVE  FileTypes'
<1>1. /\ file' \in [Files -> OpenFiles] /\ old' \in [Files -> OpenFiles]
      /\ task' \in [Tasks -> TaskState]
  BY EndsType DEF Delivers
<1>2. t[2] \in Files /\ ToJSON(f) \in Position
  BY TaskOfCaller, ObjectFields
<1>3. lines' = [lines EXCEPT ![t[2]] = ls] /\ wm' = [wm EXCEPT ![t[2]] = ToJSON(f)]
  BY DEF Delivers
<1>4. UNCHANGED <<data, written, link, db, sem, out>>
  BY DEF Delivers, Reading, World, disk
<1> QED
  BY <1>1, <1>2, <1>3, <1>4 DEF FileTypes

LEMMA ReadTypes ==
  ASSUME FileTypes, NEW t \in Tasks, Lock(t) \/ StartRead(t) \/ Completes(t)
  PROVE  FileTypes'
<1>0. Own(t) \in OpenFiles /\ t[2] \in Files /\ task \in [Tasks -> TaskState]
  BY OwnType DEF FileTypes
<1>1. CASE Lock(t)
  <2>1. Take(Own(t).held, t) \in SemaphoreOf(Tasks)
    BY <1>0, ObjectFields, TakeProperties
  <2>2. [Own(t) EXCEPT !.held = Take(@, t)] \in OpenFiles
    BY <1>0, <2>1, ObjectChange
  <2>3. file' \in [Files -> OpenFiles] /\ old' \in [Files -> OpenFiles]
    BY <1>1, <2>2, BecomesType DEF Lock
  <2>4. task' \in [Tasks -> TaskState]
    BY <1>0, <1>1, TaskType DEF Lock
  <2> QED
    BY <1>1, <2>3, <2>4, ObjectTypes DEF Lock, Reading, World, disk, marks
<1>2. CASE StartRead(t)
  <2>1. file' \in [Files -> OpenFiles] /\ old' \in [Files -> OpenFiles]
    <3>1. CASE Own(t).fd = "none"
      BY <1>0, <1>2, <3>1, BecomesType DEF StartRead
    <3>2. CASE Own(t).fd # "none"
      BY <1>2, <3>2 DEF StartRead, FileTypes
    <3> QED
      BY <3>1, <3>2
  <2>2. task' \in [Tasks -> TaskState]
    <3>1. task' = [task EXCEPT ![t] = Free] \/ task' = [task EXCEPT ![t].pc = "reading"]
      BY <1>2 DEF StartRead
    <3>2. [task EXCEPT ![t].pc = "reading"] \in [Tasks -> TaskState]
      BY <1>0, TaskType
    <3> QED
      BY <1>0, <3>1, <3>2, FreeType
  <2> QED
    BY <1>2, <2>1, <2>2, ObjectTypes DEF StartRead, Reading, World, disk, marks
<1>3. CASE Open(t)
  BY <1>3, OpenTypes
<1>4. CASE OpenFails(t)
  <2>1. CASE t[1] = "read"
    BY <1>4, <2>1, FailsType DEF OpenFails
  <2>2. CASE t[1] # "read"
    <3>1. task' \in [Tasks -> TaskState]
      BY <1>0, <1>4, <2>2, FreeType DEF OpenFails
    <3> QED
      BY <1>4, <2>2, <3>1, CallTypes DEF OpenFails, Reading, World, disk, memory,
         marks, listVars, FileTypes
  <2> QED
    BY <2>1, <2>2
<1>5. CASE Read(t)
  <2> DEFINE f == Own(t)
             a == Split(f, lines[t[2]], Block(f))
             g == [f EXCEPT !.offset = @ + Len(Block(f)), !.tail = a.tail, !.line = a.line]
  <2>1. f.fd = "open" /\ Delivers(t, g, a.lines)
    BY <1>5 DEF Read
  <2>2. /\ f \in OpenFiles /\ f.tail \in Seq(Units) /\ f.line \in Nat /\ f.offset \in Nat
        /\ Block(f) \in Seq(Units) /\ Len(Block(f)) \in Nat /\ lines[t[2]] \in Seq(Line)
    BY <1>0, <2>1, ObjectFields, BlockOf DEF FileTypes
  <2>3. Splits(a, f.line, lines[t[2]], f.tail \o Block(f))
    <3> DEFINE ls == lines[t[2]]
               block == Block(f)
    <3> HIDE DEF f, ls, block
    <3>1. Splits(Split(f, ls, block), f.line, ls, f.tail \o block)
      BY <2>2, SplitGives DEF ls, block
    <3> QED
      BY <3>1 DEF ls, block
  <2> HIDE DEF a
  <2>4. a.lines \in Seq(Line) /\ a.tail \in Seq(Units) /\ a.line \in Nat
    <3> HIDE DEF f
    <3>1. PICK new \in Seq(Line) :
            a.lines = lines[t[2]] \o new /\ a.tail \in Seq(Units) /\ a.line = f.line + Len(new)
      BY <2>3 DEF Splits
    <3> QED
      BY <2>2, <3>1, ConcatProperties
  <2>5. g \in OpenFiles
    <3> HIDE DEF f
    <3>1. f.offset + Len(Block(f)) \in Nat
      BY <2>2
    <3> QED
      BY <2>2, <2>4, <3>1, ObjectMoves
  <2> HIDE DEF g
  <2> QED
    BY <2>1, <2>4, <2>5, DeliversType
<1>6. CASE ReadNothing(t)
  <2>1. task' \in [Tasks -> TaskState]
    BY <1>0, <1>6, TaskType DEF ReadNothing
  <2> QED
    BY <1>6, <2>1, CallTypes DEF ReadNothing, Reading, World, disk, memory, marks, FileTypes
<1>7. CASE ReadFails(t)
  BY <1>7, FailsType DEF ReadFails
<1>8. CASE Stat(t)
  <2>1. task' \in [Tasks -> TaskState]
    BY <1>0, <1>8, TaskType DEF Stat
  <2>2. file' \in [Files -> OpenFiles] /\ old' \in [Files -> OpenFiles]
    <3>1. CASE AnotherFile(t[2], Own(t))
      <4>1. [Own(t) EXCEPT !.offset = 0] \in OpenFiles
        BY <1>0, EmptySeq, ObjectMoves
      <4>2. Becomes(t, [Own(t) EXCEPT !.offset = 0], FALSE)
        BY <1>8, <3>1 DEF Stat
      <4> QED
        BY <4>1, <4>2, BecomesType
    <3>2. CASE ~AnotherFile(t[2], Own(t))
      BY <1>8, <3>2 DEF Stat, FileTypes
    <3> QED
      BY <3>1, <3>2
  <2> QED
    BY <1>8, <2>1, <2>2, ObjectTypes DEF Stat, Reading, World, disk, marks
<1>9. CASE CloseRead(t)
  <2>1. Delivers(t, [Own(t) EXCEPT !.fd = "none"], lines[t[2]])
    BY <1>9 DEF CloseRead
  <2>2. [Own(t) EXCEPT !.fd = "none"] \in OpenFiles /\ lines[t[2]] \in Seq(Line)
    BY <1>0, ObjectFields, ObjectChange DEF FileTypes
  <2> QED
    BY <2>1, <2>2, DeliversType
<1>10. CASE StopClose(t)
  <2>1. Shut(Own(t)) \in OpenFiles
    BY <1>0, ObjectFields, ObjectChange DEF Shut
  <2>2. Ends(t, Shut(Own(t))) /\ UNCHANGED <<Reading, lines, marks, sem>>
    BY <1>10 DEF StopClose
  <2> QED
    BY <2>1, <2>2, EndsType, ObjectTypes DEF Reading, World, disk, marks
<1> QED
  BY <1>1, <1>2, <1>3, <1>4, <1>5, <1>6, <1>7, <1>8, <1>9, <1>10 DEF Completes

LEMMA HandType ==
  ASSUME FileTypes, NEW p \in Files, Hand(p)
  PROVE  lines' \in [Files -> Seq(Line)] /\ out' \in [Inodes -> Seq(Line)]
<1>1. /\ Tail(lines[p]) \in Seq(Line) /\ Head(lines[p]) \in Line
      /\ lines' = [lines EXCEPT ![p] = Tail(lines[p])]
      /\ out' = [out EXCEPT ![file[p].ino] = Append(@, Head(lines[p]))]
  BY DEF FileTypes, Hand, Shift
<1>2. \A i \in Inodes : Append(out[i], Head(lines[p])) \in Seq(Line)
  BY <1>1 DEF FileTypes
<1> QED
  BY <1>1, <1>2 DEF FileTypes

LEMMA NextTypes ==
  ASSUME FileTypes, NextLine \/ NextRead \/ Answer
  PROVE  FileTypes'
<1>1. CASE NextLine \/ Answer
  <2>1. UNCHANGED <<data, written, link, file, old, wm, db, sem, task>>
    BY <1>1 DEF NextLine, Answer, Fetching, disk, marks
  <2>2. (\E p \in Files : Hand(p)) \/ UNCHANGED <<lines, out>>
    BY <1>1 DEF NextLine, Answer, Known
  <2>3. lines' \in [Files -> Seq(Line)] /\ out' \in [Inodes -> Seq(Line)]
    BY <2>2, HandType DEF FileTypes
  <2> QED
    BY <2>1, <2>3 DEF FileTypes
<1>2. CASE NextRead
  <2>1. task' \in [Tasks -> TaskState]
    <3>1. [Free EXCEPT !.pc = "ask"] \in TaskState
      BY DEF Free, TaskState
    <3> QED
      BY <1>2, <3>1 DEF NextRead, FileTypes
  <2> QED
    BY <1>2, <2>1, CallTypes DEF NextRead, Fetching, disk, marks, FileTypes
<1> QED
  BY <1>1, <1>2

LEMMA MonitorTypes ==
  ASSUME FileTypes, NEW p \in Files, MonitorEvent(p)
  PROVE  FileTypes'
<1>0. task \in [Tasks -> TaskState] /\ <<"open", p>> \in Tasks
  BY TaskOfCaller DEF FileTypes
<1>1. CASE Add(p)
  <2>1. task' \in [Tasks -> TaskState]
    <3>1. task' = task \/ task' = [task EXCEPT ![<<"open", p>>].pc = "ask"]
      BY <1>1 DEF Add
    <3>2. [task EXCEPT ![<<"open", p>>].pc = "ask"] \in [Tasks -> TaskState]
      BY <1>0, TaskType
    <3> QED
      BY <1>0, <3>1, <3>2
  <2> QED
    BY <1>1, <2>1, CallTypes DEF Add, Monitoring, disk, marks, memory, history, FileTypes
<1>2. CASE ChangeSeen(p)
  BY <1>0, <1>2, CallTypes DEF ChangeSeen, Monitoring, disk, marks, memory, history, FileTypes
<1>3. CASE Unlink(p)
  <2>1. file' \in [Files -> OpenFiles]
    BY <1>3, NoFileType DEF Unlink, FileTypes
  <2>2. Shut(file[p]) \in OpenFiles
    <3>1. file[p] \in OpenFiles
      BY DEF FileTypes
    <3> QED
      BY <3>1, ObjectFields, ObjectChange DEF Shut
  <2>3. old' \in [Files -> OpenFiles]
    BY <1>3, <2>2 DEF Unlink, FileTypes
  <2>4. task' \in [Tasks -> TaskState]
    BY <1>0, <1>3, AfterOpenType DEF Unlink
  <2> QED
    BY <1>3, <2>1, <2>3, <2>4, ObjectTypes DEF Unlink, Monitoring, disk, marks, history
<1> QED
  BY <1>1, <1>2, <1>3 DEF MonitorEvent

(* The steps of save() and stop() that store the marks.                    *)
LEMMA StoringTypes ==
  ASSUME FileTypes, Store, sem' \in SemaphoreOf(Callers), task' \in [Tasks -> TaskState],
         UNCHANGED <<data, written, link, file, old, lines, out>>
  PROVE  FileTypes'
  BY StoreType DEF FileTypes

LEMMA StopTypes ==
  ASSUME FileTypes, Save \/ SaveMarks \/ Stop \/ StopFiles \/ StopLeave \/ StopSave
  PROVE  FileTypes'
<1>0. task \in [Tasks -> TaskState] /\ sem \in SemaphoreOf(Callers)
  BY DEF FileTypes
<1>1. CASE Save
  BY <1>0, <1>1, TaskOfCaller, TakeProperties, CallTypes DEF Save, Saving, disk, memory, marks, history
<1>2. CASE SaveMarks
  <2>1. sem' \in SemaphoreOf(Callers) /\ task' \in [Tasks -> TaskState]
    BY <1>0, <1>2, LeaveProperties, WokeType DEF SaveMarks
  <2> QED
    BY <1>2, <2>1, StoringTypes DEF SaveMarks, Saving, disk, memory, history
<1>3. CASE Stop
  BY <1>0, <1>3, TaskOfCaller, TakeProperties, CallTypes DEF Stop, Saving, disk, memory, marks, history
<1>4. CASE StopFiles
  <2>1. task' \in [Tasks -> TaskState]
    <3>1. [Free EXCEPT !.pc = "opened"] \in TaskState
      BY DEF Free, TaskState
    <3> QED
      BY <1>0, <1>4, <3>1 DEF StopFiles
  <2> QED
    BY <1>0, <1>4, <2>1, CallTypes DEF StopFiles, Saving, disk, memory, marks, history
<1>5. CASE StopLeave
  <2>1. Leave(sem) \in SemaphoreOf(Callers)
    BY <1>0, LeaveProperties
  <2>2. sem' \in SemaphoreOf(Callers)
    BY <1>5, <2>1, TaskOfCaller, TakeProperties DEF StopLeave
  <2>3. task' \in [Tasks -> TaskState]
    BY <1>0, <1>5, WokeType DEF StopLeave
  <2> QED
    BY <1>5, <2>2, <2>3, CallTypes DEF StopLeave, Saving, disk, memory, marks, history
<1>6. CASE StopSave
  <2>1. sem' \in SemaphoreOf(Callers) /\ task' \in [Tasks -> TaskState]
    BY <1>0, <1>6, LeaveProperties, WokeType DEF StopSave
  <2> QED
    BY <1>6, <2>1, StoringTypes DEF StopSave, Saving, disk, memory, history
<1> QED
  BY <1>1, <1>2, <1>3, <1>4, <1>5, <1>6

LEMMA RestartTypes ==
  ASSUME FileTypes, Restart
  PROVE  FileTypes'
<1>1. /\ NoFile \in OpenFiles /\ Free \in TaskState
      /\ Sem(1) \in SemaphoreOf(Callers) /\ <<>> \in Seq(Line)
  BY NoFileType, FreeType, SemType, EmptySeq
<1>2. /\ file' = [p \in Files |-> NoFile] /\ old' = [p \in Files |-> NoFile]
      /\ lines' = [p \in Files |-> db[p].lines] /\ wm' = [p \in Files |-> db[p].mark]
      /\ sem' = Sem(1) /\ task' = [t \in Tasks |-> Free]
      /\ out' = [i \in Inodes |-> <<>>]
      /\ UNCHANGED <<data, written, link, db>>
  BY DEF Restart, disk
<1> QED
  BY <1>1, <1>2 DEF FileTypes

LEMMA ChangeTypes ==
  ASSUME FileTypes, NEW p \in Files, FileChange(p)
  PROVE  FileTypes'
<1>0. UNCHANGED <<file, old, lines, wm, db, sem, task, out>>
  BY DEF FileChange, AppendTo, Truncate, Delete, Create, Unannounced, memory, marks
<1>1. CASE AppendTo(p)
  <2>1. /\ link[p] \in Inodes /\ written \in Nat /\ written < MaxUnits
        /\ written' = written + 1
        /\ data' = [data EXCEPT ![link[p]] = Append(@, written')]
        /\ link' = link
    BY <1>1, WorldAssumption DEF AppendTo, FileTypes
  <2>2. written' \in 0..MaxUnits /\ written' \in Units
    BY <2>1, WorldAssumption DEF Units
  <2>3. data' \in [Inodes -> Seq(Units)]
    BY <2>1, <2>2 DEF FileTypes
  <2> QED
    BY <1>0, <2>1, <2>2, <2>3 DEF FileTypes
<1>2. CASE Truncate(p)
  BY <1>0, <1>2, EmptySeq DEF Truncate, FileTypes
<1>3. CASE Delete(p)
  BY <1>0, <1>3 DEF Delete, FileTypes
<1>4. CASE Create(p)
  BY <1>0, <1>4 DEF Create, FileTypes
<1> QED
  BY <1>1, <1>2, <1>3, <1>4 DEF FileChange

(* A step is one of these.                                                 *)
LEMMA FileSteps ==
  ASSUME FileNext
  PROVE  \/ \E t \in Tasks : Ask(t) \/ Granted(t) \/ Lock(t) \/ StartRead(t) \/ Completes(t)
         \/ NextLine \/ NextRead \/ Answer
         \/ \E p \in Files : MonitorEvent(p)
         \/ Save \/ SaveMarks \/ Stop \/ StopFiles \/ StopLeave \/ StopSave
         \/ Restart
         \/ \E p \in Paths : FileChange(p)
  BY DEF FileNext, Progress, Resume, Resumes, NextCall

LEMMA PathsAreFiles ==
  ASSUME NEW p \in Paths
  PROVE  p \in Files
  BY WorldAssumption DEF Paths, FirstFile

LEMMA TypesStep ==
  ASSUME FileTypes, [FileNext]_fileVars
  PROVE  FileTypes'
<1>1. CASE \E t \in Tasks : Ask(t) \/ Granted(t) \/ Lock(t) \/ StartRead(t) \/ Completes(t)
  BY <1>1, OpenTypes, ReadTypes
<1>2. CASE NextLine \/ NextRead \/ Answer
  BY <1>2, NextTypes
<1>3. CASE \E p \in Files : MonitorEvent(p)
  BY <1>3, MonitorTypes
<1>4. CASE Save \/ SaveMarks \/ Stop \/ StopFiles \/ StopLeave \/ StopSave
  BY <1>4, StopTypes
<1>5. CASE Restart
  BY <1>5, RestartTypes
<1>6. CASE \E p \in Paths : FileChange(p)
  BY <1>6, ChangeTypes, PathsAreFiles
<1>7. CASE UNCHANGED fileVars
  BY <1>7 DEF fileVars, disk, memory, marks, history, FileTypes
<1> QED
  BY <1>1, <1>2, <1>3, <1>4, <1>5, <1>6, <1>7, FileSteps

(***************************************************************************)
(* Files that only grow stay where they are.                               *)
(***************************************************************************)

Disk ==
  /\ \A p, q \in Files : link[p] # 0 /\ link[p] = link[q] => p = q
  /\ \A p \in Paths : link[p] # 0
  /\ \A p \in Files : <<"unlink", p>> \notin events
  /\ \A i \in Inodes : \A k \in 1..Len(data[i]) : data[i][k] <= written
  /\ \A i \in Inodes : \A k, l \in 1..Len(data[i]) : k < l => data[i][k] < data[i][l]

(* What a step may change.                                                 *)
LEMMA Untouched ==
  ASSUME FileNext
  PROVE  \/ UNCHANGED <<world, data, written, link, spoiled>>
         \/ \E p \in Paths : FileChange(p)
<1>1. CASE \E t \in Tasks : Ask(t) \/ Granted(t) \/ Lock(t) \/ StartRead(t) \/ Completes(t)
  <2>1. PICK t \in Tasks : Ask(t) \/ Granted(t) \/ Lock(t) \/ StartRead(t) \/ Completes(t)
    BY <1>1
  <2>2. CASE Ask(t) \/ Granted(t) \/ Lock(t) \/ StartRead(t)
    BY <2>2 DEF Ask, Granted, Lock, StartRead, Reading, World, disk
  <2>3. CASE Completes(t)
    BY <2>3 DEF Completes, Open, OpenFails, Read, ReadNothing, ReadFails, Stat,
       CloseRead, StopClose, Delivers, Reading, World, disk
  <2> QED
    BY <2>1, <2>2, <2>3
<1>2. CASE NextLine \/ NextRead \/ Answer
  BY <1>2 DEF NextLine, NextRead, Answer, Fetching, Hand, disk
<1>3. CASE \E p \in Files : MonitorEvent(p)
  BY <1>3 DEF MonitorEvent, Add, ChangeSeen, Unlink, Monitoring, disk, history
<1>4. CASE Save \/ SaveMarks \/ Stop \/ StopFiles \/ StopLeave \/ StopSave
  BY <1>4 DEF Save, SaveMarks, Stop, StopFiles, StopLeave, StopSave, Saving, disk, history
<1>5. CASE Restart
  BY <1>5 DEF Restart, disk
<1> QED
  BY <1>1, <1>2, <1>3, <1>4, <1>5, FileSteps

(* Nor do these steps add an event of a file that has gone.                *)
LEMMA NoUnlinks ==
  ASSUME FileNext, ~\E p \in Paths : FileChange(p), NEW q \in Files,
         <<"unlink", q>> \notin events
  PROVE  <<"unlink", q>> \notin events'
<1>1. CASE \E t \in Tasks : Ask(t) \/ Granted(t) \/ Lock(t) \/ StartRead(t) \/ Completes(t)
  <2>1. PICK t \in Tasks : Ask(t) \/ Granted(t) \/ Lock(t) \/ StartRead(t) \/ Completes(t)
    BY <1>1
  <2>2. CASE Ask(t) \/ Granted(t) \/ Lock(t) \/ StartRead(t)
    BY <2>2 DEF Ask, Granted, Lock, StartRead, Reading, World
  <2>3. CASE Completes(t)
    BY <2>3 DEF Completes, Open, OpenFails, Read, ReadNothing, ReadFails, Stat,
       CloseRead, StopClose, Delivers, Reading, World
  <2> QED
    BY <2>1, <2>2, <2>3
<1>2. CASE NextLine \/ NextRead \/ Answer
  BY <1>2 DEF NextLine, NextRead, Answer, Fetching
<1>3. CASE \E p \in Files : MonitorEvent(p)
  BY <1>3 DEF MonitorEvent, Add, ChangeSeen, Unlink
<1>4. CASE Save \/ SaveMarks \/ Stop \/ StopFiles \/ StopLeave \/ StopSave
  BY <1>4 DEF Save, SaveMarks, Stop, StopFiles, StopLeave, StopSave, Saving
<1>5. CASE Restart
  <2>1. events' = {"add"} \X {p \in Files : link[p] # 0}
    BY <1>5 DEF Restart
  <2> QED
    BY <2>1
<1> QED
  BY <1>1, <1>2, <1>3, <1>4, <1>5, FileSteps

(* A change that spoils nothing is text that is appended.                  *)
LEMMA OnlyAppends ==
  ASSUME FileTypes, Disk, spoiled' = {}, NEW p \in Paths, FileChange(p)
  PROVE  AppendTo(p) /\ p \in Files
<1>1. p \in Files
  BY PathsAreFiles
<1>2. ~Truncate(p) /\ ~Delete(p)
  BY DEF Truncate, Delete
<1>3. ~Create(p)
  BY DEF Create, Disk
<1> QED
  BY <1>1, <1>2, <1>3 DEF FileChange

LEMMA SpoiledGrows ==
  ASSUME [FileNext]_fileVars, spoiled' = {}
  PROVE  spoiled = {}
<1>1. CASE \E p \in Paths : FileChange(p)
  BY <1>1 DEF FileChange, AppendTo, Truncate, Delete, Create
<1>2. CASE UNCHANGED fileVars
  BY <1>2 DEF fileVars, history
<1> QED
  BY <1>1, <1>2, Untouched

(* What an append does to the files.                                       *)
LEMMA AppendEffect ==
  ASSUME FileTypes, NEW p \in Files, AppendTo(p)
  PROVE  /\ link[p] \in Inodes /\ written \in Nat /\ written' \in Units
         /\ written' = written + 1
         /\ data[link[p]] \in Seq(Units)
         /\ data' = [data EXCEPT ![link[p]] = Append(data[link[p]], written')]
         /\ UNCHANGED <<world, link, spoiled, file, old, lines, wm, db, sem, task, out, seen>>
<1>1. /\ link[p] \in Inodes /\ written \in Nat /\ written < MaxUnits
      /\ written' = written + 1
      /\ data' = [data EXCEPT ![link[p]] = Append(@, written')]
  BY WorldAssumption DEF AppendTo, FileTypes
<1>2. written' \in Units
  BY <1>1, WorldAssumption DEF Units
<1>3. UNCHANGED <<world, link, spoiled, file, old, lines, wm, db, sem, task, out, seen>>
  BY DEF AppendTo, Unannounced, memory, marks
<1> QED
  BY <1>1, <1>2, <1>3 DEF FileTypes

LEMMA DiskStep ==
  ASSUME FileTypes, Disk, [FileNext]_fileVars, spoiled' = {}
  PROVE  Disk'
<1>1. CASE UNCHANGED fileVars
  BY <1>1 DEF fileVars, disk, Disk, Paths
<1>2. CASE FileNext /\ ~\E p \in Paths : FileChange(p)
  BY <1>2, Untouched, NoUnlinks DEF Disk, Paths
<1>3. CASE \E p \in Paths : FileChange(p)
  <2>1. PICK p \in Paths : AppendTo(p) /\ p \in Files
    BY <1>3, OnlyAppends
  <2>2. /\ link[p] \in Inodes /\ written \in Nat /\ written' \in Units
        /\ written' = written + 1
        /\ data[link[p]] \in Seq(Units)
        /\ data' = [data EXCEPT ![link[p]] = Append(data[link[p]], written')]
        /\ UNCHANGED <<world, link>>
    BY <2>1, AppendEffect
  <2>3. \A q \in Files : <<"unlink", q>> \notin events'
    BY <2>1 DEF AppendTo, Changed, Disk
  <2> DEFINE d == data[link[p]]
             e == Append(d, written')
  <2>4. /\ Len(e) = Len(d) + 1 /\ Len(d) \in Nat /\ \A k \in 1..Len(d) : e[k] = d[k] /\ d[k] \in Nat
        /\ e[Len(d) + 1] = written'
    <3>1. \A k \in 1..Len(d) : d[k] \in Nat
      <4>1. \A k \in 1..Len(d) : d[k] \in Units
        BY <2>2, ElementOfSeq
      <4>2. Units \subseteq Nat
        BY WorldAssumption DEF Units
      <4> QED
        BY <4>1, <4>2
    <3> QED
      BY <2>2, <3>1, AppendProperties
  <2>5. \A k \in 1..Len(d) : d[k] <= written
    BY <2>2 DEF Disk
  <2>6. \A k, l \in 1..Len(d) : k < l => d[k] < d[l]
    BY <2>2 DEF Disk
  <2> HIDE DEF e
  <2>7. \A k \in 1..Len(e) : k \in 1..Len(d) \/ k = Len(d) + 1
    BY <2>4
  <2> HIDE DEF d
  <2>8. \A k \in 1..Len(e) : e[k] <= written'
    BY <2>2, <2>4, <2>5, <2>7
  <2>9. \A k, l \in 1..Len(e) : k < l => e[k] < e[l]
    <3> SUFFICES ASSUME NEW k \in 1..Len(e), NEW l \in 1..Len(e), k < l
                 PROVE  e[k] < e[l]
      OBVIOUS
    <3>1. k \in 1..Len(d)
      BY <2>4
    <3>2. CASE l \in 1..Len(d)
      BY <2>4, <2>6, <3>1, <3>2
    <3>3. CASE l = Len(d) + 1
      BY <2>2, <2>4, <2>5, <3>1, <3>3
    <3> QED
      BY <2>7, <3>2, <3>3
  <2>10. data' = [data EXCEPT ![link[p]] = e]
    BY <2>2 DEF d, e
  <2>11. \A i \in Inodes : data'[i] = IF i = link[p] THEN e ELSE data[i]
    BY <2>10 DEF FileTypes
  <2>12. \A i \in Inodes : \A k \in 1..Len(data'[i]) : data'[i][k] <= written'
    <3> SUFFICES ASSUME NEW i \in Inodes, NEW k \in 1..Len(data'[i])
                 PROVE  data'[i][k] <= written'
      OBVIOUS
    <3>1. CASE i = link[p]
      BY <2>8, <2>11, <3>1
    <3>2. CASE i # link[p]
      <4>1. data[i][k] \in Units /\ data[i][k] <= written
        BY <2>11, <3>2 DEF FileTypes, Disk
      <4> QED
        BY <2>2, <2>11, <3>2, <4>1 DEF Units
    <3> QED
      BY <3>1, <3>2
  <2>13. \A i \in Inodes : \A k, l \in 1..Len(data'[i]) : k < l => data'[i][k] < data'[i][l]
    BY <2>9, <2>11 DEF Disk
  <2> QED
    BY <2>2, <2>3, <2>12, <2>13 DEF Disk, Paths
<1> QED
  BY <1>1, <1>2, <1>3

(***************************************************************************)
(* A file is opened by one call at a time, and a read that goes on with an *)
(* object that left this.files finds it without a descriptor.              *)
(***************************************************************************)

Found(p) == file[p].ino # 0
InWait(s, t) == \E k \in 1..Len(s.wait) : s.wait[k] = t
Early(t) == task[t].pc \in {"ask", "granted", "opening"} \/ InWait(sem, t)
Underway(t) ==
  task[t].pc \in {"opened", "waiting", "locked", "reading", "stat", "closing"}
MayOpen(t) == IF t[1] = "open" THEN ~Found(t[2]) ELSE t[1] = "read" /\ Found(t[2])

OpensQueued(s, tasks) ==
  \A k \in 1..Len(s.wait) : s.wait[k][1] = "open" =>
    /\ tasks[s.wait[k]].pc = "queued"
    /\ \A l \in 1..Len(s.wait) : s.wait[k] = s.wait[l] => k = l

Whose(h, p) == \A k \in 1..Len(h.wait) : h.wait[k][2] = p

OpensOnce ==
  /\ \A p \in Files : ~Found(p) => file[p] = NoFile
  /\ \A t \in Tasks : Early(t) => MayOpen(t)
  /\ \A t \in Tasks : Underway(t) => Found(t[2])
  /\ OpensQueued(sem, task)
  /\ \A t \in Tasks : task[t].pc = "opening" => file[t[2]].fd = "none"
  /\ \A t \in Tasks : task[t].obj = "old" => t[1] = "read" /\ old[t[2]].fd = "none"
  /\ \A p \in Files : Whose(file[p].held, p) /\ Whose(old[p].held, p)

LEMMA TakeWait ==
  ASSUME NEW s \in SemaphoreOf(Callers), NEW x \in Callers, NEW tasks, NEW after,
         OpensQueued(s, tasks), x[1] = "open" => ~InWait(s, x),
         \A t \in Tasks : t # x => after[t] = tasks[t],
         x[1] = "open" /\ ~Available(s) => after[x].pc = "queued"
  PROVE  /\ OpensQueued(Take(s, x), after)
         /\ \A t : InWait(Take(s, x), t) => InWait(s, t) \/ t = x
<1>1. s.wait \in Seq(Callers)
  BY DEF SemaphoreOf
<1>2. \A k \in 1..Len(s.wait) : s.wait[k] \in Callers
  BY <1>1, ElementOfSeq
<1>3. CASE Available(s)
  <2>1. Take(s, x).wait = s.wait
    BY <1>3, TakeProperties
  <2>2. \A k \in 1..Len(s.wait) : s.wait[k][1] = "open" =>
          s.wait[k] \in Tasks /\ s.wait[k] # x
    BY <1>2, TaskOfCaller DEF InWait
  <2> QED
    BY <2>1, <2>2 DEF OpensQueued, InWait
<1>4. CASE ~Available(s)
  <2> DEFINE w == Take(s, x).wait
  <2>1. w = Append(s.wait, x)
    BY <1>4, TakeProperties
  <2>2. /\ Len(w) = Len(s.wait) + 1 /\ Len(s.wait) \in Nat
        /\ \A k \in 1..Len(s.wait) : w[k] = s.wait[k]
        /\ w[Len(s.wait) + 1] = x
    BY <1>1, <2>1, AppendProperties
  <2> HIDE DEF w
  <2>3. \A k \in 1..Len(w) : k \in 1..Len(s.wait) \/ k = Len(s.wait) + 1
    BY <2>2
  <2>4. \A t : InWait(Take(s, x), t) => InWait(s, t) \/ t = x
    BY <2>2, <2>3 DEF InWait, w
  <2>5. ASSUME NEW k \in 1..Len(w), w[k][1] = "open"
        PROVE  /\ after[w[k]].pc = "queued"
               /\ \A l \in 1..Len(w) : w[k] = w[l] => k = l
    <3>1. CASE k \in 1..Len(s.wait)
      <4>1. w[k] = s.wait[k] /\ w[k] # x /\ w[k] \in Tasks
        BY <1>2, <2>2, <2>5, <3>1, TaskOfCaller DEF InWait
      <4>2. /\ tasks[w[k]].pc = "queued"
            /\ \A l \in 1..Len(s.wait) : s.wait[k] = s.wait[l] => k = l
        BY <2>5, <3>1, <4>1 DEF OpensQueued
      <4> QED
        BY <2>2, <2>3, <3>1, <4>1, <4>2
    <3>2. CASE k = Len(s.wait) + 1
      <4>1. w[k] = x /\ \A l \in 1..Len(s.wait) : w[l] # x
        BY <2>2, <2>5, <3>2 DEF InWait
      <4> QED
        BY <1>4, <2>3, <2>5, <3>2, <4>1
    <3> QED
      BY <2>3, <3>1, <3>2
  <2>6. OpensQueued(Take(s, x), after)
    BY <2>5 DEF OpensQueued, w
  <2> QED
    BY <2>4, <2>6
<1> QED
  BY <1>3, <1>4

LEMMA LeaveWait ==
  ASSUME NEW s \in SemaphoreOf(Callers), NEW tasks, NEW after,
         OpensQueued(s, tasks),
         \A t \in Tasks : InWait(s, t) /\ t[1] = "open" /\ t \notin Woken(s) =>
           after[t] = tasks[t]
  PROVE  /\ OpensQueued(Leave(s), after)
         /\ \A t : InWait(Leave(s), t) => InWait(s, t)
         /\ \A t \in Woken(s) : InWait(s, t)
         /\ Leave(s) \in SemaphoreOf(Callers)
<1>1. s.wait \in Seq(Callers)
  BY DEF SemaphoreOf
<1>2. \A k \in 1..Len(s.wait) : s.wait[k] \in Callers
  BY <1>1, ElementOfSeq
<1>0. Leave(s) \in SemaphoreOf(Callers)
  BY LeaveProperties
<1>3. CASE ~HandsOver(s)
  <2>1. Leave(s).wait = s.wait /\ Woken(s) = {}
    BY <1>3, LeaveProperties
  <2>2. \A k \in 1..Len(s.wait) : s.wait[k][1] = "open" => s.wait[k] \in Tasks
    BY <1>2, TaskOfCaller
  <2> QED
    BY <1>0, <2>1, <2>2 DEF OpensQueued, InWait
<1>4. CASE HandsOver(s)
  <2> DEFINE w == Leave(s).wait
  <2>1. w = Tail(s.wait) /\ Woken(s) = {s.wait[1]} /\ Len(s.wait) >= 1 /\ s.wait # <<>>
    BY <1>4, LeaveProperties DEF HandsOver
  <2>2. /\ Len(w) = Len(s.wait) - 1 /\ Len(s.wait) \in Nat
        /\ \A k \in 1..Len(w) : w[k] = s.wait[k + 1]
    BY <1>1, <2>1, HeadTailProperties
  <2> HIDE DEF w
  <2>3. \A k \in 1..Len(w) : k + 1 \in 1..Len(s.wait)
    BY <2>2
  <2>4. \A t : InWait(Leave(s), t) => InWait(s, t)
    BY <2>2, <2>3 DEF InWait, w
  <2>5. \A t \in Woken(s) : InWait(s, t)
    BY <2>1, <2>2 DEF InWait
  <2>6. ASSUME NEW k \in 1..Len(w), w[k][1] = "open"
        PROVE  /\ after[w[k]].pc = "queued"
               /\ \A l \in 1..Len(w) : w[k] = w[l] => k = l
    <3>1. w[k] = s.wait[k + 1] /\ w[k] \in Tasks /\ k + 1 # 1
      BY <1>2, <2>2, <2>3, <2>6, TaskOfCaller
    <3>2. /\ tasks[w[k]].pc = "queued"
          /\ \A l \in 1..Len(s.wait) : s.wait[k + 1] = s.wait[l] => k + 1 = l
      BY <2>3, <2>6, <3>1 DEF OpensQueued
    <3>3. w[k] # s.wait[1] /\ InWait(s, w[k])
      BY <2>1, <2>2, <2>3, <3>1, <3>2 DEF InWait
    <3>4. after[w[k]] = tasks[w[k]]
      BY <2>1, <2>6, <3>1, <3>3
    <3>5. \A l \in 1..Len(w) : w[k] = w[l] => k = l
      BY <2>2, <2>3, <3>1, <3>2
    <3> QED
      BY <3>2, <3>4, <3>5
  <2>7. OpensQueued(Leave(s), after)
    BY <2>6 DEF OpensQueued, w
  <2> QED
    BY <1>0, <2>4, <2>5, <2>7
<1> QED
  BY <1>3, <1>4

(* Whoever a leave() wakes goes on, the others stay as they were.          *)
LEMMA WokeMoves ==
  ASSUME NEW tasks \in [Tasks -> TaskState], NEW t \in Tasks
  PROVE  /\ Woke(tasks)[t].obj = tasks[t].obj
         /\ t \in Woken(sem) => Woke(tasks)[t].pc = "granted"
         /\ t \notin Woken(sem) => Woke(tasks)[t] = tasks[t]
<1>1. tasks[t] \in TaskState
  OBVIOUS
<1> QED
  BY <1>1 DEF Woke, TaskState

(* A step that moves calls and leaves the objects where they are.          *)
LEMMA OpensKept ==
  ASSUME FileTypes, OpensOnce,
         \A p \in Files : /\ file'[p].ino = file[p].ino
                          /\ file[p] = NoFile => file'[p] = NoFile
                          /\ file[p].fd = "none" => file'[p].fd = "none"
                          /\ old[p].fd = "none" => old'[p].fd = "none"
                          /\ Whose(file'[p].held, p) /\ Whose(old'[p].held, p),
         \A t \in Tasks : /\ Early(t)' => Early(t) \/ MayOpen(t)
                          /\ Underway(t)' => Underway(t) \/ Found(t[2])
                          /\ task'[t].pc = "opening" =>
                               task[t].pc = "opening" \/ file[t[2]].fd = "none"
                          /\ task'[t].obj = "old" => task[t].obj = "old",
         OpensQueued(sem', task')
  PROVE  OpensOnce'
<1>1. \A t \in Tasks : t[2] \in Files
  BY TaskOfCaller
<1>2. \A p \in Files : Found(p)' <=> Found(p)
  BY DEF Found
<1>3. \A p \in Files : ~Found(p)' => file'[p] = NoFile
  BY <1>2 DEF OpensOnce
<1>4. \A t \in Tasks : MayOpen(t)' <=> MayOpen(t)
  BY <1>1, <1>2 DEF MayOpen
<1>5. \A t \in Tasks : Early(t)' => MayOpen(t)'
  BY <1>4 DEF OpensOnce
<1>6. \A t \in Tasks : Underway(t)' => Found(t[2])'
  BY <1>1, <1>2 DEF OpensOnce
<1>7. \A t \in Tasks : task'[t].pc = "opening" => file'[t[2]].fd = "none"
  BY <1>1 DEF OpensOnce
<1>8. \A t \in Tasks : task'[t].obj = "old" => t[1] = "read" /\ old'[t[2]].fd = "none"
  BY <1>1 DEF OpensOnce
<1> QED
  BY <1>3, <1>5, <1>6, <1>7, <1>8 DEF OpensOnce

(* The calls move, the semaphore stays.                                    *)
LEMMA QueueKept ==
  ASSUME FileTypes, OpensOnce, sem' = sem,
         \A t \in Tasks : task'[t] # task[t] =>
           t[1] # "open" \/ Found(t[2]) \/ task[t].pc # "queued"
  PROVE  OpensQueued(sem', task')
<1>1. \A k \in 1..Len(sem.wait) : sem.wait[k] \in Callers
  <2>1. sem.wait \in Seq(Callers)
    BY DEF FileTypes, SemaphoreOf
  <2> QED
    BY <2>1, ElementOfSeq
<1> SUFFICES ASSUME NEW k \in 1..Len(sem.wait), sem.wait[k][1] = "open"
             PROVE  task'[sem.wait[k]].pc = "queued"
  BY DEF OpensOnce, OpensQueued
<1> DEFINE t == sem.wait[k]
<1>2. t \in Tasks /\ t[1] = "open" /\ task[t].pc = "queued"
  BY <1>1, TaskOfCaller DEF OpensOnce, OpensQueued
<1>3. ~Found(t[2])
  BY <1>2 DEF OpensOnce, Early, InWait, MayOpen
<1> QED
  BY <1>2, <1>3

(* A call that changes its object and ends or goes on.                     *)
LEMMA ObjectKept ==
  ASSUME FileTypes, OpensOnce, NEW t \in Tasks, Found(t[2]),
         NEW f \in OpenFiles, f.ino = Own(t).ino,
         Own(t).fd = "none" => f.fd = "none", Whose(f.held, t[2]),
         NEW e, Becomes(t, f, e), sem' = sem,
         \A u \in Tasks : \/ task'[u] = task[u]
                          \/ /\ u[2] = t[2] /\ task'[u].obj \in {"new", task[u].obj}
                             /\ task'[u].pc \notin {"ask", "granted", "opening"}
  PROVE  OpensOnce'
<1>1. t[2] \in Files /\ Found(t[2]) /\ \A u \in Tasks : u[2] \in Files
  BY TaskOfCaller DEF OpensOnce
<1>2. /\ NoFile.ino = 0 /\ NoFile.fd = "none" /\ Whose(NoFile.held, t[2])
  BY NoFileType DEF Whose
<1>3. \A p \in Files : /\ file'[p].ino = file[p].ino
                       /\ file[p] = NoFile => file'[p] = NoFile
                       /\ file[p].fd = "none" => file'[p].fd = "none"
                       /\ old[p].fd = "none" => old'[p].fd = "none"
                       /\ Whose(file'[p].held, p) /\ Whose(old'[p].held, p)
  <2> SUFFICES ASSUME NEW p \in Files
               PROVE  /\ file'[p].ino = file[p].ino
                      /\ file[p] = NoFile => file'[p] = NoFile
                      /\ file[p].fd = "none" => file'[p].fd = "none"
                      /\ old[p].fd = "none" => old'[p].fd = "none"
                      /\ Whose(file'[p].held, p) /\ Whose(old'[p].held, p)
    OBVIOUS
  <2>0. Whose(file[p].held, p) /\ Whose(old[p].held, p)
    BY DEF OpensOnce
  <2>1. CASE task[t].obj = "new"
    <3>1. file' = [file EXCEPT ![t[2]] = f] /\ old' = old /\ Own(t) = file[t[2]]
      BY <2>1 DEF Becomes, Own
    <3>2. file'[p] = IF p = t[2] THEN f ELSE file[p]
      BY <3>1 DEF FileTypes
    <3> QED
      BY <1>1, <1>2, <2>0, <3>1, <3>2 DEF Found
  <2>2. CASE task[t].obj # "new"
    <3>1. /\ old' = [old EXCEPT ![t[2]] = IF e THEN NoFile ELSE f] /\ file' = file
          /\ Own(t) = old[t[2]]
      BY <2>2 DEF Becomes, Own
    <3>2. old'[p] = IF p = t[2] THEN IF e THEN NoFile ELSE f ELSE old[p]
      BY <3>1 DEF FileTypes
    <3> QED
      BY <1>2, <2>0, <3>1, <3>2
  <2> QED
    BY <2>1, <2>2
<1>4. \A u \in Tasks : /\ Early(u)' => Early(u) \/ MayOpen(u)
                       /\ Underway(u)' => Underway(u) \/ Found(u[2])
                       /\ task'[u].pc = "opening" =>
                            task[u].pc = "opening" \/ file[u[2]].fd = "none"
                       /\ task'[u].obj = "old" => task[u].obj = "old"
  BY <1>1 DEF Early, Underway
<1>5. OpensQueued(sem', task')
  BY <1>1, QueueKept
<1> QED
  BY <1>3, <1>4, <1>5, OpensKept

(* The objects are not touched.                                            *)
LEMMA CallsKept ==
  ASSUME FileTypes, OpensOnce, UNCHANGED <<file, old>>,
         \A t \in Tasks : /\ Early(t)' => Early(t) \/ MayOpen(t)
                          /\ Underway(t)' => Underway(t) \/ Found(t[2])
                          /\ task'[t].pc = "opening" =>
                               task[t].pc = "opening" \/ file[t[2]].fd = "none"
                          /\ task'[t].obj = "old" => task[t].obj = "old",
         OpensQueued(sem', task')
  PROVE  OpensOnce'
<1>1. \A p \in Files : /\ file'[p].ino = file[p].ino
                       /\ file[p] = NoFile => file'[p] = NoFile
                       /\ file[p].fd = "none" => file'[p].fd = "none"
                       /\ old[p].fd = "none" => old'[p].fd = "none"
                       /\ Whose(file'[p].held, p) /\ Whose(old'[p].held, p)
  BY DEF OpensOnce
<1> QED
  BY <1>1, OpensKept

(* The semaphore is left, and the calls become `tasks` before one is woken.*)
LEMMA LeftKept ==
  ASSUME FileTypes, OpensOnce, UNCHANGED <<file, old>>,
         NEW tasks \in [Tasks -> TaskState], sem' = Leave(sem), task' = Woke(tasks),
         \A t \in Tasks :
           \/ tasks[t] = task[t]
           \/ /\ t[1] = "open" => ~InWait(sem, t)
              /\ tasks[t].pc \notin {"ask", "granted", "opening"}
              /\ tasks[t].pc \in {"free", "queued"} \/ Found(t[2])
              /\ tasks[t].obj \in {"new", task[t].obj}
  PROVE  OpensOnce'
<1>1. sem \in SemaphoreOf(Callers) /\ OpensQueued(sem, task)
  BY DEF FileTypes, OpensOnce
<1>2. \A t \in Tasks : InWait(sem, t) /\ t[1] = "open" /\ t \notin Woken(sem) =>
        Woke(tasks)[t] = task[t]
  BY WokeMoves
<1>3. /\ OpensQueued(Leave(sem), Woke(tasks))
      /\ \A t : InWait(Leave(sem), t) => InWait(sem, t)
      /\ \A t \in Woken(sem) : InWait(sem, t)
  <2> DEFINE s == sem
             after == Woke(tasks)
  <2>1. /\ s \in SemaphoreOf(Callers) /\ OpensQueued(s, task)
        /\ \A t \in Tasks : InWait(s, t) /\ t[1] = "open" /\ t \notin Woken(s) =>
             after[t] = task[t]
    BY <1>1, <1>2
  <2> HIDE DEF s, after
  <2>2. /\ OpensQueued(Leave(s), after)
        /\ \A t : InWait(Leave(s), t) => InWait(s, t)
        /\ \A t \in Woken(s) : InWait(s, t)
    BY <2>1, LeaveWait
  <2> QED
    BY <2>2 DEF s, after
<1>4. ASSUME NEW t \in Tasks
      PROVE  /\ Early(t)' => Early(t) \/ MayOpen(t)
             /\ Underway(t)' => Underway(t) \/ Found(t[2])
             /\ task'[t].pc = "opening" =>
                  task[t].pc = "opening" \/ file[t[2]].fd = "none"
             /\ task'[t].obj = "old" => task[t].obj = "old"
  <2>1. CASE t \in Woken(sem)
    <3>1. task'[t].pc = "granted" /\ task'[t].obj = tasks[t].obj /\ InWait(sem, t)
      BY <1>3, <2>1, WokeMoves
    <3> QED
      BY <3>1 DEF Early, Underway
  <2>2. CASE t \notin Woken(sem)
    <3>1. task'[t] = tasks[t]
      BY <2>2, WokeMoves
    <3>2. InWait(sem', t) => InWait(sem, t)
      BY <1>3
    <3> QED
      BY <3>1, <3>2 DEF Early, Underway
  <2> QED
    BY <2>1, <2>2
<1> QED
  BY <1>3, <1>4, CallsKept

LEMMA AskKept ==
  ASSUME FileTypes, OpensOnce, NEW t \in Tasks, Ask(t)
  PROVE  OpensOnce'
<1>1. /\ task[t].pc = "ask" /\ sem' = Take(sem, t)
      /\ task' = [task EXCEPT ![t].pc = IF Available(sem) THEN "granted" ELSE "queued"]
      /\ UNCHANGED <<file, old>>
  BY DEF Ask, AskSem, memory
<1>2. sem \in SemaphoreOf(Callers) /\ t \in Callers /\ OpensQueued(sem, task)
  BY TaskOfCaller DEF FileTypes, OpensOnce
<1>3. t[1] = "open" => ~InWait(sem, t)
  BY <1>1, <1>2 DEF OpensQueued, InWait
<1>4. \A u \in Tasks : task'[u] =
        IF u = t THEN [task[t] EXCEPT !.pc = IF Available(sem) THEN "granted" ELSE "queued"]
                 ELSE task[u]
  BY <1>1 DEF FileTypes
<1>5. task'[t].pc \in {"granted", "queued"} /\ task'[t].obj = task[t].obj
      /\ (~Available(sem) => task'[t].pc = "queued")
  <2>1. task[t] \in TaskState
    BY DEF FileTypes
  <2> QED
    BY <1>4, <2>1 DEF TaskState
<1>6. /\ OpensQueued(Take(sem, t), task')
      /\ \A u : InWait(Take(sem, t), u) => InWait(sem, u) \/ u = t
  <2> DEFINE s == sem
             after == task'
  <2>1. /\ s \in SemaphoreOf(Callers) /\ OpensQueued(s, task)
        /\ t[1] = "open" => ~InWait(s, t)
        /\ \A u \in Tasks : u # t => after[u] = task[u]
        /\ t[1] = "open" /\ ~Available(s) => after[t].pc = "queued"
    BY <1>2, <1>3, <1>4, <1>5
  <2> HIDE DEF s, after
  <2>2. /\ OpensQueued(Take(s, t), after)
        /\ \A u : InWait(Take(s, t), u) => InWait(s, u) \/ u = t
    BY <1>2, <2>1, TakeWait
  <2> QED
    BY <2>2 DEF s, after
<1>7. Early(t)
  BY <1>1 DEF Early
<1>8. ASSUME NEW u \in Tasks
      PROVE  /\ Early(u)' => Early(u) \/ MayOpen(u)
             /\ Underway(u)' => Underway(u) \/ Found(u[2])
             /\ task'[u].pc = "opening" =>
                  task[u].pc = "opening" \/ file[u[2]].fd = "none"
             /\ task'[u].obj = "old" => task[u].obj = "old"
  <2>1. InWait(sem', u) => InWait(sem, u) \/ u = t
    BY <1>1, <1>6
  <2> QED
    BY <1>4, <1>5, <1>7, <2>1 DEF Early, Underway
<1> QED
  BY <1>1, <1>6, <1>8, CallsKept

(* A caller that is not a task takes a slot or queues for it.              *)
LEMMA OtherTakes ==
  ASSUME FileTypes, OpensOnce, UNCHANGED <<file, old, task>>,
         NEW x \in {Saver, Stopper}, sem' = Take(sem, x)
  PROVE  OpensOnce'
<1>1. sem \in SemaphoreOf(Callers) /\ x \in Callers /\ x[1] # "open" /\ OpensQueued(sem, task)
  BY TaskOfCaller DEF FileTypes, OpensOnce
<1>2. \A t \in Tasks : t # x
  BY TaskOfCaller
<1>3. /\ OpensQueued(Take(sem, x), task)
      /\ \A t : InWait(Take(sem, x), t) => InWait(sem, t) \/ t = x
  BY <1>1, TakeWait
<1> QED
  BY <1>2, <1>3, CallsKept DEF Early, Underway

LEMMA GrantedKept ==
  ASSUME FileTypes, OpensOnce, NEW t \in Tasks, Granted(t)
  PROVE  OpensOnce'
<1>1. task[t].pc = "granted" /\ UNCHANGED <<file, old>> /\ task[t] \in TaskState
  BY DEF Granted, memory, FileTypes
<1>2. Early(t) /\ MayOpen(t) /\ ~(t[1] = "open" /\ InWait(sem, t))
  BY <1>1 DEF Early, OpensOnce, OpensQueued, InWait
<1>3. CASE file[t[2]].fd = "none"
  <2>1. task' = [task EXCEPT ![t].pc = "opening"] /\ sem' = sem
    BY <1>3 DEF Granted
  <2>2. \A u \in Tasks : task'[u] = IF u = t THEN [task[t] EXCEPT !.pc = "opening"] ELSE task[u]
    BY <2>1 DEF FileTypes
  <2>3. task'[t].pc = "opening" /\ task'[t].obj = task[t].obj
    BY <1>1, <2>2 DEF TaskState
  <2>4. OpensQueued(sem', task')
    BY <1>1, <2>1, <2>2, QueueKept
  <2>5. \A u \in Tasks : /\ Early(u)' => Early(u) \/ MayOpen(u)
                         /\ Underway(u)' => Underway(u) \/ Found(u[2])
                         /\ task'[u].pc = "opening" =>
                              task[u].pc = "opening" \/ file[u[2]].fd = "none"
                         /\ task'[u].obj = "old" => task[u].obj = "old"
    BY <1>2, <1>3, <2>1, <2>2, <2>3 DEF Early, Underway
  <2> QED
    BY <1>1, <2>4, <2>5, CallsKept
<1>4. CASE file[t[2]].fd # "none"
  <2> DEFINE tasks == AfterOpen(task, t)
  <2>1. sem' = Leave(sem) /\ task' = Woke(tasks)
    BY <1>4 DEF Granted, LeaveSem
  <2>2. tasks \in [Tasks -> TaskState]
    BY AfterOpenType, TaskOfCaller DEF FileTypes
  <2>3. \A u \in Tasks : tasks[u] = IF u = t THEN IF t[1] = "open" THEN Free
                                                  ELSE [task[t] EXCEPT !.pc = "opened"]
                                    ELSE task[u]
    BY DEF AfterOpen, FileTypes
  <2>4. t[1] = "open" \/ Found(t[2])
    BY <1>2 DEF MayOpen
  <2>5. Free.pc = "free" /\ Free.obj = "new"
    BY DEF Free
  <2>6. [task[t] EXCEPT !.pc = "opened"].pc = "opened" /\ [task[t] EXCEPT !.pc = "opened"].obj = task[t].obj
    BY <1>1 DEF TaskState
  <2> HIDE DEF tasks
  <2> QED
    BY <1>1, <1>2, <2>1, <2>2, <2>3, <2>4, <2>5, <2>6, LeftKept
<1> QED
  BY <1>3, <1>4

LEMMA OpenKept ==
  ASSUME FileTypes, OpensOnce, NEW t \in Tasks, Open(t)
  PROVE  OpensOnce'
<1> DEFINE p == t[2]
           moved == Orphans(task, p)
           tasks == AfterOpen(moved, t)
           r == <<"read", p>>
<1>1. /\ task[t].pc = "opening" /\ link[p] # 0 /\ KeepOrphan(p)
      /\ file' = [file EXCEPT ![p] = NewFile(p)]
      /\ sem' = Leave(sem) /\ task' = Woke(tasks)
  BY DEF Open, LeaveSem
<1>2. p \in Files /\ r \in Tasks /\ \A u \in Tasks : u = <<u[1], u[2]>> /\ u[2] \in Files
  BY TaskOfCaller
<1>3. Early(t) /\ MayOpen(t) /\ ~(t[1] = "open" /\ InWait(sem, t)) /\ file[p].fd = "none"
  BY <1>1 DEF Early, OpensOnce, OpensQueued, InWait
<1>4. t[1] # "open" => t = r /\ Found(p)
  BY <1>2, <1>3 DEF MayOpen
<1>5. tasks \in [Tasks -> TaskState] /\ moved \in [Tasks -> TaskState]
  BY <1>2, AfterOpenType DEF FileTypes
<1>6. \A u \in Tasks : /\ \/ moved[u] = task[u]
                          \/ u = r /\ moved[u].pc = task[u].pc /\ Found(p)
                       /\ moved[u].obj = "old" => u[1] = "read"
  <2>1. CASE moved = task
    BY <2>1 DEF OpensOnce
  <2>2. CASE moved # task
    <3>1. moved = [task EXCEPT ![r].obj = "old"] /\ file[p] # NoFile
      BY <2>2 DEF Orphans
    <3>2. \A u \in Tasks : u # r => moved[u] = task[u]
      BY <3>1 DEF FileTypes
    <3>3. task[r] \in TaskState /\ moved[r] = [task[r] EXCEPT !.obj = "old"]
      BY <1>2, <3>1 DEF FileTypes
    <3>4. moved[r].pc = task[r].pc
      BY <3>3 DEF TaskState
    <3>5. Found(p)
      BY <1>2, <3>1 DEF OpensOnce
    <3> QED
      BY <1>2, <3>2, <3>4, <3>5 DEF OpensOnce
  <2> QED
    BY <2>1, <2>2
<1>7. \A u \in Tasks : tasks[u] = IF u = t THEN IF t[1] = "open" THEN Free
                                                ELSE [moved[t] EXCEPT !.pc = "opened"]
                                  ELSE moved[u]
  BY <1>5 DEF AfterOpen
<1>8. \A u \in Tasks : /\ u # t => tasks[u].pc = task[u].pc
                       /\ u # t /\ u # r => tasks[u] = task[u]
                       /\ tasks[u].obj = "old" => u[1] = "read"
                       /\ tasks[t].pc \in {"free", "opened"}
  <2>1. Free.pc = "free" /\ Free.obj = "new"
    BY DEF Free
  <2>2. moved[t] \in TaskState
    BY <1>5
  <2>3. /\ [moved[t] EXCEPT !.pc = "opened"].pc = "opened"
        /\ [moved[t] EXCEPT !.pc = "opened"].obj = moved[t].obj
    BY <2>2 DEF TaskState
  <2> HIDE DEF moved, tasks
  <2> QED
    BY <1>6, <1>7, <2>1, <2>3
<1>9. \A q \in Files : old'[q].fd = "none" \/ (old'[q] = old[q] /\ (q = p => moved = task))
  <2>1. CASE moved = task
    BY <1>1, <2>1 DEF KeepOrphan, FileTypes
  <2>2. CASE moved # task
    <3>1. old' = [old EXCEPT ![p] = file[p]]
      BY <1>1, <2>2 DEF KeepOrphan
    <3> QED
      BY <1>2, <1>3, <3>1 DEF FileTypes
  <2> QED
    BY <2>1, <2>2
<1>10. \A q \in Files : Whose(old'[q].held, q)
  <2>1. old' = [old EXCEPT ![p] = file[p]] \/ old' = old
    BY <1>1 DEF KeepOrphan, FileTypes
  <2> QED
    BY <2>1 DEF OpensOnce, FileTypes
<1> HIDE DEF tasks
<1>11. sem \in SemaphoreOf(Callers) /\ OpensQueued(sem, task)
  BY DEF FileTypes, OpensOnce
<1>12. \A u \in Tasks : InWait(sem, u) /\ u[1] = "open" => tasks[u] = task[u]
  BY <1>3, <1>8
<1>13. /\ OpensQueued(sem', task')
       /\ \A u : InWait(sem', u) => InWait(sem, u)
       /\ \A u \in Woken(sem) : InWait(sem, u)
  <2> DEFINE s == sem
             after == Woke(tasks)
  <2>1. /\ s \in SemaphoreOf(Callers) /\ OpensQueued(s, task)
        /\ \A u \in Tasks : InWait(s, u) /\ u[1] = "open" /\ u \notin Woken(s) =>
             after[u] = task[u]
    BY <1>5, <1>11, <1>12, WokeMoves
  <2> HIDE DEF s, after
  <2>2. /\ OpensQueued(Leave(s), after)
        /\ \A u : InWait(Leave(s), u) => InWait(s, u)
        /\ \A u \in Woken(s) : InWait(s, u)
    BY <2>1, LeaveWait
  <2> QED
    BY <1>1, <2>2 DEF s, after
<1>14. \A u \in Tasks : /\ task'[u].obj = tasks[u].obj
                        /\ u \in Woken(sem) => task'[u].pc = "granted"
                        /\ u \notin Woken(sem) => task'[u] = tasks[u]
  BY <1>1, <1>5, WokeMoves
<1>15. /\ NewFile(p).ino = link[p] /\ NewFile(p).held.wait = <<>>
  BY <1>1, <1>2, OpenedType
<1>16. \A q \in Files : file'[q] = IF q = p THEN NewFile(p) ELSE file[q]
  BY <1>1 DEF FileTypes
<1>17. Found(p)' /\ \A q \in Files : Found(q) => Found(q)'
  BY <1>1, <1>2, <1>15, <1>16 DEF Found
<1>18. \A u \in Tasks : Early(u)' => Early(u) /\ (t[1] = "open" => u # t)
  BY <1>3, <1>8, <1>13, <1>14 DEF Early
<1>19. \A u \in Tasks : Early(u) /\ u[2] = p /\ u # t => u[1] = "read"
  <2> TAKE u \in Tasks
  <2> SUFFICES ASSUME Early(u), u[2] = p, u # t
               PROVE  u[1] = "read"
    OBVIOUS
  <2>1. MayOpen(u)
    BY DEF OpensOnce
  <2>2. CASE u[1] = "open"
    <3>1. ~Found(p)
      BY <2>1, <2>2 DEF MayOpen
    <3>2. t[1] = "open"
      BY <1>4, <3>1
    <3>3. u = t
      BY <1>2, <2>2, <3>2
    <3> QED
      BY <3>3
  <2> QED
    BY <2>1, <2>2 DEF MayOpen
<1>20. \A u \in Tasks : Early(u)' => MayOpen(u)'
  <2> SUFFICES ASSUME NEW u \in Tasks, Early(u)'
               PROVE  MayOpen(u)'
    OBVIOUS
  <2>1. Early(u) /\ MayOpen(u) /\ (t[1] = "open" => u # t)
    BY <1>18 DEF OpensOnce
  <2>2. CASE u[1] = "open"
    <3>1. u[2] # p
      BY <1>4, <1>19, <2>1, <2>2
    <3> QED
      BY <1>2, <1>16, <2>1, <2>2, <3>1 DEF MayOpen, Found
  <2>3. CASE u[1] # "open"
    BY <1>2, <1>17, <2>1, <2>3 DEF MayOpen
  <2> QED
    BY <2>2, <2>3
<1>21. \A u \in Tasks : Underway(u)' => Found(u[2])'
  <2> SUFFICES ASSUME NEW u \in Tasks, Underway(u)'
               PROVE  Found(u[2])'
    OBVIOUS
  <2>1. task'[u].pc = tasks[u].pc
    BY <1>14 DEF Underway
  <2>2. CASE u = t
    BY <1>17, <2>2
  <2>3. CASE u # t
    <3>1. Underway(u)
      BY <1>8, <2>1, <2>3 DEF Underway
    <3> QED
      BY <1>2, <1>17, <3>1 DEF OpensOnce
  <2> QED
    BY <2>2, <2>3
<1>22. \A u \in Tasks : task'[u].pc = "opening" => file'[u[2]].fd = "none"
  <2> SUFFICES ASSUME NEW u \in Tasks, task'[u].pc = "opening"
               PROVE  file'[u[2]].fd = "none"
    OBVIOUS
  <2>1. u # t /\ task[u].pc = "opening"
    BY <1>8, <1>14
  <2>2. Early(u) /\ MayOpen(u)
    BY <2>1 DEF Early, OpensOnce
  <2>3. u[2] # p
    <3> SUFFICES ASSUME u[2] = p
                 PROVE  FALSE
      OBVIOUS
    <3>1. u[1] = "read" /\ Found(p)
      <4>1. u[1] = "read"
        BY <1>19, <2>1, <2>2
      <4> QED
        BY <2>2, <4>1 DEF MayOpen
    <3>2. t[1] = "open"
      BY <1>2, <1>4, <2>1, <3>1
    <3> QED
      BY <1>3, <3>1, <3>2 DEF MayOpen
  <2> QED
    BY <1>2, <1>16, <2>1, <2>3 DEF OpensOnce
<1>23. \A u \in Tasks : task'[u].obj = "old" => u[1] = "read" /\ old'[u[2]].fd = "none"
  <2> SUFFICES ASSUME NEW u \in Tasks, task'[u].obj = "old"
               PROVE  u[1] = "read" /\ old'[u[2]].fd = "none"
    OBVIOUS
  <2>1. tasks[u].obj = "old" /\ u[1] = "read"
    BY <1>8, <1>14
  <2>2. CASE moved # task /\ u[2] = p
    <3>1. old'[p].fd = "none"
      BY <1>2, <1>9, <2>2
    <3> QED
      BY <2>1, <2>2, <3>1
  <2>3. CASE moved = task \/ u[2] # p
    <3>1. moved[u] = task[u]
      BY <1>2, <1>6, <2>3
    <3>2. task[u].obj = "old"
      <4>1. CASE u # t
        BY <1>7, <2>1, <3>1, <4>1
      <4>2. CASE u = t
        <5>1. t[1] # "open" /\ task[t] \in TaskState
          BY <2>1, <4>2 DEF FileTypes
        <5>2. tasks[t] = [task[t] EXCEPT !.pc = "opened"]
          BY <1>7, <3>1, <4>2, <5>1
        <5>3. [task[t] EXCEPT !.pc = "opened"].obj = task[t].obj
          BY <5>1 DEF TaskState
        <5> QED
          BY <2>1, <4>2, <5>2, <5>3
      <4> QED
        BY <4>1, <4>2
    <3> QED
      BY <1>2, <1>9, <2>1, <3>2 DEF OpensOnce
  <2> QED
    BY <2>1, <2>2, <2>3
<1>24. \A q \in Files : (~Found(q)' => file'[q] = NoFile) /\ Whose(file'[q].held, q)
  <2>1. Whose(NewFile(p).held, p)
    BY <1>15 DEF Whose
  <2> HIDE DEF p
  <2> QED
    BY <1>16, <1>17, <2>1 DEF OpensOnce, Found
<1> QED
  BY <1>10, <1>13, <1>20, <1>21, <1>22, <1>23, <1>24 DEF OpensOnce

LEMMA WhoseChange ==
  ASSUME NEW h \in SemaphoreOf(Tasks), NEW t \in Tasks, Whose(h, t[2])
  PROVE  /\ Whose(Take(h, t), t[2]) /\ Whose(Leave(h), t[2])
         /\ \A u \in Woken(h) : u[2] = t[2]
<1>1. h.wait \in Seq(Tasks)
  BY DEF SemaphoreOf
<1>2. Whose(Take(h, t), t[2])
  <2>1. CASE Available(h)
    BY <2>1, TakeProperties DEF Whose
  <2>2. CASE ~Available(h)
    <3>1. Take(h, t).wait = Append(h.wait, t)
      BY <2>2, TakeProperties
    <3>2. /\ Len(Append(h.wait, t)) = Len(h.wait) + 1 /\ Len(h.wait) \in Nat
          /\ \A k \in 1..Len(h.wait) : Append(h.wait, t)[k] = h.wait[k]
          /\ Append(h.wait, t)[Len(h.wait) + 1] = t
      BY <1>1, AppendProperties
    <3>3. \A k \in 1..Len(Append(h.wait, t)) : Append(h.wait, t)[k][2] = t[2]
      <4> SUFFICES ASSUME NEW k \in 1..Len(Append(h.wait, t))
                   PROVE  Append(h.wait, t)[k][2] = t[2]
        OBVIOUS
      <4>1. k \in 1..Len(h.wait) \/ k = Len(h.wait) + 1
        BY <3>2
      <4> QED
        BY <3>2, <4>1 DEF Whose
    <3> QED
      BY <3>1, <3>3 DEF Whose
  <2> QED
    BY <2>1, <2>2
<1>3. CASE ~HandsOver(h)
  <2>1. Leave(h).wait = h.wait /\ Woken(h) = {}
    BY <1>3, LeaveProperties
  <2>2. Whose(Leave(h), t[2])
    BY <2>1 DEF Whose
  <2> QED
    BY <1>2, <2>1, <2>2
<1>4. CASE HandsOver(h)
  <2>1. /\ Leave(h).wait = Tail(h.wait) /\ Woken(h) = {h.wait[1]} /\ h.wait # <<>>
        /\ Len(h.wait) >= 1
    BY <1>4, LeaveProperties DEF HandsOver
  <2>2. /\ Len(Tail(h.wait)) = Len(h.wait) - 1 /\ Len(h.wait) \in Nat
        /\ \A k \in 1..Len(Tail(h.wait)) : Tail(h.wait)[k] = h.wait[k + 1]
    BY <1>1, <2>1, HeadTailProperties
  <2>3. \A k \in 1..Len(Tail(h.wait)) : k + 1 \in 1..Len(h.wait)
    BY <2>2
  <2>4. Whose(Leave(h), t[2])
    BY <2>1, <2>2, <2>3 DEF Whose
  <2>5. h.wait[1][2] = t[2]
    BY <2>1, <2>2 DEF Whose
  <2> QED
    BY <1>2, <2>1, <2>4, <2>5
<1> QED
  BY <1>3, <1>4

LEMMA OwnHeld ==
  ASSUME FileTypes, OpensOnce, NEW t \in Tasks
  PROVE  /\ Own(t) \in OpenFiles /\ Own(t).held \in SemaphoreOf(Tasks)
         /\ Whose(Own(t).held, t[2])
         /\ Own(t).fd # "none" => task[t].obj = "new" /\ Own(t) = file[t[2]]
<1>1. Own(t) \in OpenFiles /\ t[2] \in Files
  BY OwnType
<1>2. Own(t).held \in SemaphoreOf(Tasks)
  BY <1>1, ObjectFields
<1>3. Whose(Own(t).held, t[2])
  BY <1>1 DEF OpensOnce, Own
<1>4. task[t] \in TaskState
  BY DEF FileTypes
<1>5. Own(t).fd # "none" => task[t].obj = "new" /\ Own(t) = file[t[2]]
  BY <1>4 DEF OpensOnce, Own, TaskState
<1> QED
  BY <1>1, <1>2, <1>3, <1>5

LEMMA EndsKept ==
  ASSUME FileTypes, OpensOnce, NEW t \in Tasks, Found(t[2]),
         NEW f \in OpenFiles, f.ino = Own(t).ino, f.held = Own(t).held,
         Own(t).fd = "none" => f.fd = "none", Ends(t, f), sem' = sem
  PROVE  OpensOnce'
<1> DEFINE g == [f EXCEPT !.held = Leave(f.held)]
<1>1. Becomes(t, g, TRUE) /\ task' = Unlocked(t, Free)
  BY DEF Ends
<1>2. /\ Own(t).held \in SemaphoreOf(Tasks) /\ Whose(Own(t).held, t[2])
      /\ Leave(f.held) \in SemaphoreOf(Tasks)
  BY OwnHeld, ObjectFields
<1>3. g \in OpenFiles
  BY <1>2, ObjectChange
<1>4. g.ino = f.ino /\ g.fd = f.fd /\ g.held = Leave(f.held)
  BY DEF OpenFiles, FileObject
<1>5. /\ Whose(Leave(Own(t).held), t[2])
      /\ \A u \in Woken(Own(t).held) : u[2] = t[2]
  <2> DEFINE h == Own(t).held
  <2>1. h \in SemaphoreOf(Tasks) /\ Whose(h, t[2])
    BY <1>2
  <2> HIDE DEF h
  <2>2. Whose(Leave(h), t[2]) /\ \A u \in Woken(h) : u[2] = t[2]
    BY <2>1, WhoseChange
  <2> QED
    BY <2>2 DEF h
<1> HIDE DEF g
<1>6. \A u \in Tasks : \/ task'[u] = task[u]
                       \/ /\ u[2] = t[2] /\ task'[u].obj \in {"new", task[u].obj}
                          /\ task'[u].pc \notin {"ask", "granted", "opening"}
  <2> SUFFICES ASSUME NEW u \in Tasks
               PROVE  \/ task'[u] = task[u]
                      \/ /\ u[2] = t[2] /\ task'[u].obj \in {"new", task[u].obj}
                         /\ task'[u].pc \notin {"ask", "granted", "opening"}
    OBVIOUS
  <2>1. CASE u = t
    BY <1>1, <2>1 DEF Unlocked, Free
  <2>2. CASE u # t /\ u \in Woken(Own(t).held)
    <3>1. task'[u] = [task[u] EXCEPT !.pc = "locked"] /\ task[u] \in TaskState
      BY <1>1, <2>2 DEF Unlocked, FileTypes
    <3>2. task'[u].pc = "locked" /\ task'[u].obj = task[u].obj
      BY <3>1 DEF TaskState
    <3> QED
      BY <1>5, <2>2, <3>2
  <2>3. CASE u # t /\ u \notin Woken(Own(t).held)
    BY <1>1, <2>3 DEF Unlocked
  <2> QED
    BY <2>1, <2>2, <2>3
<1> QED
  BY ZenonT(30), <1>1, <1>3, <1>4, <1>5, <1>6, ObjectKept

(* A call goes on with an object that may have changed.                    *)
LEMMA GoesOnKept ==
  ASSUME FileTypes, OpensOnce, NEW t \in Tasks, Underway(t), sem' = sem,
         NEW pc \in {"free", "waiting", "locked", "reading", "stat", "closing"},
         \/ task' = [task EXCEPT ![t].pc = pc]
         \/ task' = [task EXCEPT ![t] = Free],
         \/ UNCHANGED <<file, old>>
         \/ \E e, f : /\ Becomes(t, f, e) /\ f \in OpenFiles /\ f.ino = Own(t).ino
                      /\ f.fd = Own(t).fd /\ Whose(f.held, t[2])
  PROVE  OpensOnce'
<1>2. Found(t[2]) /\ task[t] \in TaskState
  BY DEF OpensOnce, FileTypes
<1>3. \A u \in Tasks : u # t => task'[u] = task[u]
  BY DEF FileTypes
<1>4. task'[t].obj \in {"new", task[t].obj} /\ task'[t].pc \in {"free", pc}
  <2>1. task'[t] = [task[t] EXCEPT !.pc = pc] \/ task'[t] = Free
    BY DEF FileTypes
  <2>2. [task[t] EXCEPT !.pc = pc].pc = pc /\ [task[t] EXCEPT !.pc = pc].obj = task[t].obj
    BY <1>2 DEF TaskState
  <2>3. Free.pc = "free" /\ Free.obj = "new"
    BY DEF Free
  <2>4. CASE task'[t] = [task[t] EXCEPT !.pc = pc]
    BY <2>2, <2>4
  <2>5. CASE task'[t] = Free
    BY <2>3, <2>5
  <2> QED
    BY <2>1, <2>4, <2>5
<1>5. CASE UNCHANGED <<file, old>>
  <2>1. OpensQueued(sem', task')
    BY <1>2, <1>3, QueueKept
  <2>2. \A u \in Tasks : /\ Early(u)' => Early(u) \/ MayOpen(u)
                         /\ Underway(u)' => Underway(u) \/ Found(u[2])
                         /\ task'[u].pc = "opening" =>
                              task[u].pc = "opening" \/ file[u[2]].fd = "none"
                         /\ task'[u].obj = "old" => task[u].obj = "old"
    BY <1>2, <1>3, <1>4 DEF Early, Underway
  <2> QED
    BY <1>5, <2>1, <2>2, CallsKept
<1>6. CASE \E e, f : /\ Becomes(t, f, e) /\ f \in OpenFiles /\ f.ino = Own(t).ino
                     /\ f.fd = Own(t).fd /\ Whose(f.held, t[2])
  <2>1. PICK e, f : /\ Becomes(t, f, e) /\ f \in OpenFiles /\ f.ino = Own(t).ino
                    /\ f.fd = Own(t).fd /\ Whose(f.held, t[2])
    BY <1>6
  <2>2. \A u \in Tasks : \/ task'[u] = task[u]
                         \/ /\ u[2] = t[2] /\ task'[u].obj \in {"new", task[u].obj}
                            /\ task'[u].pc \notin {"ask", "granted", "opening"}
    BY <1>3, <1>4
  <2> QED
    BY <1>2, <2>1, <2>2, ObjectKept
<1> QED
  BY <1>5, <1>6

LEMMA FailsKept ==
  ASSUME FileTypes, OpensOnce, NEW t \in Tasks, Found(t[2]), Fails(t)
  PROVE  OpensOnce'
  BY OwnHeld, EndsKept DEF Fails

LEMMA ReadKept ==
  ASSUME FileTypes, OpensOnce, NEW t \in Tasks, Lock(t) \/ StartRead(t) \/ Completes(t)
  PROVE  OpensOnce'
<1>0. /\ Own(t) \in OpenFiles /\ Own(t).held \in SemaphoreOf(Tasks)
      /\ Whose(Own(t).held, t[2]) /\ task[t] \in TaskState
  BY OwnHeld DEF FileTypes
<1>1. CASE Lock(t)
  <2> DEFINE h == Take(Own(t).held, t)
             f == [Own(t) EXCEPT !.held = h]
             pc == IF Available(Own(t).held) THEN "locked" ELSE "waiting"
  <2>1. /\ Becomes(t, f, FALSE) /\ task' = [task EXCEPT ![t].pc = pc] /\ sem' = sem
        /\ Underway(t)
    BY <1>1 DEF Lock, Underway
  <2>2. h \in SemaphoreOf(Tasks) /\ Whose(h, t[2])
    <3> DEFINE held == Own(t).held
    <3>1. held \in SemaphoreOf(Tasks) /\ Whose(held, t[2])
      BY <1>0
    <3> HIDE DEF held
    <3>2. Take(held, t) \in SemaphoreOf(Tasks) /\ Whose(Take(held, t), t[2])
      BY <3>1, TakeProperties, WhoseChange
    <3> QED
      BY <3>2 DEF held
  <2> HIDE DEF h
  <2>3. f \in OpenFiles /\ f.ino = Own(t).ino /\ f.fd = Own(t).fd /\ f.held = h
    <3>1. f \in OpenFiles
      BY <1>0, <2>2, ObjectChange
    <3> QED
      BY <1>0, <3>1 DEF OpenFiles, FileObject
  <2> HIDE DEF f
  <2>4. \E e, g : /\ Becomes(t, g, e) /\ g \in OpenFiles /\ g.ino = Own(t).ino
                  /\ g.fd = Own(t).fd /\ Whose(g.held, t[2])
    BY <2>1, <2>2, <2>3
  <2>5. pc \in {"free", "waiting", "locked", "reading", "stat", "closing"}
    OBVIOUS
  <2> HIDE DEF pc
  <2> QED
    BY <2>1, <2>4, <2>5, GoesOnKept
<1>2. CASE StartRead(t)
  <2>1. Underway(t) /\ sem' = sem
    BY <1>2 DEF StartRead, Underway
  <2>2. CASE Own(t).fd = "none"
    <3>1. Becomes(t, Own(t), TRUE) /\ task' = [task EXCEPT ![t] = Free]
      BY <1>2, <2>2 DEF StartRead
    <3>2. \E e, g : /\ Becomes(t, g, e) /\ g \in OpenFiles /\ g.ino = Own(t).ino
                    /\ g.fd = Own(t).fd /\ Whose(g.held, t[2])
      BY <1>0, <3>1
    <3> QED
      BY <2>1, <3>1, <3>2, GoesOnKept
  <2>3. CASE Own(t).fd # "none"
    <3>1. UNCHANGED <<file, old>> /\ task' = [task EXCEPT ![t].pc = "reading"]
      BY <1>2, <2>3 DEF StartRead
    <3> QED
      BY <2>1, <3>1, GoesOnKept
  <2> QED
    BY <2>2, <2>3
<1>3. CASE Open(t)
  BY <1>3, OpenKept
<1>4. CASE OpenFails(t)
  <2>0. task[t].pc = "opening" /\ MayOpen(t)
    BY <1>4 DEF OpenFails, OpensOnce, Early
  <2>1. CASE t[1] = "read"
    BY <1>4, <2>0, <2>1, FailsKept DEF OpenFails, MayOpen
  <2>2. CASE t[1] # "read"
    <3>1. task' = [task EXCEPT ![t] = Free] /\ sem' = sem /\ UNCHANGED <<file, old>>
      BY <1>4, <2>2 DEF OpenFails, memory
    <3>2. \A u \in Tasks : task'[u] = IF u = t THEN Free ELSE task[u]
      BY <3>1 DEF FileTypes
    <3>3. OpensQueued(sem', task')
      BY <2>0, <3>1, <3>2, QueueKept
    <3>4. \A u \in Tasks : /\ Early(u)' => Early(u) \/ MayOpen(u)
                           /\ Underway(u)' => Underway(u) \/ Found(u[2])
                           /\ task'[u].pc = "opening" =>
                                task[u].pc = "opening" \/ file[u[2]].fd = "none"
                           /\ task'[u].obj = "old" => task[u].obj = "old"
      BY <3>1, <3>2 DEF Early, Underway, Free
    <3> QED
      BY <3>1, <3>3, <3>4, CallsKept
  <2> QED
    BY <2>1, <2>2
<1>5. CASE Read(t)
  <2> DEFINE f == Own(t)
             a == Split(f, lines[t[2]], Block(f))
             g == [f EXCEPT !.offset = @ + Len(Block(f)), !.tail = a.tail, !.line = a.line]
  <2>1. /\ f.fd = "open" /\ Ends(t, g) /\ sem' = sem /\ Found(t[2])
        /\ FileTypes'
    <3>1. Underway(t) /\ FileTypes'
      BY <1>5, ReadTypes DEF Underway, Read, Completes
    <3> QED
      BY <1>5, <3>1 DEF Read, Delivers, OpensOnce
  <2>2. g \in OpenFiles
    <3>1. /\ f \in OpenFiles /\ f.tail \in Seq(Units) /\ f.line \in Nat /\ f.offset \in Nat
          /\ Block(f) \in Seq(Units) /\ Len(Block(f)) \in Nat /\ lines[t[2]] \in Seq(Line)
      BY <1>0, <2>1, ObjectFields, BlockOf, TaskOfCaller DEF FileTypes
    <3>2. Splits(a, f.line, lines[t[2]], f.tail \o Block(f))
      <4> DEFINE ls == lines[t[2]]
                 block == Block(f)
      <4> HIDE DEF f, ls, block
      <4>1. Splits(Split(f, ls, block), f.line, ls, f.tail \o block)
        BY <3>1, SplitGives DEF ls, block
      <4> QED
        BY <4>1 DEF ls, block
    <3> HIDE DEF a
    <3>3. a.tail \in Seq(Units) /\ a.line \in Nat
      <4> HIDE DEF f
      <4>1. PICK new \in Seq(Line) : a.tail \in Seq(Units) /\ a.line = f.line + Len(new)
        BY <3>2 DEF Splits
      <4> QED
        BY <3>1, <4>1
    <3> HIDE DEF f
    <3>4. f.offset + Len(Block(f)) \in Nat
      BY <3>1
    <3> QED
      BY <3>1, <3>3, <3>4, ObjectMoves
  <2>3. g.ino = f.ino /\ g.fd = f.fd /\ g.held = f.held
    BY <1>0 DEF OpenFiles, FileObject
  <2> HIDE DEF g
  <2> QED
    BY <2>1, <2>2, <2>3, EndsKept
<1>6. CASE ReadNothing(t)
  BY <1>6, GoesOnKept DEF ReadNothing, memory, Underway
<1>7. CASE ReadFails(t)
  <2>1. Underway(t) /\ Fails(t)
    BY <1>7 DEF ReadFails, Underway
  <2> QED
    BY <2>1, FailsKept DEF OpensOnce
<1>8. CASE Stat(t)
  <2>1. Underway(t) /\ sem' = sem /\ task' = [task EXCEPT ![t].pc = "closing"]
    BY <1>8 DEF Stat, Underway
  <2>2. CASE AnotherFile(t[2], Own(t))
    <3> DEFINE f == [Own(t) EXCEPT !.offset = 0]
    <3>1. Becomes(t, f, FALSE)
      BY <1>8, <2>2 DEF Stat
    <3>2. f \in OpenFiles /\ f.ino = Own(t).ino /\ f.fd = Own(t).fd /\ f.held = Own(t).held
      <4>1. f \in OpenFiles
        BY <1>0, EmptySeq, ObjectMoves
      <4> QED
        BY <1>0, <4>1 DEF OpenFiles, FileObject
    <3> HIDE DEF f
    <3>3. \E e, g : /\ Becomes(t, g, e) /\ g \in OpenFiles /\ g.ino = Own(t).ino
                    /\ g.fd = Own(t).fd /\ Whose(g.held, t[2])
      BY <1>0, <3>1, <3>2
    <3> QED
      BY <2>1, <3>3, GoesOnKept
  <2>3. CASE ~AnotherFile(t[2], Own(t))
    <3>1. UNCHANGED <<file, old>>
      BY <1>8, <2>3 DEF Stat
    <3> QED
      BY <2>1, <3>1, GoesOnKept
  <2> QED
    BY <2>2, <2>3
<1>9. CASE CloseRead(t)
  <2> DEFINE f == [Own(t) EXCEPT !.fd = "none"]
  <2>1. Underway(t) /\ Ends(t, f) /\ sem' = sem
    BY <1>9 DEF CloseRead, Delivers, Underway
  <2>2. f \in OpenFiles /\ f.ino = Own(t).ino /\ f.fd = "none" /\ f.held = Own(t).held
    <3>1. f \in OpenFiles
      BY <1>0, ObjectChange
    <3> QED
      BY <1>0, <3>1 DEF OpenFiles, FileObject
  <2> HIDE DEF f
  <2> QED
    BY <2>1, <2>2, EndsKept DEF OpensOnce
<1>10. CASE StopClose(t)
  <2> DEFINE f == Shut(Own(t))
  <2>1. Underway(t) /\ Ends(t, f) /\ sem' = sem
    BY <1>10 DEF StopClose, Underway
  <2>2. /\ f \in OpenFiles /\ f.ino = Own(t).ino /\ f.held = Own(t).held
        /\ Own(t).fd = "none" => f.fd = "none"
    <3>1. f \in OpenFiles
      BY <1>0, ObjectChange DEF Shut
    <3> QED
      BY <1>0, <3>1 DEF OpenFiles, FileObject, Shut
  <2> HIDE DEF f
  <2> QED
    BY <2>1, <2>2, EndsKept DEF OpensOnce
<1> QED
  BY <1>1, <1>2, <1>3, <1>4, <1>5, <1>6, <1>7, <1>8, <1>9, <1>10 DEF Completes

LEMMA NextKept ==
  ASSUME FileTypes, OpensOnce, NextLine \/ NextRead \/ Answer
  PROVE  OpensOnce'
<1>1. UNCHANGED <<file, old, sem>>
  BY DEF NextLine, NextRead, Answer, Fetching
<1>2. CASE NextLine \/ Answer
  <2>1. task' = task
    BY <1>2 DEF NextLine, Answer
  <2> QED
    BY <1>1, <2>1, CallsKept DEF OpensOnce, Early, Underway
<1>3. CASE NextRead
  <2>1. /\ \A p \in Files : task[<<"read", p>>].pc = "free"
        /\ asked' = {"read"} \X (toRead \intersect Known)
        /\ task' = [t \in Tasks |-> IF t \in asked' THEN [Free EXCEPT !.pc = "ask"]
                                    ELSE task[t]]
    BY <1>3 DEF NextRead
  <2>2. \A t \in asked' : t[1] = "read" /\ t[2] \in Files /\ Found(t[2])
    BY <2>1, NoFileType DEF Known, OpensOnce, Found
  <2>3. [Free EXCEPT !.pc = "ask"].pc = "ask" /\ [Free EXCEPT !.pc = "ask"].obj = "new"
    BY DEF Free
  <2>4. \A t \in Tasks : \/ task'[t] = task[t]
                         \/ /\ task'[t].pc = "ask" /\ task'[t].obj = "new"
                            /\ t[1] = "read" /\ Found(t[2])
    BY <2>1, <2>2, <2>3
  <2>5. OpensQueued(sem', task')
    BY <1>1, <2>4, QueueKept
  <2>6. \A t \in Tasks : /\ Early(t)' => Early(t) \/ MayOpen(t)
                         /\ Underway(t)' => Underway(t) \/ Found(t[2])
                         /\ task'[t].pc = "opening" =>
                              task[t].pc = "opening" \/ file[t[2]].fd = "none"
                         /\ task'[t].obj = "old" => task[t].obj = "old"
    BY <1>1, <2>4 DEF Early, Underway, MayOpen
  <2> QED
    BY <1>1, <2>5, <2>6, CallsKept
<1> QED
  BY <1>2, <1>3

LEMMA MonitorKept ==
  ASSUME FileTypes, Disk, OpensOnce, NEW p \in Files, MonitorEvent(p)
  PROVE  OpensOnce'
<1>0. ~Unlink(p)
  BY DEF Unlink, Disk
<1>1. CASE ChangeSeen(p)
  <2>1. UNCHANGED <<file, old, sem, task>>
    BY <1>1 DEF ChangeSeen, Monitoring, memory
  <2> QED
    BY <2>1, CallsKept DEF OpensOnce, Early, Underway
<1>2. CASE Add(p)
  <2> DEFINE t == <<"open", p>>
  <2>1. UNCHANGED <<file, old, sem>> /\ task[t].pc = "free"
    BY <1>2 DEF Add, Monitoring, memory
  <2>2. CASE p \in Known
    <3>1. task' = task
      BY <1>2, <2>2 DEF Add
    <3> QED
      BY <2>1, <3>1, CallsKept DEF OpensOnce, Early, Underway
  <2>3. CASE p \notin Known
    <3>1. task' = [task EXCEPT ![t].pc = "ask"]
      BY <1>2, <2>3 DEF Add
    <3>2. t \in Tasks /\ t[1] = "open" /\ t[2] = p /\ task[t] \in TaskState
      BY TaskOfCaller DEF FileTypes
    <3>3. ~Found(p)
      BY <2>3, NoFileType DEF Known, Found
    <3> HIDE DEF t
    <3>4. \A u \in Tasks : u # t => task'[u] = task[u]
      BY <3>1 DEF FileTypes
    <3>5. task'[t].obj = task[t].obj /\ task'[t].pc = "ask"
      BY <3>1, <3>2 DEF FileTypes, TaskState
    <3>6. OpensQueued(sem', task')
      BY <2>1, <3>4, QueueKept
    <3>7. \A u \in Tasks : /\ Early(u)' => Early(u) \/ MayOpen(u)
                           /\ Underway(u)' => Underway(u) \/ Found(u[2])
                           /\ task'[u].pc = "opening" =>
                                task[u].pc = "opening" \/ file[u[2]].fd = "none"
                           /\ task'[u].obj = "old" => task[u].obj = "old"
      BY <2>1, <3>2, <3>3, <3>4, <3>5 DEF Early, Underway, MayOpen
    <3> QED
      BY <2>1, <3>6, <3>7, CallsKept
  <2> QED
    BY <2>2, <2>3
<1> QED
  BY <1>0, <1>1, <1>2 DEF MonitorEvent

LEMMA StopKept ==
  ASSUME FileTypes, OpensOnce, Save \/ SaveMarks \/ Stop \/ StopFiles \/ StopLeave \/ StopSave
  PROVE  OpensOnce'
<1>0. UNCHANGED <<file, old>> /\ task \in [Tasks -> TaskState]
  BY DEF Save, SaveMarks, Stop, StopFiles, StopLeave, StopSave, Saving, memory, FileTypes
<1>1. CASE Save
  BY <1>0, <1>1, OtherTakes DEF Save
<1>2. CASE Stop
  BY <1>0, <1>2, OtherTakes DEF Stop
<1>3. CASE SaveMarks
  BY <1>0, <1>3, LeftKept DEF SaveMarks
<1>4. CASE StopSave
  BY <1>0, <1>4, LeftKept DEF StopSave
<1>5. CASE StopFiles
  <2>1. /\ sem' = sem
        /\ task' = [t \in Tasks |-> IF t[1] = "close" /\ t[2] \in Known
                                      THEN [Free EXCEPT !.pc = "opened"] ELSE task[t]]
    BY <1>5 DEF StopFiles
  <2>2. [Free EXCEPT !.pc = "opened"].pc = "opened" /\ [Free EXCEPT !.pc = "opened"].obj = "new"
    BY DEF Free
  <2>3. \A p \in Known : Found(p)
    BY DEF Known, OpensOnce
  <2>4. \A t \in Tasks : \/ task'[t] = task[t]
                         \/ /\ task'[t].pc = "opened" /\ task'[t].obj = "new"
                            /\ t[1] # "open" /\ Found(t[2])
    BY <2>1, <2>2, <2>3
  <2>5. OpensQueued(sem', task')
    BY <2>1, <2>4, QueueKept
  <2>6. \A t \in Tasks : /\ Early(t)' => Early(t) \/ MayOpen(t)
                         /\ Underway(t)' => Underway(t) \/ Found(t[2])
                         /\ task'[t].pc = "opening" =>
                              task[t].pc = "opening" \/ file[t[2]].fd = "none"
                         /\ task'[t].obj = "old" => task[t].obj = "old"
    BY <2>1, <2>4 DEF Early, Underway
  <2> QED
    BY <1>0, <2>5, <2>6, CallsKept
<1>6. CASE StopLeave
  <2> DEFINE left == Leave(sem)
             after == Woke(task)
  <2>1. sem' = Take(left, Stopper) /\ task' = after
    BY <1>6 DEF StopLeave
  <2>2. sem \in SemaphoreOf(Callers) /\ OpensQueued(sem, task)
    BY DEF FileTypes, OpensOnce
  <2>3. /\ OpensQueued(left, after) /\ left \in SemaphoreOf(Callers)
        /\ \A t : InWait(left, t) => InWait(sem, t)
        /\ \A t \in Woken(sem) : InWait(sem, t)
    <3> DEFINE s == sem
    <3>1. /\ s \in SemaphoreOf(Callers) /\ OpensQueued(s, task)
          /\ \A t \in Tasks : InWait(s, t) /\ t[1] = "open" /\ t \notin Woken(s) =>
               after[t] = task[t]
      BY <1>0, <2>2, WokeMoves
    <3> HIDE DEF s, after
    <3>2. /\ OpensQueued(Leave(s), after) /\ Leave(s) \in SemaphoreOf(Callers)
          /\ \A t : InWait(Leave(s), t) => InWait(s, t)
          /\ \A t \in Woken(s) : InWait(s, t)
      BY <3>1, LeaveWait
    <3> QED
      BY <3>2 DEF s
  <2>4. Stopper \in Callers /\ Stopper[1] # "open" /\ \A t \in Tasks : t # Stopper
    BY TaskOfCaller
  <2>5. /\ OpensQueued(Take(left, Stopper), after)
        /\ \A t : InWait(Take(left, Stopper), t) => InWait(left, t) \/ t = Stopper
    <3> HIDE DEF left, after
    <3> QED
      BY <2>3, <2>4, TakeWait
  <2>6. ASSUME NEW t \in Tasks
        PROVE  /\ Early(t)' => Early(t) \/ MayOpen(t)
               /\ Underway(t)' => Underway(t) \/ Found(t[2])
               /\ task'[t].pc = "opening" =>
                    task[t].pc = "opening" \/ file[t[2]].fd = "none"
               /\ task'[t].obj = "old" => task[t].obj = "old"
    <3>1. InWait(sem', t) => InWait(sem, t)
      BY <2>1, <2>3, <2>4, <2>5
    <3>2. /\ task'[t].obj = task[t].obj
          /\ t \in Woken(sem) => task'[t].pc = "granted"
          /\ t \notin Woken(sem) => task'[t] = task[t]
      BY <1>0, <2>1, WokeMoves
    <3> QED
      BY <2>3, <3>1, <3>2 DEF Early, Underway
  <2> QED
    BY <1>0, <2>1, <2>5, <2>6, CallsKept
<1> QED
  BY <1>1, <1>2, <1>3, <1>4, <1>5, <1>6

(* No object, no call: as a process starts.                                *)
Idle ==
  /\ file = [p \in Files |-> NoFile] /\ old = [p \in Files |-> NoFile]
  /\ sem = Sem(1) /\ task = [t \in Tasks |-> Free]

LEMMA IdleOpens ==
  ASSUME Idle
  PROVE  OpensOnce
<1>1. /\ NoFile.ino = 0 /\ NoFile.fd = "none" /\ NoFile.held.wait = <<>>
      /\ Sem(1).wait = <<>>
  BY NoFileType, SemType
<1>2. \A t \in Tasks : t[2] \in Files
  BY TaskOfCaller
<1>3. OpensQueued(sem, task) /\ \A t : ~InWait(sem, t)
  BY <1>1 DEF Idle, OpensQueued, InWait
<1> QED
  BY <1>1, <1>2, <1>3 DEF Idle, OpensOnce, Early, Underway, Free, Whose

LEMMA RestartKept ==
  ASSUME Restart
  PROVE  OpensOnce'
<1>1. Idle'
  BY DEF Restart, Idle
<1>2. Idle => OpensOnce
  BY IdleOpens
<1>3. Idle' => OpensOnce'
  <2>1. /\ NoFile.ino = 0 /\ NoFile.fd = "none" /\ NoFile.held.wait = <<>>
        /\ Sem(1).wait = <<>>
    BY NoFileType, SemType
  <2>2. \A t \in Tasks : t[2] \in Files
    BY TaskOfCaller
  <2>3. Idle' => OpensQueued(sem', task') /\ \A t : ~InWait(sem', t)
    BY <2>1 DEF Idle, OpensQueued, InWait
  <2> QED
    BY <2>1, <2>2, <2>3 DEF Idle, OpensOnce, Early, Underway, Free, Whose
<1> QED
  BY <1>1, <1>3

LEMMA OpensStep ==
  ASSUME FileTypes, Disk, OpensOnce, [FileNext]_fileVars, spoiled' = {}
  PROVE  OpensOnce'
<1>1. CASE \E t \in Tasks : Ask(t) \/ Granted(t) \/ Lock(t) \/ StartRead(t) \/ Completes(t)
  BY <1>1, AskKept, GrantedKept, ReadKept
<1>2. CASE NextLine \/ NextRead \/ Answer
  BY <1>2, NextKept
<1>3. CASE \E p \in Files : MonitorEvent(p)
  BY <1>3, MonitorKept
<1>4. CASE Save \/ SaveMarks \/ Stop \/ StopFiles \/ StopLeave \/ StopSave
  BY <1>4, StopKept
<1>5. CASE Restart
  BY <1>5, RestartKept
<1>6. CASE \E p \in Paths : FileChange(p)
  <2>1. PICK p \in Paths : AppendTo(p) /\ p \in Files
    BY <1>6, OnlyAppends
  <2>2. UNCHANGED <<file, old, sem, task>>
    BY <2>1, AppendEffect
  <2> QED
    BY <2>2, CallsKept DEF OpensOnce, Early, Underway
<1>7. CASE UNCHANGED fileVars
  <2>1. UNCHANGED <<file, old, sem, task>>
    BY <1>7 DEF fileVars, memory
  <2> QED
    BY <2>1, CallsKept DEF OpensOnce, Early, Underway
<1> QED
  BY <1>1, <1>2, <1>3, <1>4, <1>5, <1>6, <1>7, FileSteps

(***************************************************************************)
(* What was delivered, what is kept and what is stored.                    *)
(***************************************************************************)

InMemory(p) ==
  IF wm[p] = NoMark
    THEN lines[p] = <<>> /\ (link[p] # 0 => out[link[p]] = <<>>)
    ELSE link[p] # 0 /\ Accounted(data[link[p]], out[link[p]] \o lines[p], wm[p])

InStore(p) ==
  IF db[p].mark = NoMark
    THEN db[p].lines = <<>>
    ELSE link[p] # 0 /\ Accounted(data[link[p]], db[p].lines, db[p].mark)

OnMark(p) ==
  Found(p) => link[p] # 0 /\ file[p].ino = link[p] /\ wm[p] = ToJSON(file[p])

Marks == \A p \in Files : OnMark(p) /\ InMemory(p) /\ InStore(p)

OutSeen(p) == link[p] # 0 => ToSet(Text(out[link[p]])) \subseteq seen
MemorySeen(p) ==
  StartAt = "start" /\ wm[p] # NoMark =>
    Gone(data[link[p]], out[link[p]] \o lines[p], wm[p]) \subseteq seen
StoreSeen(p) ==
  StartAt = "start" /\ db[p].mark # NoMark =>
    Gone(data[link[p]], db[p].lines, db[p].mark) \subseteq seen

Seen == \A p \in Files : OutSeen(p) /\ MemorySeen(p) /\ StoreSeen(p)

Follows == OpensOnce /\ Disk /\ Marks /\ Seen /\ ReadMode = "watermark"

ObjectsSame ==
  \A q \in Files : file'[q].ino = file[q].ino /\ ToJSON(file'[q]) = ToJSON(file[q])
ContentSame ==
  UNCHANGED <<data, link, out, seen, lines, wm, db>> /\ ObjectsSame

LEMMA ContentKept ==
  ASSUME Marks, Seen, ContentSame
  PROVE  Marks' /\ Seen'
  BY DEF Marks, Seen, ContentSame, ObjectsSame, OnMark, InMemory, InStore, OutSeen,
     MemorySeen, StoreSeen, Found

(* What a step on p leaves of the other paths, and of what is stored.      *)
LEMMA OtherPaths ==
  ASSUME FileTypes, Follows, NEW p \in Files, link[p] # 0,
         UNCHANGED <<data, link, db>>, seen \subseteq seen',
         \A q \in Files : q # p =>
           file'[q] = file[q] /\ lines'[q] = lines[q] /\ wm'[q] = wm[q],
         \A i \in Inodes : i # link[p] => out'[i] = out[i],
         OnMark(p)', InMemory(p)', OutSeen(p)', MemorySeen(p)'
  PROVE  Marks' /\ Seen'
<1>1. ASSUME NEW q \in Files, q # p
      PROVE  OnMark(q)' /\ InMemory(q)' /\ OutSeen(q)' /\ MemorySeen(q)'
  <2>1. link[q] = 0 \/ (link[q] \in Inodes /\ link[q] # link[p])
    BY <1>1 DEF FileTypes, Follows, Disk
  <2>2. link[q] # 0 => out'[link[q]] = out[link[q]]
    BY <2>1
  <2>3. OnMark(q)'
    BY <1>1 DEF Follows, Marks, OnMark, Found
  <2>4. InMemory(q)'
    BY <1>1, <2>2 DEF Follows, Marks, InMemory
  <2>5. OutSeen(q)'
    BY <1>1, <2>2 DEF Follows, Seen, OutSeen
  <2>6. wm[q] # NoMark => link[q] # 0
    BY DEF Follows, Marks, InMemory
  <2>7. MemorySeen(q)'
    BY <1>1, <2>2, <2>6 DEF Follows, Seen, MemorySeen
  <2> QED
    BY <2>3, <2>4, <2>5, <2>7
<1>2. ASSUME NEW q \in Files
      PROVE  InStore(q)' /\ StoreSeen(q)'
  BY DEF Follows, Marks, Seen, InStore, StoreSeen
<1> QED
  BY <1>1, <1>2 DEF Marks, Seen

LEMMA ObjectSame ==
  ASSUME NEW f \in OpenFiles, NEW h, NEW fd
  PROVE  /\ [f EXCEPT !.held = h].ino = f.ino
         /\ ToJSON([f EXCEPT !.held = h]) = ToJSON(f)
         /\ [f EXCEPT !.fd = fd].ino = f.ino
         /\ ToJSON([f EXCEPT !.fd = fd]) = ToJSON(f)
  BY DEF OpenFiles, FileObject, ToJSON

(* The object of a call changes, not its file nor its position.            *)
LEMMA BecomesSame ==
  ASSUME FileTypes, NEW t \in Tasks, NEW f, NEW e, Becomes(t, f, e),
         f.ino = Own(t).ino, ToJSON(f) = ToJSON(Own(t))
  PROVE  ObjectsSame
<1>1. t[2] \in Files
  BY TaskOfCaller
<1>2. CASE task[t].obj = "new"
  <2>1. file' = [file EXCEPT ![t[2]] = f] /\ Own(t) = file[t[2]]
    BY <1>2 DEF Becomes, Own
  <2>2. \A q \in Files : file'[q] = IF q = t[2] THEN f ELSE file[q]
    BY <1>1, <2>1 DEF FileTypes
  <2> QED
    BY <2>1, <2>2 DEF ObjectsSame
<1>3. CASE task[t].obj # "new"
  BY <1>3 DEF Becomes, ObjectsSame
<1> QED
  BY <1>2, <1>3

LEMMA EndsSame ==
  ASSUME FileTypes, NEW t \in Tasks, NEW f \in OpenFiles, Ends(t, f),
         f.ino = Own(t).ino, ToJSON(f) = ToJSON(Own(t))
  PROVE  ObjectsSame
<1> DEFINE g == [f EXCEPT !.held = Leave(@)]
<1>1. Becomes(t, g, TRUE)
  BY DEF Ends
<1>2. g.ino = f.ino /\ ToJSON(g) = ToJSON(f)
  BY ObjectSame
<1> HIDE DEF g
<1> QED
  BY <1>1, <1>2, BecomesSame

(* A task under way that has its own object finds the file on its mark.    *)
LEMMA OwnMark ==
  ASSUME FileTypes, Follows, NEW t \in Tasks, Underway(t), Own(t).fd # "none"
  PROVE  /\ task[t].obj = "new" /\ Own(t) = file[t[2]] /\ Own(t) \in OpenFiles
         /\ t[2] \in Files /\ link[t[2]] \in Inodes /\ Own(t).ino = link[t[2]]
         /\ wm[t[2]] = ToJSON(Own(t)) /\ wm[t[2]] \in Position /\ wm[t[2]] # NoMark
<1>1. /\ task[t].obj = "new" /\ Own(t) = file[t[2]] /\ Own(t) \in OpenFiles
      /\ t[2] \in Files
  BY OwnHeld, OwnType DEF Follows
<1>2. Found(t[2])
  BY DEF Follows, OpensOnce
<1>3. link[t[2]] # 0 /\ Own(t).ino = link[t[2]] /\ wm[t[2]] = ToJSON(Own(t))
  BY <1>1, <1>2 DEF Follows, Marks, OnMark
<1>4. link[t[2]] \in Inodes
  BY <1>1, <1>3 DEF FileTypes
<1>5. wm[t[2]] \in Position
  BY <1>1, <1>3, ObjectFields
<1>6. wm[t[2]] # NoMark
  BY <1>5 DEF Position, NoMark
<1> QED
  BY <1>1, <1>3, <1>4, <1>5, <1>6

(* The steps of a call that deliver and store nothing.                     *)
LEMMA QuietCalls ==
  ASSUME FileTypes, Follows, NEW t \in Tasks,
         \/ Ask(t) \/ Granted(t) \/ Lock(t) \/ StartRead(t)
         \/ OpenFails(t) \/ ReadNothing(t) \/ ReadFails(t) \/ Stat(t) \/ StopClose(t)
  PROVE  ContentSame
<1>0. /\ Own(t) \in OpenFiles /\ t[2] \in Files
  BY OwnType
<1>a. Fails(t) => ObjectsSame /\ UNCHANGED <<lines, wm, db>>
  BY <1>0, EndsSame DEF Fails, marks
<1>1. CASE Ask(t) \/ Granted(t)
  BY <1>1 DEF Ask, Granted, World, disk, memory, marks, ContentSame, ObjectsSame
<1>2. CASE Lock(t)
  <2> DEFINE f == [Own(t) EXCEPT !.held = Take(@, t)]
  <2>1. Becomes(t, f, FALSE)
    BY <1>2 DEF Lock
  <2>2. f.ino = Own(t).ino /\ ToJSON(f) = ToJSON(Own(t))
    BY <1>0, ObjectSame
  <2> HIDE DEF f
  <2>3. ObjectsSame
    BY <2>1, <2>2, BecomesSame
  <2> QED
    BY <1>2, <2>3 DEF Lock, Reading, World, disk, marks, ContentSame
<1>3. CASE StartRead(t)
  <2>1. Becomes(t, Own(t), TRUE) \/ UNCHANGED <<file, old>>
    BY <1>3 DEF StartRead
  <2>2. ObjectsSame
    BY <2>1, BecomesSame DEF ObjectsSame
  <2> QED
    BY <1>3, <2>2 DEF StartRead, Reading, World, disk, marks, ContentSame
<1>4. CASE OpenFails(t)
  <2>1. ObjectsSame /\ UNCHANGED <<lines, wm, db>>
    BY <1>a, <1>4 DEF OpenFails, memory, marks, ObjectsSame
  <2> QED
    BY <1>4, <2>1 DEF OpenFails, Reading, World, disk, ContentSame
<1>5. CASE ReadNothing(t)
  BY <1>5 DEF ReadNothing, Reading, World, disk, memory, marks, ContentSame, ObjectsSame
<1>6. CASE ReadFails(t)
  <2>1. ObjectsSame /\ UNCHANGED <<lines, wm, db>>
    BY <1>a, <1>6 DEF ReadFails
  <2> QED
    BY <1>6, <2>1 DEF ReadFails, Reading, World, disk, ContentSame
<1>7. CASE Stat(t)
  <2>1. ObjectsSame
    <3>1. CASE AnotherFile(t[2], Own(t))
      <4>1. Becomes(t, [Own(t) EXCEPT !.offset = 0], FALSE) /\ Underway(t)
        BY <1>7, <3>1 DEF Stat, Underway
      <4>2. task[t].obj # "new"
        <5> SUFFICES ASSUME task[t].obj = "new"
                     PROVE  FALSE
          OBVIOUS
        <5>1. Own(t) = file[t[2]] /\ Found(t[2])
          BY <4>1 DEF Own, Follows, OpensOnce
        <5>2. link[t[2]] # 0 /\ Own(t).ino = link[t[2]] /\ wm[t[2]] = ToJSON(Own(t))
          BY <1>0, <5>1 DEF Follows, Marks, OnMark
        <5>3. wm[t[2]] \in Position /\ wm[t[2]].offset = Own(t).offset
          BY <1>0, <5>2, ObjectFields DEF ToJSON
        <5>4. wm[t[2]] # NoMark
          BY <5>3 DEF Position, NoMark
        <5>5. Own(t).offset <= Len(data[link[t[2]]])
          BY <1>0, <5>3, <5>4 DEF Follows, Marks, InMemory, Accounted, Lies
        <5>6. link[t[2]] \in Inodes /\ Own(t).offset \in Nat
          BY <1>0, <5>2, ObjectFields DEF FileTypes
        <5>7. Len(data[link[t[2]]]) \in Nat
          BY <5>6 DEF FileTypes
        <5> QED
          BY <3>1, <5>2, <5>5, <5>6, <5>7 DEF AnotherFile
      <4>3. UNCHANGED file
        BY <4>1, <4>2 DEF Becomes
      <4> QED
        BY <4>3 DEF ObjectsSame
    <3>2. CASE ~AnotherFile(t[2], Own(t))
      BY <1>7, <3>2 DEF Stat, ObjectsSame
    <3> QED
      BY <3>1, <3>2
  <2> QED
    BY <1>7, <2>1 DEF Stat, Reading, World, disk, marks, ContentSame
<1>8. CASE StopClose(t)
  <2> DEFINE f == Shut(Own(t))
  <2>1. Ends(t, f)
    BY <1>8 DEF StopClose
  <2>2. f = [Own(t) EXCEPT !.fd = IF Own(t).fd = "open" THEN "shut" ELSE Own(t).fd]
    BY DEF Shut
  <2>3. f \in OpenFiles /\ f.ino = Own(t).ino /\ ToJSON(f) = ToJSON(Own(t))
    <3> DEFINE fd == IF Own(t).fd = "open" THEN "shut" ELSE Own(t).fd
    <3>1. fd \in {"none", "shut", Own(t).fd}
      OBVIOUS
    <3> HIDE DEF fd
    <3>2. [Own(t) EXCEPT !.fd = fd] \in OpenFiles
      BY <1>0, <3>1, ObjectChange, ObjectFields
    <3>3. /\ [Own(t) EXCEPT !.fd = fd].ino = Own(t).ino
          /\ ToJSON([Own(t) EXCEPT !.fd = fd]) = ToJSON(Own(t))
      BY <1>0, ObjectSame
    <3> QED
      BY <2>2, <3>2, <3>3 DEF fd
  <2> HIDE DEF f
  <2>4. ObjectsSame
    BY <2>1, <2>3, EndsSame
  <2> QED
    BY <1>8, <2>4 DEF StopClose, Reading, World, disk, marks, ContentSame
<1> QED
  BY <1>1, <1>2, <1>3, <1>4, <1>5, <1>6, <1>7, <1>8

(* A file that nothing more is read of is closed on its mark.              *)
LEMMA CloseContent ==
  ASSUME FileTypes, Follows, NEW t \in Tasks, CloseRead(t)
  PROVE  Marks' /\ Seen'
<1> DEFINE f == [Own(t) EXCEPT !.fd = "none"]
<1>1. /\ Delivers(t, f, lines[t[2]]) /\ Underway(t) /\ Own(t).fd = "open"
  BY DEF CloseRead, Underway
<1>2. /\ Own(t) \in OpenFiles /\ t[2] \in Files /\ wm[t[2]] = ToJSON(Own(t))
  BY <1>1, OwnMark
<1>3. f \in OpenFiles /\ f.ino = Own(t).ino /\ ToJSON(f) = ToJSON(Own(t))
  BY <1>2, ObjectSame, ObjectChange, ObjectFields
<1> HIDE DEF f
<1>4. /\ Ends(t, f) /\ lines' = [lines EXCEPT ![t[2]] = lines[t[2]]]
      /\ wm' = [wm EXCEPT ![t[2]] = ToJSON(f)]
      /\ UNCHANGED <<Reading, toRead, db, sem, reader>>
  BY <1>1 DEF Delivers
<1>5. ObjectsSame
  BY <1>3, <1>4, EndsSame
<1>6. UNCHANGED <<lines, wm>>
  BY <1>2, <1>3, <1>4 DEF FileTypes
<1> QED
  BY <1>4, <1>5, <1>6, ContentKept DEF ContentSame, Reading, World, disk, Follows

(* A file is opened on its mark, or where nothing has been delivered yet.  *)
LEMMA OpenContent ==
  ASSUME FileTypes, Follows, NEW t \in Tasks, Open(t)
  PROVE  Marks' /\ Seen'
<1> DEFINE p == t[2]
           d == data[link[p]]
<1>1. p \in Files /\ link[p] # 0 /\ link[p] \in Inodes /\ d \in Seq(Units)
  <2>1. p \in Files /\ link[p] # 0
    BY TaskOfCaller DEF Open
  <2> QED
    BY <2>1 DEF FileTypes
<1>2. /\ file' = [file EXCEPT ![p] = NewFile(p)]
      /\ lines' = [lines EXCEPT ![p] = IF Marked(p) THEN @ ELSE <<>>]
      /\ wm' = [wm EXCEPT ![p] = Opened(p)]
      /\ UNCHANGED <<data, link, db, out, seen>>
  BY DEF Open, World, disk
<1>3. /\ Opened(p) \in Position /\ ToJSON(NewFile(p)) = Opened(p)
      /\ NewFile(p).ino = link[p]
  BY <1>1, OpenedType
<1>4. Opened(p) # NoMark
  BY <1>3 DEF Position, NoMark
<1>5. Marked(p) <=> wm[p] # NoMark
  BY DEF Marked, Follows
<1>6. lines[p] \in Seq(Line) /\ out[link[p]] \in Seq(Line)
  BY <1>1 DEF FileTypes
<1>7. /\ lines'[p] = IF wm[p] # NoMark THEN lines[p] ELSE <<>>
      /\ wm'[p] = Opened(p) /\ file'[p] = NewFile(p)
  BY <1>1, <1>2, <1>5 DEF FileTypes
<1>8. /\ Accounted(d, out[link[p]] \o lines'[p], Opened(p))
      /\ StartAt = "start" => Gone(d, out[link[p]] \o lines'[p], Opened(p)) \subseteq seen
  <2>1. CASE wm[p] # NoMark
    <3>1. Opened(p) = wm[p]
      BY <1>5, <2>1 DEF Opened
    <3> QED
      BY <1>1, <1>7, <2>1, <3>1 DEF Follows, Marks, Seen, InMemory, MemorySeen
  <2>2. CASE wm[p] = NoMark
    <3>1. out[link[p]] = <<>> /\ lines'[p] = <<>>
      BY <1>1, <1>7, <2>2 DEF Follows, Marks, InMemory
    <3>2. out[link[p]] \o lines'[p] = <<>>
      BY <3>1, EmptySeq, ConcatEmptySeq
    <3>3. Opened(p) = [NoMark EXCEPT !.offset = IF StartAt = "start" THEN 0 ELSE Len(d)]
      BY <1>5, <2>2 DEF Opened, Unmarked
    <3>4. Opened(p).tail = <<>> /\ Opened(p).offset = IF StartAt = "start" THEN 0 ELSE Len(d)
      BY <3>3 DEF NoMark
    <3>5. Len(d) \in Nat
      BY <1>1
    <3> DEFINE mark == Opened(p)
    <3>6. mark \in Position /\ mark.tail = <<>> /\ mark.offset <= Len(d)
      BY <1>3, <3>4, <3>5
    <3> HIDE DEF mark, d
    <3>7. Accounted(d, <<>>, mark) /\ (mark.offset = 0 => Gone(d, <<>>, mark) = {})
      BY <1>1, <3>6, AccountedNothing
    <3>8. StartAt = "start" => mark.offset = 0
      BY <3>4 DEF mark
    <3> QED
      BY <3>2, <3>7, <3>8 DEF mark
  <2> QED
    BY <2>1, <2>2
<1>9. OnMark(p)' /\ InMemory(p)' /\ OutSeen(p)' /\ MemorySeen(p)'
  <2>1. OutSeen(p)'
    BY <1>1, <1>2 DEF Follows, Seen, OutSeen
  <2> QED
    BY <1>1, <1>2, <1>3, <1>4, <1>7, <1>8, <2>1 DEF OnMark, InMemory, MemorySeen
<1>10. \A q \in Files : q # p =>
         file'[q] = file[q] /\ lines'[q] = lines[q] /\ wm'[q] = wm[q]
  BY <1>2 DEF FileTypes
<1> HIDE DEF p
<1> QED
  BY <1>1, <1>2, <1>9, <1>10, OtherPaths

(* A block that was read is cut into lines behind those that wait.         *)
LEMMA ReadContent ==
  ASSUME FileTypes, Follows, NEW t \in Tasks, Read(t)
  PROVE  Marks' /\ Seen'
<1> DEFINE p == t[2]
           d == data[link[p]]
           f == Own(t)
           b == Block(f)
           a == Split(f, lines[p], b)
           g == [f EXCEPT !.offset = @ + Len(b), !.tail = a.tail, !.line = a.line]
           upTo == f.offset + Len(b)
           after == [offset |-> upTo, tail |-> a.tail, line |-> a.line]
           mark == wm[p]
           kept == lines[p]
           delivered == out[link[p]]
<1>1. Delivers(t, g, a.lines) /\ f.fd = "open" /\ Underway(t)
  BY DEF Read, Underway
<1>2. /\ task[t].obj = "new" /\ f = file[p] /\ f \in OpenFiles /\ p \in Files
      /\ link[p] \in Inodes /\ link[p] # 0 /\ f.ino = link[p]
      /\ mark = ToJSON(f) /\ mark \in Position /\ mark # NoMark
  BY <1>1, OwnMark, WorldAssumption DEF Inodes
<1>3. /\ f.offset \in Nat /\ f.tail \in Seq(Units) /\ f.line \in Nat
      /\ mark.offset = f.offset /\ mark.tail = f.tail /\ mark.line = f.line
  BY <1>2, ObjectFields DEF ToJSON
<1>4. /\ d \in Seq(Units) /\ kept \in Seq(Line) /\ delivered \in Seq(Line)
      /\ Len(d) \in Nat
  BY <1>2 DEF FileTypes
<1>5. Accounted(d, delivered \o kept, mark)
  BY <1>2 DEF Follows, Marks, InMemory
<1>6. f.offset <= Len(d)
  BY <1>3, <1>5 DEF Accounted, Lies
<1>7. /\ b \in Seq(Units) /\ Len(b) \in Nat /\ upTo <= Len(d)
      /\ b = SubSeq(d, mark.offset + 1, upTo)
  BY <1>1, <1>2, <1>3, <1>6, BlockOf
<1>8. Splits(a, mark.line, kept, mark.tail \o SubSeq(d, mark.offset + 1, upTo))
  <2>1. Splits(Split(f, kept, b), f.line, kept, f.tail \o b)
    <3> HIDE DEF f, b, kept
    <3> QED
      BY <1>3, <1>4, <1>7, SplitGives
  <2> QED
    BY <1>3, <1>7, <2>1
<1>9. mark.offset <= upTo /\ upTo \in Nat
  BY <1>3, <1>7
<1>10. /\ Accounted(d, delivered \o a.lines, after)
       /\ Gone(d, delivered \o a.lines, after) = Gone(d, delivered \o kept, mark)
       /\ a.lines \in Seq(Line) /\ after \in Position
  <2>1. after = [offset |-> upTo, tail |-> a.tail, line |-> a.line]
    OBVIOUS
  <2> HIDE DEF d, a, upTo, after, mark, kept, delivered
  <2> QED
    BY <1>2, <1>4, <1>5, <1>7, <1>8, <1>9, <2>1, AccountedOn
<1>11. /\ g \in OpenFiles /\ g.ino = f.ino /\ ToJSON(g) = after
  <2> DEFINE tail == a.tail
             line == a.line
  <2>1. tail \in Seq(Units) /\ line \in Nat
    BY <1>10 DEF Position
  <2>2. g = [f EXCEPT !.offset = upTo, !.tail = tail, !.line = line]
    BY <1>2 DEF OpenFiles, FileObject
  <2> HIDE DEF f, upTo, tail, line, g
  <2>3. g \in OpenFiles
    BY <1>2, <1>9, <2>1, <2>2, ObjectMoves
  <2>4. g.ino = f.ino /\ g.offset = upTo /\ g.tail = tail /\ g.line = line
    BY <1>2, <2>2 DEF OpenFiles, FileObject
  <2> QED
    BY <2>3, <2>4 DEF ToJSON, tail, line
<1> HIDE DEF a, b, g, upTo, after
<1>12. /\ Ends(t, g) /\ lines' = [lines EXCEPT ![p] = a.lines]
       /\ wm' = [wm EXCEPT ![p] = after]
       /\ UNCHANGED <<data, link, out, seen, db>>
  BY <1>1, <1>11 DEF Delivers, Reading, World, disk
<1> DEFINE h == [g EXCEPT !.held = Leave(@)]
<1>13. h.ino = link[p] /\ ToJSON(h) = after
  BY <1>2, <1>11, ObjectSame
<1>14. file' = [file EXCEPT ![p] = h]
  BY <1>2, <1>12 DEF Ends, Becomes
<1> HIDE DEF h, f
<1>15. file'[p] = h /\ lines'[p] = a.lines /\ wm'[p] = after
  BY <1>2, <1>12, <1>14 DEF FileTypes
<1>16. OnMark(p)' /\ InMemory(p)' /\ OutSeen(p)' /\ MemorySeen(p)'
  <2>1. after # NoMark
    BY <1>10 DEF Position, NoMark
  <2>2. OutSeen(p)'
    BY <1>2, <1>12 DEF Follows, Seen, OutSeen
  <2>3. InMemory(p)'
    BY <1>2, <1>10, <1>12, <1>15, <2>1 DEF InMemory
  <2>4. MemorySeen(p)'
    BY <1>2, <1>10, <1>12, <1>15, <2>1 DEF MemorySeen, Follows, Seen
  <2>5. OnMark(p)'
    BY <1>2, <1>12, <1>13, <1>15 DEF OnMark
  <2> QED
    BY <2>2, <2>3, <2>4, <2>5
<1>17. \A q \in Files : q # p =>
         file'[q] = file[q] /\ lines'[q] = lines[q] /\ wm'[q] = wm[q]
  BY <1>12, <1>14 DEF FileTypes
<1> HIDE DEF p
<1> QED
  BY <1>2, <1>12, <1>16, <1>17, OtherPaths

(* The first of the lines that wait becomes the last that was delivered.   *)
LEMMA HandMoves ==
  ASSUME NEW o \in Seq(Line), NEW l \in Seq(Line), l # <<>>
  PROVE  /\ Head(l) \in Line /\ Tail(l) \in Seq(Line)
         /\ Append(o, Head(l)) \in Seq(Line)
         /\ Append(o, Head(l)) \o Tail(l) = o \o l
<1>1. /\ Head(l) \in Line /\ Tail(l) \in Seq(Line) /\ Len(l) \in Nat /\ Len(l) >= 1
      /\ Head(l) = l[1] /\ Len(Tail(l)) = Len(l) - 1
      /\ \A k \in 1..Len(Tail(l)) : Tail(l)[k] = l[k + 1]
  BY HeadTailProperties
<1> DEFINE x == Head(l)
           r == Tail(l)
           left == Append(o, x)
           s == left \o r
           w == o \o l
<1>2. /\ left \in Seq(Line) /\ Len(left) = Len(o) + 1 /\ Len(o) \in Nat
      /\ \A k \in 1..Len(o) : left[k] = o[k]
      /\ left[Len(o) + 1] = x
  BY <1>1, AppendProperties
<1>3. /\ w \in Seq(Line) /\ Len(w) = Len(o) + Len(l)
      /\ \A k \in 1..(Len(o) + Len(l)) :
           w[k] = IF k <= Len(o) THEN o[k] ELSE l[k - Len(o)]
  BY ConcatProperties
<1> HIDE DEF x, r, left, w
<1>4. /\ s \in Seq(Line) /\ Len(s) = Len(left) + Len(r)
      /\ \A k \in 1..(Len(left) + Len(r)) :
           s[k] = IF k <= Len(left) THEN left[k] ELSE r[k - Len(left)]
  BY <1>1, <1>2, ConcatProperties DEF r
<1> HIDE DEF s
<1>5. \A k \in 1..Len(s) : s[k] = w[k]
  <2> SUFFICES ASSUME NEW k \in 1..Len(s)
               PROVE  s[k] = w[k]
    OBVIOUS
  <2>0. /\ Len(s) = Len(w) /\ Len(r) = Len(l) - 1
    BY <1>1, <1>2, <1>3, <1>4 DEF r
  <2>1. CASE k \in 1..Len(o)
    <3>1. k <= Len(left) /\ k <= Len(o) /\ k \in 1..(Len(o) + Len(l))
      BY <1>1, <1>2, <2>1
    <3>2. s[k] = left[k] /\ w[k] = o[k]
      BY <1>2, <1>3, <1>4, <2>0, <3>1
    <3> QED
      BY <1>2, <2>1, <3>2
  <2>2. CASE k = Len(o) + 1
    <3>1. s[k] = x /\ w[k] = l[1]
      <4>1. k <= Len(left) /\ ~(k <= Len(o)) /\ k - Len(o) = 1 /\ k \in 1..(Len(o) + Len(l))
        BY <1>1, <1>2, <2>2
      <4> QED
        BY <1>2, <1>3, <1>4, <2>0, <2>2, <4>1
    <3> QED
      BY <1>1, <3>1 DEF x
  <2>3. CASE ~(k \in 1..Len(o)) /\ k # Len(o) + 1
    <3>1. /\ ~(k <= Len(left)) /\ ~(k <= Len(o)) /\ k - Len(left) \in 1..Len(r)
          /\ k - Len(o) = (k - Len(left)) + 1
      BY <1>1, <1>2, <1>3, <1>4, <2>0, <2>3
    <3>2. s[k] = r[k - Len(left)] /\ w[k] = l[k - Len(o)]
      BY <1>2, <1>3, <1>4, <2>0, <3>1
    <3>3. r[k - Len(left)] = l[(k - Len(left)) + 1]
      BY <1>1, <3>1 DEF r
    <3> QED
      BY <3>1, <3>2, <3>3
  <2> QED
    BY <2>1, <2>2, <2>3
<1>6. s = w
  <2>1. Len(s) = Len(w)
    BY <1>1, <1>2, <1>3, <1>4 DEF r
  <2> QED
    BY <1>3, <1>4, <1>5, <2>1, SeqEqual
<1> QED
  BY <1>1, <1>2, <1>6 DEF s, w, x, r, left

LEMMA HandContent ==
  ASSUME FileTypes, Follows, NEW p \in Files, p \in Known, Hand(p),
         UNCHANGED <<data, link, db, file, wm>>
  PROVE  Marks' /\ Seen'
<1> DEFINE i == link[p]
           o == out[i]
           l == lines[p]
           x == Head(l)
<1>1. i # 0 /\ i \in Inodes /\ file[p].ino = i /\ wm[p] = ToJSON(file[p]) /\ wm[p] # NoMark
  <2>1. Found(p)
    BY DEF Known, Follows, OpensOnce
  <2>2. link[p] # 0 /\ file[p].ino = link[p] /\ wm[p] = ToJSON(file[p])
    BY <2>1 DEF Follows, Marks, OnMark
  <2>3. wm[p] \in Position
    BY <2>2, ObjectFields DEF FileTypes
  <2> QED
    BY <2>2, <2>3 DEF FileTypes, Position, NoMark
<1>2. o \in Seq(Line) /\ l \in Seq(Line) /\ l # <<>>
  BY <1>1 DEF FileTypes, Hand
<1>3. /\ lines' = [lines EXCEPT ![p] = Tail(l)]
      /\ out' = [out EXCEPT ![i] = Append(o, x)]
      /\ seen' = seen \union ToSet(x.text)
  <2>1. out' = [out EXCEPT ![i] = Append(@, x)]
    BY <1>1 DEF Hand
  <2> QED
    BY <2>1 DEF Hand, Shift
<1>4. lines'[p] = Tail(l) /\ out'[i] = Append(o, x)
  BY <1>1, <1>3 DEF FileTypes
<1>5. /\ x \in Line /\ Append(o, x) \o Tail(l) = o \o l
      /\ Append(o, x) \in Seq(Line)
  <2> HIDE DEF o, l
  <2> QED
    BY <1>2, HandMoves
<1>6. ToSet(Text(Append(o, x))) \subseteq seen'
  <2>1. Text(Append(o, x)) = Text(o) \o x.text
    <3> HIDE DEF o, x
    <3> QED
      BY <1>2, <1>5, TextAppend
  <2>2. Text(o) \in Seq(Units) /\ x.text \in Seq(Units)
    BY <1>2, <1>5, TextType DEF Line
  <2>3. ToSet(Text(o)) \subseteq seen
    BY <1>1 DEF Follows, Seen, OutSeen
  <2> DEFINE m == Text(o)
             n == x.text
             w == m \o n
  <2>m. m \in Seq(Units) /\ n \in Seq(Units)
    BY <2>2
  <2> HIDE DEF m, n
  <2>4. /\ w \in Seq(Units) /\ Len(w) = Len(m) + Len(n) /\ Len(m) \in Nat /\ Len(n) \in Nat
        /\ \A k \in 1..(Len(m) + Len(n)) : w[k] = IF k <= Len(m) THEN m[k] ELSE n[k - Len(m)]
    BY <2>m, ConcatProperties
  <2> HIDE DEF w
  <2>5. ASSUME NEW k \in 1..Len(w)
        PROVE  (\E j \in 1..Len(m) : w[k] = m[j]) \/ (\E j \in 1..Len(n) : w[k] = n[j])
    <3>1. CASE k <= Len(m)
      BY <2>4, <3>1
    <3>2. CASE ~(k <= Len(m))
      <4>1. k - Len(m) \in 1..Len(n) /\ w[k] = n[k - Len(m)]
        BY <2>4, <3>2
      <4> QED
        BY <4>1
    <3> QED
      BY <3>1, <3>2
  <2>6. \A u \in ToSet(w) : u \in ToSet(m) \/ u \in ToSet(n)
    <3>1. \A u \in ToSet(w) : \E k \in 1..Len(w) : u = w[k]
      BY <2>4 DEF ToSet
    <3>2. /\ \A j \in 1..Len(m) : m[j] \in ToSet(m)
          /\ \A j \in 1..Len(n) : n[j] \in ToSet(n)
      BY <2>2 DEF ToSet, m, n
    <3> QED
      BY <2>5, <3>1, <3>2
  <2> QED
    BY <1>3, <2>1, <2>3, <2>6 DEF m, n, w
<1>7. OnMark(p)' /\ OutSeen(p)'
  BY <1>1, <1>4, <1>6 DEF OnMark, OutSeen, Found
<1>8. InMemory(p)' /\ MemorySeen(p)'
  <2>1. out'[i] \o lines'[p] = o \o l
    BY <1>4, <1>5
  <2>2. Accounted(data[i], o \o l, wm[p])
    BY <1>1 DEF Follows, Marks, InMemory
  <2>3. StartAt = "start" => Gone(data[i], o \o l, wm[p]) \subseteq seen
    BY <1>1 DEF Follows, Seen, MemorySeen
  <2> QED
    BY <1>1, <1>3, <2>1, <2>2, <2>3 DEF InMemory, MemorySeen
<1>9. /\ \A q \in Files : q # p => lines'[q] = lines[q]
      /\ \A j \in Inodes : j # i => out'[j] = out[j]
      /\ seen \subseteq seen'
  BY <1>3 DEF FileTypes
<1> QED
  BY <1>1, <1>7, <1>8, <1>9, OtherPaths

(* What is stored is the mark up to which lines were cut, and the lines.   *)
LEMMA Stored ==
  ASSUME FileTypes, Follows, Store, NEW p \in Files
  PROVE  wm'[p] = wm[p] /\ db'[p] = [mark |-> wm[p], lines |-> lines[p]]
<1>1. UpToDate[p] = wm[p]
  <2>1. CASE p \in Known
    <3>1. Found(p)
      BY <2>1 DEF Known, Follows, OpensOnce
    <3> QED
      BY <2>1, <3>1 DEF UpToDate, Follows, Marks, OnMark
  <2>2. CASE p \notin Known
    BY <2>2 DEF UpToDate
  <2> QED
    BY <2>1, <2>2
<1> QED
  BY <1>1 DEF Store

LEMMA StoreContent ==
  ASSUME FileTypes, Follows, Store, UNCHANGED <<data, link, file, lines, out, seen>>
  PROVE  Marks' /\ Seen'
<1>1. \A p \in Files : wm'[p] = wm[p] /\ db'[p] = [mark |-> wm[p], lines |-> lines[p]]
  BY Stored
<1>2. ASSUME NEW p \in Files
      PROVE  OnMark(p)' /\ InMemory(p)' /\ OutSeen(p)' /\ MemorySeen(p)'
  <2>1. OnMark(p)'
    BY <1>1 DEF Follows, Marks, OnMark, Found
  <2>2. InMemory(p)'
    BY <1>1 DEF Follows, Marks, InMemory
  <2>3. OutSeen(p)'
    BY DEF Follows, Seen, OutSeen
  <2>4. MemorySeen(p)'
    BY <1>1 DEF Follows, Seen, MemorySeen
  <2> QED
    BY <2>1, <2>2, <2>3, <2>4
<1>3. ASSUME NEW p \in Files
      PROVE  InStore(p)' /\ StoreSeen(p)'
  <2>0. db'[p].mark = wm[p] /\ db'[p].lines = lines[p]
    <3> DEFINE mark == wm[p]
               ls == lines[p]
    <3>1. db'[p] = [mark |-> mark, lines |-> ls]
      BY <1>1
    <3> HIDE DEF mark, ls
    <3>2. db'[p].mark = mark /\ db'[p].lines = ls
      BY <3>1
    <3> QED
      BY <3>2 DEF mark, ls
  <2>1. CASE wm[p] = NoMark
    BY <2>0, <2>1 DEF Follows, Marks, InMemory, InStore, StoreSeen
  <2>2. CASE wm[p] # NoMark
    <3> DEFINE d == data[link[p]]
               delivered == out[link[p]]
               ls == lines[p]
               mark == wm[p]
    <3>1. link[p] # 0 /\ Accounted(d, delivered \o ls, mark)
      BY <2>2 DEF Follows, Marks, InMemory
    <3>2. /\ d \in Seq(Units) /\ delivered \in Seq(Line) /\ ls \in Seq(Line)
          /\ mark \in Position
      BY <2>2, <3>1 DEF FileTypes
    <3>3. ToSet(Text(delivered)) \subseteq seen
      BY <3>1 DEF Follows, Seen, OutSeen
    <3>4. StartAt = "start" => Gone(d, delivered \o ls, mark) \subseteq seen
      BY <2>2 DEF Follows, Seen, MemorySeen
    <3>5. /\ Accounted(d, ls, mark)
          /\ Gone(d, ls, mark) \subseteq
               Gone(d, delivered \o ls, mark) \union ToSet(Text(delivered))
      <4> HIDE DEF d, delivered, ls, mark
      <4> QED
        BY <3>1, <3>2, AccountedRest
    <3> QED
      BY <2>0, <2>2, <3>1, <3>3, <3>4, <3>5 DEF InStore, StoreSeen
  <2> QED
    BY <2>1, <2>2
<1> QED
  BY <1>2, <1>3 DEF Marks, Seen

(* Text that is appended to a file waits to be read.                       *)
LEMMA AppendContent ==
  ASSUME FileTypes, Follows, NEW p \in Files, AppendTo(p)
  PROVE  Marks' /\ Seen'
<1>1. /\ link[p] \in Inodes /\ written' \in Units
      /\ data[link[p]] \in Seq(Units)
      /\ data' = [data EXCEPT ![link[p]] = Append(data[link[p]], written')]
      /\ UNCHANGED <<link, file, lines, wm, db, out, seen>>
  BY AppendEffect
<1>2. \A i \in Inodes : data'[i] = IF i = link[p] THEN Append(data[i], written') ELSE data[i]
  BY <1>1 DEF FileTypes
<1>3. ASSUME NEW i \in Inodes, NEW cut \in Seq(Line), NEW mark \in Position,
             Accounted(data[i], cut, mark)
      PROVE  Accounted(data'[i], cut, mark) /\ Gone(data'[i], cut, mark) = Gone(data[i], cut, mark)
  <2> DEFINE d == data[i]
             u == written'
  <2>1. d \in Seq(Units)
    BY DEF FileTypes
  <2>2. /\ Accounted(Append(d, u), cut, mark)
        /\ Gone(Append(d, u), cut, mark) = Gone(d, cut, mark)
    <3>1. u \in Units /\ Accounted(d, cut, mark)
      BY <1>1, <1>3
    <3> HIDE DEF d, u
    <3> QED
      BY <2>1, <3>1, AccountedMore
  <2> QED
    BY <1>2, <1>3, <2>2
<1>4. ASSUME NEW q \in Files
      PROVE  OnMark(q)' /\ InMemory(q)' /\ OutSeen(q)' /\ MemorySeen(q)'
  <2>1. OnMark(q)' /\ OutSeen(q)'
    BY <1>1 DEF Follows, Marks, Seen, OnMark, Found, OutSeen
  <2>2. CASE wm[q] = NoMark
    <3>1. InMemory(q)'
      BY <1>1, <2>2 DEF Follows, Marks, InMemory
    <3>2. MemorySeen(q)'
      BY <1>1, <2>2 DEF MemorySeen
    <3> QED
      BY <2>1, <3>1, <3>2
  <2>3. CASE wm[q] # NoMark
    <3>1. link[q] # 0 /\ Accounted(data[link[q]], out[link[q]] \o lines[q], wm[q])
      BY <2>3 DEF Follows, Marks, InMemory
    <3>2. /\ link[q] \in Inodes /\ out[link[q]] \in Seq(Line) /\ lines[q] \in Seq(Line)
          /\ wm[q] \in Position
      BY <2>3, <3>1 DEF FileTypes
    <3>3. out[link[q]] \o lines[q] \in Seq(Line)
      BY <3>2, ConcatProperties
    <3> DEFINE cut == out[link[q]] \o lines[q]
               i == link[q]
               mark == wm[q]
    <3>4. Accounted(data'[i], cut, mark) /\ Gone(data'[i], cut, mark) = Gone(data[i], cut, mark)
      <4>1. i \in Inodes /\ cut \in Seq(Line) /\ mark \in Position /\ Accounted(data[i], cut, mark)
        BY <3>1, <3>2, <3>3
      <4> HIDE DEF i, cut, mark
      <4> QED
        BY <1>3, <4>1
    <3> QED
      BY <1>1, <2>1, <2>3, <3>1, <3>4 DEF Follows, Seen, InMemory, MemorySeen
  <2> QED
    BY <2>1, <2>2, <2>3
<1>5. ASSUME NEW q \in Files
      PROVE  InStore(q)' /\ StoreSeen(q)'
  <2>1. CASE db[q].mark = NoMark
    BY <1>1, <2>1 DEF Follows, Marks, InStore, StoreSeen
  <2>2. CASE db[q].mark # NoMark
    <3>1. link[q] # 0 /\ Accounted(data[link[q]], db[q].lines, db[q].mark)
      BY <2>2 DEF Follows, Marks, InStore
    <3>2. link[q] \in Inodes /\ db[q].lines \in Seq(Line) /\ db[q].mark \in Position
      BY <2>2, <3>1 DEF FileTypes
    <3> DEFINE cut == db[q].lines
               i == link[q]
               mark == db[q].mark
    <3>3. Accounted(data'[i], cut, mark) /\ Gone(data'[i], cut, mark) = Gone(data[i], cut, mark)
      <4>1. i \in Inodes /\ cut \in Seq(Line) /\ mark \in Position /\ Accounted(data[i], cut, mark)
        BY <3>1, <3>2
      <4> HIDE DEF i, cut, mark
      <4> QED
        BY <1>3, <4>1
    <3> QED
      BY <1>1, <2>2, <3>1, <3>3 DEF Follows, Seen, InStore, StoreSeen
  <2> QED
    BY <2>1, <2>2
<1> QED
  BY <1>4, <1>5 DEF Marks, Seen

(* The next process goes on from what is stored.                           *)
LEMMA RestartContent ==
  ASSUME FileTypes, Follows, Restart
  PROVE  Marks' /\ Seen'
<1>1. /\ file' = [p \in Files |-> NoFile] /\ lines' = [p \in Files |-> db[p].lines]
      /\ wm' = [p \in Files |-> db[p].mark] /\ out' = [i \in Inodes |-> <<>>]
      /\ UNCHANGED <<data, link, db, seen>>
  BY DEF Restart, disk
<1>2. ASSUME NEW p \in Files
      PROVE  OnMark(p)' /\ InStore(p)' /\ StoreSeen(p)'
  <2>1. InStore(p)' /\ StoreSeen(p)'
    BY <1>1 DEF Follows, Marks, Seen, InStore, StoreSeen
  <2>2. file'[p].ino = 0
    BY <1>1, NoFileType
  <2> QED
    BY <2>1, <2>2 DEF OnMark, Found
<1>3. ASSUME NEW p \in Files, link[p] # 0
      PROVE  out'[link[p]] = <<>> /\ OutSeen(p)'
  <2>1. link[p] \in Inodes
    BY <1>3 DEF FileTypes
  <2>2. out'[link[p]] = <<>>
    BY <1>1, <2>1
  <2>3. ToSet(Text(<<>>)) = {}
    BY TextEmpty, EmptySeq DEF ToSet
  <2> QED
    BY <1>1, <2>2, <2>3 DEF OutSeen
<1>4. ASSUME NEW p \in Files
      PROVE  InMemory(p)' /\ OutSeen(p)' /\ MemorySeen(p)'
  <2>1. wm'[p] = db[p].mark /\ lines'[p] = db[p].lines
    BY <1>1
  <2>2. CASE db[p].mark = NoMark
    <3>1. lines'[p] = <<>>
      BY <2>1, <2>2 DEF Follows, Marks, InStore
    <3>2. link[p] # 0 => out'[link[p]] = <<>>
      BY <1>3
    <3> QED
      BY <1>1, <1>3, <2>1, <2>2, <3>1, <3>2 DEF InMemory, OutSeen, MemorySeen
  <2>3. CASE db[p].mark # NoMark
    <3>1. link[p] # 0 /\ Accounted(data[link[p]], db[p].lines, db[p].mark)
      BY <2>3 DEF Follows, Marks, InStore
    <3>2. out'[link[p]] = <<>> /\ OutSeen(p)'
      BY <1>3, <3>1
    <3>3. db[p].lines \in Seq(Line)
      BY DEF FileTypes
    <3>4. out'[link[p]] \o lines'[p] = db[p].lines
      BY <2>1, <3>2, <3>3, ConcatEmptySeq
    <3>5. InMemory(p)'
      BY <1>1, <2>1, <2>3, <3>1, <3>4 DEF InMemory
    <3>6. MemorySeen(p)'
      BY <1>1, <2>1, <2>3, <3>4 DEF Follows, Seen, MemorySeen, StoreSeen
    <3> QED
      BY <3>2, <3>5, <3>6
  <2> QED
    BY <2>2, <2>3
<1> QED
  BY <1>2, <1>4 DEF Marks, Seen

LEMMA ContentStep ==
  ASSUME FileTypes, Follows, [FileNext]_fileVars, spoiled' = {}
  PROVE  Marks' /\ Seen'
<1>1. CASE \E t \in Tasks : Ask(t) \/ Granted(t) \/ Lock(t) \/ StartRead(t) \/ Completes(t)
  <2>1. PICK t \in Tasks : Ask(t) \/ Granted(t) \/ Lock(t) \/ StartRead(t) \/ Completes(t)
    BY <1>1
  <2>2. CASE Open(t)
    BY <2>2, OpenContent
  <2>3. CASE Read(t)
    BY <2>3, ReadContent
  <2>4. CASE CloseRead(t)
    BY <2>4, CloseContent
  <2>5. CASE \/ Ask(t) \/ Granted(t) \/ Lock(t) \/ StartRead(t)
             \/ OpenFails(t) \/ ReadNothing(t) \/ ReadFails(t) \/ Stat(t) \/ StopClose(t)
    BY <2>5, QuietCalls, ContentKept DEF Follows
  <2> QED
    BY <2>1, <2>2, <2>3, <2>4, <2>5 DEF Completes
<1>2. CASE NextLine \/ NextRead \/ Answer
  <2>1. UNCHANGED <<data, link, db, file, wm>>
    BY <1>2 DEF NextLine, NextRead, Answer, Fetching, disk, marks
  <2>2. (\E p \in Files : p \in Known /\ Hand(p)) \/ UNCHANGED <<lines, out, seen>>
    <3>1. Known \subseteq Files
      BY DEF Known
    <3> QED
      BY <1>2, <3>1 DEF NextLine, NextRead, Answer
  <2> QED
    BY <2>1, <2>2, HandContent, ContentKept DEF ContentSame, ObjectsSame, Follows
<1>3. CASE \E p \in Files : MonitorEvent(p)
  <2>1. PICK p \in Files : Add(p) \/ ChangeSeen(p)
    BY <1>3 DEF MonitorEvent, Unlink, Follows, Disk
  <2>2. ContentSame
    BY <2>1 DEF Add, ChangeSeen, Monitoring, disk, memory, marks, history, ContentSame, ObjectsSame
  <2> QED
    BY <2>2, ContentKept DEF Follows
<1>4. CASE SaveMarks \/ StopSave
  <2>1. Store /\ UNCHANGED <<data, link, file, lines, out, seen>>
    BY <1>4 DEF SaveMarks, StopSave, Saving, disk, memory, history
  <2> QED
    BY <2>1, StoreContent
<1>5. CASE Save \/ Stop \/ StopFiles \/ StopLeave
  <2>1. ContentSame
    BY <1>5 DEF Save, Stop, StopFiles, StopLeave, Saving, disk, memory, marks, history,
       ContentSame, ObjectsSame
  <2> QED
    BY <2>1, ContentKept DEF Follows
<1>6. CASE Restart
  BY <1>6, RestartContent
<1>7. CASE \E p \in Paths : FileChange(p)
  BY <1>7, OnlyAppends, AppendContent DEF Follows
<1>8. CASE UNCHANGED fileVars
  <2>1. ContentSame
    BY <1>8 DEF fileVars, disk, memory, marks, history, ContentSame, ObjectsSame
  <2> QED
    BY <2>1, ContentKept DEF Follows
<1> QED
  BY <1>1, <1>2, <1>3, <1>4, <1>5, <1>6, <1>7, <1>8, FileSteps

(* Types; and of files that only grow, where they are, who opens them and, *)
(* when the watermarks are used, the text that is accounted for.           *)
FileInv ==
  /\ FileTypes
  /\ spoiled = {} => /\ Disk /\ OpensOnce
                     /\ ReadMode = "watermark" => Marks /\ Seen

LEMMA FileInitInv ==
  ASSUME FileInit
  PROVE  FileInv
<1>1. /\ data = [i \in Inodes |-> <<>>] /\ written = 0
      /\ link \in Directory(Paths)
      /\ events = {"add"} \X {p \in Files : link[p] # 0}
      /\ file = [p \in Files |-> NoFile] /\ old = [p \in Files |-> NoFile]
      /\ lines = [p \in Files |-> <<>>]
      /\ wm = [p \in Files |-> NoMark]
      /\ db = [p \in Files |-> [mark |-> NoMark, lines |-> <<>>]]
      /\ sem = Sem(1) /\ task = [t \in Tasks |-> Free]
      /\ out = [i \in Inodes |-> <<>>] /\ seen = {} /\ spoiled = {}
  BY DEF FileInit
<1>2. link \in [Files -> {0} \union Inodes]
  <2>1. Cardinality(Paths) <= MaxInodes /\ Cardinality(Paths) \in Nat /\ MaxInodes \in Nat
    <3>1. Paths \in SUBSET Files
      BY PathsAreFiles
    <3>2. Cardinality(Paths) <= Cardinality(Files) /\ IsFiniteSet(Paths)
      BY <3>1, WorldAssumption, FS_Subset
    <3>3. Cardinality(Paths) \in Nat /\ Cardinality(Files) \in Nat
      BY <3>2, WorldAssumption, FS_CardinalityType
    <3> QED
      BY <3>2, <3>3, WorldAssumption
  <2>2. link \in [Files -> 0..Cardinality(Paths)]
    BY <1>1 DEF Directory
  <2>3. 0..Cardinality(Paths) \subseteq {0} \union Inodes
    BY <2>1 DEF Inodes
  <2> QED
    BY <2>2, <2>3
<1>3. /\ \A p \in Files : link[p] # 0 <=> p \in Paths
      /\ \A p, q \in Paths : link[p] = link[q] => p = q
  BY <1>1 DEF Directory
<1>4. FileTypes
  <2>1. \A S : <<>> \in Seq(S)
    BY EmptySeq
  <2>2. Sem(1) \in SemaphoreOf(Callers)
    BY SemType
  <2> QED
    BY <1>1, <1>2, <2>1, <2>2, NoFileType, FreeType, WorldAssumption DEF FileTypes
<1>5. Disk
  <2>1. \A i \in Inodes : data[i] = <<>>
    BY <1>1
  <2>2. \A p \in Files : <<"unlink", p>> \notin events
    BY <1>1
  <2> QED
    BY <1>3, <2>1, <2>2, PathsAreFiles DEF Disk
<1>6. OpensOnce
  <2>1. \A p \in Files : file[p] = NoFile /\ old[p] = NoFile
    BY <1>1
  <2>2. \A t \in Tasks : task[t] = Free
    BY <1>1
  <2>3. sem.wait = <<>>
    BY <1>1, SemType
  <2> QED
    BY <2>1, <2>2, <2>3, NoFileType DEF OpensOnce, OpensQueued, Early, Underway, Found,
       Free, InWait, Whose
<1>7. Marks /\ Seen
  <2>1. ASSUME NEW p \in Files
        PROVE  /\ file[p].ino = 0 /\ wm[p] = NoMark /\ lines[p] = <<>>
               /\ db[p].mark = NoMark /\ db[p].lines = <<>>
               /\ link[p] # 0 => out[link[p]] = <<>>
    <3>1. link[p] \in {0} \union Inodes
      BY <1>2
    <3> QED
      BY <1>1, <3>1, NoFileType
  <2>2. ToSet(Text(<<>>)) = {}
    BY TextEmpty, EmptySeq DEF ToSet
  <2> QED
    BY <2>1, <2>2 DEF Marks, Seen, OnMark, InMemory, InStore, OutSeen, MemorySeen, StoreSeen, Found
<1> QED
  BY <1>1, <1>4, <1>5, <1>6, <1>7 DEF FileInv

LEMMA FileStepInv ==
  ASSUME FileInv, [FileNext]_fileVars
  PROVE  FileInv'
<1>1. FileTypes'
  BY TypesStep DEF FileInv
<1>2. ASSUME spoiled' = {}
      PROVE  Disk' /\ OpensOnce' /\ (ReadMode = "watermark" => Marks' /\ Seen')
  <2>1. Disk /\ OpensOnce /\ (ReadMode = "watermark" => Marks /\ Seen)
    BY <1>2, SpoiledGrows DEF FileInv
  <2>2. Disk' /\ OpensOnce'
    BY <1>2, <2>1, DiskStep, OpensStep DEF FileInv
  <2>3. ReadMode = "watermark" => Marks' /\ Seen'
    BY <1>2, <2>1, ContentStep DEF FileInv, Follows
  <2> QED
    BY <2>2, <2>3
<1> QED
  BY <1>1, <1>2 DEF FileInv

(* The files, the calls under way, the marks and the text of the lines of  *)
(* FileInput.next, openFile and readlines keep together, whatever files,   *)
(* block size, start offset and worlds the input is given.                 *)
THEOREM FileInvariance == FileSpec => []FileInv
<1>1. FileInit => FileInv
  BY FileInitInv
<1>2. FileInv /\ [FileNext]_fileVars => FileInv'
  BY FileStepInv
<1> QED
  BY <1>1, <1>2, PTL DEF FileSpec

LEMMA FollowedIsAccounted ==
  ASSUME FileInv, NEW p \in Files, Followed(p)
  PROVE  /\ Follows /\ link[p] \in Inodes /\ file[p].ino = link[p]
         /\ wm[p] = ToJSON(file[p]) /\ wm[p] \in Position
         /\ data[link[p]] \in Seq(Units)
         /\ out[link[p]] \in Seq(Line) /\ lines[p] \in Seq(Line)
         /\ Accounted(data[link[p]], out[link[p]] \o lines[p], wm[p])
<1>1. Follows /\ FileTypes /\ link[p] # 0 /\ p \in Known
  BY DEF FileInv, Followed, Original, Follows
<1>2. Found(p)
  BY <1>1 DEF Known, Follows, OpensOnce
<1>3. file[p].ino = link[p] /\ wm[p] = ToJSON(file[p])
  BY <1>1, <1>2 DEF Follows, Marks, OnMark
<1>4. wm[p] \in Position /\ link[p] \in Inodes
  BY <1>1, <1>3, ObjectFields DEF FileTypes
<1>5. wm[p] # NoMark
  BY <1>4 DEF Position, NoMark
<1>6. Accounted(data[link[p]], out[link[p]] \o lines[p], wm[p])
  BY <1>1, <1>5 DEF Follows, Marks, InMemory
<1> QED
  BY <1>1, <1>3, <1>4, <1>6 DEF FileTypes

LEMMA InvLines ==
  ASSUME FileInv
  PROVE  LinesAccounted
<1> SUFFICES ASSUME NEW p \in Files, Followed(p)
             PROVE  LET f == file[p]
                        cut == out[f.ino] \o lines[p]
                        text == Text(cut) \o f.tail
                    IN /\ f.offset <= Len(data[f.ino])
                       /\ Len(text) <= f.offset
                       /\ text = SubSeq(data[f.ino], f.offset - Len(text) + 1, f.offset)
                       /\ \A k \in 2..Len(cut) : cut[k].ln = cut[k - 1].ln + 1
  BY DEF LinesAccounted
<1> DEFINE d == data[link[p]]
           cut == out[link[p]] \o lines[p]
           mark == wm[p]
           text == Text(cut) \o mark.tail
           offset == mark.offset
           line == mark.line
<1>1. /\ file[p].ino = link[p] /\ mark = ToJSON(file[p]) /\ mark \in Position
      /\ d \in Seq(Units) /\ out[link[p]] \in Seq(Line) /\ lines[p] \in Seq(Line)
      /\ Accounted(d, cut, mark)
  BY FollowedIsAccounted
<1>2. /\ offset = file[p].offset /\ mark.tail = file[p].tail
      /\ offset \in Nat /\ mark.tail \in Seq(Units) /\ line \in Nat
  BY <1>1 DEF ToJSON, Position
<1>3. cut \in Seq(Line)
  BY <1>1, ConcatProperties
<1> HIDE DEF d, cut, mark
<1>4. text \in Seq(Units) /\ Len(text) \in Nat /\ Lies(d, text, offset) /\ Numbered(cut, line)
  BY <1>1, <1>2, <1>3, AccountType DEF Accounted
<1> HIDE DEF text, offset, line
<1>5. text = SubSeq(d, offset - Len(text) + 1, offset)
  <2> DEFINE n == Len(text)
             from == offset - n + 1
             s == SubSeq(d, from, offset)
  <2>1. /\ n \in Nat /\ n <= offset /\ offset <= Len(d) /\ Len(d) \in Nat /\ from \in Nat
        /\ from >= 1 /\ offset - from + 1 = n /\ offset \in Nat
    <3>1. Len(d) \in Nat
      BY <1>1
    <3>2. n \in Nat /\ n <= offset /\ offset <= Len(d)
      BY <1>4 DEF Lies
    <3>3. offset \in Nat
      BY <1>2
    <3> HIDE DEF n
    <3> QED
      BY <3>1, <3>2, <3>3
  <2>2. \A k \in from..offset : d[k] \in Units
    BY <1>1, <2>1, ElementOfSeq
  <2>3. /\ s \in Seq(Units)
        /\ Len(s) = IF from <= offset THEN offset - from + 1 ELSE 0
        /\ \A k \in 1..(offset - from + 1) : s[k] = d[from + k - 1]
    <3> HIDE DEF from, s
    <3>1. /\ SubSeq(d, from, offset) \in Seq(Units)
          /\ Len(SubSeq(d, from, offset)) = IF from <= offset THEN offset - from + 1 ELSE 0
          /\ \A k \in 1..(offset - from + 1) : SubSeq(d, from, offset)[k] = d[from + k - 1]
      BY <2>1, <2>2, SubSeqProperties
    <3> QED
      BY <3>1 DEF s
  <2> HIDE DEF s
  <2>4. Len(s) = n
    BY <2>1, <2>3
  <2>5. \A k \in 1..Len(s) : text[k] = s[k]
    <3> SUFFICES ASSUME NEW k \in 1..Len(s)
                 PROVE  text[k] = s[k]
      OBVIOUS
    <3>1. s[k] = d[from + k - 1] /\ text[k] = d[offset - n + k]
      BY <1>4, <2>1, <2>3, <2>4 DEF Lies
    <3>2. from + k - 1 = offset - n + k
      BY <2>1
    <3> QED
      BY <3>1, <3>2
  <2> QED
    BY <1>4, <2>3, <2>4, <2>5, SeqEqual DEF s
<1>6. \A k \in 2..Len(cut) : cut[k].ln = cut[k - 1].ln + 1
  <2> SUFFICES ASSUME NEW k \in 2..Len(cut)
               PROVE  cut[k].ln = cut[k - 1].ln + 1
    OBVIOUS
  <2>1. Len(cut) \in Nat
    BY <1>3
  <2>2. k \in 1..Len(cut) /\ k - 1 \in 1..Len(cut)
    BY <2>1
  <2>3. cut[k].ln = line - Len(cut) + k /\ cut[k - 1].ln = line - Len(cut) + (k - 1)
    BY <1>4, <2>2 DEF Numbered
  <2> QED
    BY <1>2, <2>1, <2>3
<1> QED
  BY <1>1, <1>2, <1>4, <1>5, <1>6 DEF Lies, d, cut, text

(* Of a file that only grows, FileInput.next hands over every line once,   *)
(* in order, whole and with its number, and what it has not handed over is *)
(* in the lines, the tail or beyond the offset of the file.                *)
THEOREM FileLines == FileSpec => []LinesAccounted
<1>1. FileInv => LinesAccounted
  BY InvLines
<1> QED
  BY <1>1, FileInvariance, PTL

(* The steps that store.                                                   *)
LEMMA StoreSteps ==
  ASSUME [FileNext]_fileVars, db' # db
  PROVE  Store
<1>1. CASE \E t \in Tasks : Ask(t) \/ Granted(t) \/ Lock(t) \/ StartRead(t) \/ Completes(t)
  <2>1. PICK t \in Tasks : Ask(t) \/ Granted(t) \/ Lock(t) \/ StartRead(t) \/ Completes(t)
    BY <1>1
  <2>2. CASE Ask(t) \/ Granted(t) \/ Lock(t) \/ StartRead(t)
    BY <2>2 DEF Ask, Granted, Lock, StartRead, marks
  <2>3. CASE Completes(t)
    BY <2>3 DEF Completes, Open, OpenFails, Read, ReadNothing, ReadFails, Stat,
       CloseRead, StopClose, Delivers, Fails, marks
  <2> QED
    BY <2>1, <2>2, <2>3
<1>2. CASE NextLine \/ NextRead \/ Answer
  BY <1>2 DEF NextLine, NextRead, Answer, Fetching, marks
<1>3. CASE \E p \in Files : MonitorEvent(p)
  BY <1>3 DEF MonitorEvent, Add, ChangeSeen, Unlink, Monitoring, marks
<1>4. CASE SaveMarks \/ StopSave
  BY <1>4 DEF SaveMarks, StopSave
<1>5. CASE Save \/ Stop \/ StopFiles \/ StopLeave
  BY <1>5 DEF Save, Stop, StopFiles, StopLeave, marks
<1>6. CASE Restart
  BY <1>6 DEF Restart
<1>7. CASE \E p \in Paths : FileChange(p)
  BY <1>7 DEF FileChange, AppendTo, Truncate, Delete, Create, Unannounced, marks
<1>8. CASE UNCHANGED fileVars
  BY <1>8 DEF fileVars, marks
<1> QED
  BY <1>1, <1>2, <1>3, <1>4, <1>5, <1>6, <1>7, <1>8, FileSteps

(* What is left to be read of a file, and what was delivered of it.        *)
LEMMA Covered ==
  ASSUME NEW d \in Seq(Units), \A k, l \in 1..Len(d) : k < l => d[k] < d[l],
         NEW delivered \in Seq(Line), NEW ls \in Seq(Line), NEW mark \in Position,
         Accounted(d, delivered \o ls, mark), NEW before,
         ToSet(Text(delivered)) \subseteq before, Gone(d, delivered \o ls, mark) \subseteq before,
         NEW again, again = ToSet(Text(ls) \o mark.tail)
                              \union ToSet(SubSeq(d, mark.offset + 1, Len(d)))
  PROVE  /\ ToSet(d) \subseteq before \union again
         /\ again \intersect ToSet(Text(delivered)) = {}
<1> DEFINE a == Text(delivered)
           b == Text(ls) \o mark.tail
           offset == mark.offset
           rest == SubSeq(d, mark.offset + 1, Len(d))
           all == Len(Text(delivered \o ls) \o mark.tail)
<1>1. offset \in Nat /\ mark.tail \in Seq(Units) /\ Len(d) \in Nat
  BY DEF Position
<1>2. a \in Seq(Units) /\ b \in Seq(Units) /\ Len(a) \in Nat /\ Len(b) \in Nat
  BY <1>1, TextType, AccountType
<1>3. /\ Lies(d, b, offset) /\ Gone(d, ls, mark) \subseteq before
      /\ all = Len(a) + Len(b)
      /\ \A k \in 1..Len(a) : a[k] = d[offset - all + k]
  BY AccountedRest DEF Accounted
<1>4. offset <= Len(d) /\ all <= offset
  BY DEF Accounted, Lies
<1>5. /\ rest \in Seq(Units) /\ Len(rest) = Len(d) - offset
      /\ \A k \in 1..Len(rest) : rest[k] = d[offset + k]
  <2> DEFINE n == Len(d)
             from == offset + 1
  <2>1. /\ from \in Nat /\ from >= 1 /\ n \in Nat
        /\ from <= n + 1 /\ offset = from - 1
    BY <1>1, <1>4
  <2>2. \A k \in from..n : d[k] \in Units
    BY <2>1, ElementOfSeq
  <2> HIDE DEF from, n
  <2>3. /\ SubSeq(d, from, n) \in Seq(Units)
        /\ Len(SubSeq(d, from, n)) = IF from <= n THEN n - from + 1 ELSE 0
        /\ \A k \in 1..(n - from + 1) : SubSeq(d, from, n)[k] = d[from + k - 1]
    BY <2>1, <2>2, SubSeqProperties
  <2>4. rest = SubSeq(d, from, n)
    BY DEF from, n
  <2> HIDE DEF rest
  <2>5. Len(rest) = n - offset /\ \A k \in 1..Len(rest) : rest[k] = d[from + k - 1]
    BY <1>4, <2>1, <2>3, <2>4
  <2>6. \A k \in 1..Len(rest) : from + k - 1 = offset + k
    BY <2>1, <2>3, <2>4
  <2> QED
    BY <2>3, <2>4, <2>5, <2>6 DEF n
<1> HIDE DEF a, b, rest, all
<1>6. /\ \A k \in 1..Len(b) : b[k] \in ToSet(b)
      /\ \A k \in 1..Len(rest) : rest[k] \in ToSet(rest)
      /\ \A u \in ToSet(a) : \E k \in 1..Len(a) : u = a[k]
      /\ \A u \in ToSet(b) : \E k \in 1..Len(b) : u = b[k]
      /\ \A u \in ToSet(rest) : \E k \in 1..Len(rest) : u = rest[k]
      /\ \A u \in ToSet(d) : \E k \in 1..Len(d) : u = d[k]
  BY <1>2, <1>5 DEF ToSet
<1>7. again = ToSet(b) \union ToSet(rest)
  BY DEF b, rest
<1>8. ASSUME NEW k \in 1..Len(d)
      PROVE  d[k] \in before \union again
  <2>1. CASE k <= offset - Len(b)
    <3>1. d[k] \in Gone(d, ls, mark)
      BY <2>1 DEF Gone, b, offset
    <3> QED
      BY <1>3, <3>1
  <2>2. CASE k > offset - Len(b) /\ k <= offset
    <3> DEFINE j == k - (offset - Len(b))
    <3>1. j \in 1..Len(b) /\ offset - Len(b) + j = k
      BY <1>1, <1>2, <2>2
    <3> HIDE DEF j
    <3>2. b[j] = d[k]
      BY <1>3, <3>1 DEF Lies
    <3> QED
      BY <1>6, <1>7, <3>1, <3>2
  <2>3. CASE k > offset
    <3> DEFINE j == k - offset
    <3>1. j \in 1..Len(rest) /\ offset + j = k
      BY <1>1, <1>5, <2>3
    <3> HIDE DEF j
    <3>2. rest[j] = d[k]
      BY <1>5, <3>1
    <3> QED
      BY <1>6, <1>7, <3>1, <3>2
  <2> QED
    BY <1>1, <1>2, <2>1, <2>2, <2>3
<1>9. ASSUME NEW u \in again
      PROVE  \E k \in 1..Len(d) : u = d[k] /\ k > offset - Len(b)
  <2>1. CASE u \in ToSet(b)
    <3>1. PICK j \in 1..Len(b) : u = b[j]
      BY <1>6, <2>1
    <3>2. offset - Len(b) + j \in 1..Len(d) /\ offset - Len(b) + j > offset - Len(b)
      BY SMTT(30), <1>1, <1>2, <1>3, <1>4 DEF Lies
    <3> QED
      BY <1>3, <3>1, <3>2 DEF Lies
  <2>2. CASE u \in ToSet(rest)
    <3>1. PICK j \in 1..Len(rest) : u = rest[j]
      BY <1>6, <2>2
    <3>2. offset + j \in 1..Len(d) /\ offset + j > offset - Len(b)
      BY SMTT(30), <1>1, <1>2, <1>5
    <3> QED
      BY <1>5, <3>1, <3>2
  <2> QED
    BY <1>7, <1>9, <2>1, <2>2
<1>10. ASSUME NEW u \in ToSet(a)
       PROVE  \E k \in 1..Len(d) : u = d[k] /\ k <= offset - Len(b)
  <2>1. PICK j \in 1..Len(a) : u = a[j]
    BY <1>6, <1>10
  <2>2. offset - all + j \in 1..Len(d) /\ offset - all + j <= offset - Len(b)
    <3> DEFINE m == Len(a)
               n == Len(b)
               size == Len(d)
    <3>1. /\ offset \in Nat /\ m \in Nat /\ n \in Nat /\ size \in Nat
          /\ all = m + n /\ all <= offset /\ offset <= size /\ j \in 1..m
      BY <1>1, <1>2, <1>3, <1>4
    <3> HIDE DEF m, n, size, offset
    <3>2. offset - all + j \in 1..size /\ offset - all + j <= offset - n
      BY ONLY <3>1
    <3> QED
      BY ONLY <3>2 DEF n, size, offset
  <2> QED
    BY <1>3, <2>1, <2>2
<1>11. \A k \in 1..Len(d) : d[k] \in Nat
  <2>1. \A k \in 1..Len(d) : d[k] \in Units
    BY ElementOfSeq
  <2> QED
    BY <2>1, WorldAssumption DEF Units
<1>12. ASSUME NEW u \in again, u \in ToSet(a)
       PROVE  FALSE
  <2>1. PICK k \in 1..Len(d) : u = d[k] /\ k > offset - Len(b)
    BY <1>9
  <2>2. PICK l \in 1..Len(d) : u = d[l] /\ l <= offset - Len(b)
    BY <1>10, <1>12
  <2>3. l < k
    BY <1>1, <1>2, <2>1, <2>2
  <2>4. d[l] < d[k]
    BY <2>3
  <2> QED
    BY <1>11, <2>1, <2>2, <2>4
<1> QED
  BY <1>6, <1>8, <1>12 DEF a

LEMMA InvStores ==
  ASSUME FileInv, [FileNext]_fileVars, db' # db, StartAt = "start",
         NEW p \in Files, Followed(p)
  PROVE  LET i == link[p]
             mark == db'[p].mark
             again == ToSet(Text(db'[p].lines) \o mark.tail)
                        \union ToSet(SubSeq(data[i], mark.offset + 1, Len(data[i])))
         IN /\ ToSet(data[i]) \subseteq seen \union again
            /\ again \intersect ToSet(Text(out[i])) = {}
<1> DEFINE d == data[link[p]]
           delivered == out[link[p]]
           ls == lines[p]
           mark == wm[p]
           again == ToSet(Text(ls) \o mark.tail)
                      \union ToSet(SubSeq(d, mark.offset + 1, Len(d)))
<1>1. /\ Follows /\ link[p] \in Inodes /\ mark \in Position /\ d \in Seq(Units)
      /\ delivered \in Seq(Line) /\ ls \in Seq(Line)
      /\ Accounted(d, delivered \o ls, mark)
  BY FollowedIsAccounted
<1>2. \A k, l \in 1..Len(d) : k < l => d[k] < d[l]
  BY <1>1 DEF Follows, Disk
<1>3. ToSet(Text(delivered)) \subseteq seen /\ Gone(d, delivered \o ls, mark) \subseteq seen
  <2>1. link[p] # 0
    BY DEF Followed, Original
  <2>2. mark # NoMark
    BY <1>1 DEF Position, NoMark
  <2> QED
    BY <1>1, <2>1, <2>2 DEF Follows, Seen, OutSeen, MemorySeen
<1>4. db'[p].mark = mark /\ db'[p].lines = ls
  <2>1. db'[p] = [mark |-> mark, lines |-> ls]
    BY <1>1, StoreSteps, Stored DEF FileInv
  <2> HIDE DEF mark, ls
  <2> QED
    BY <2>1
<1>5. /\ ToSet(d) \subseteq seen \union again
      /\ again \intersect ToSet(Text(delivered)) = {}
  <2>1. again = ToSet(Text(ls) \o mark.tail)
                  \union ToSet(SubSeq(d, mark.offset + 1, Len(d)))
    OBVIOUS
  <2>2. /\ d \in Seq(Units) /\ delivered \in Seq(Line) /\ ls \in Seq(Line)
        /\ mark \in Position /\ Accounted(d, delivered \o ls, mark)
        /\ ToSet(Text(delivered)) \subseteq seen
        /\ Gone(d, delivered \o ls, mark) \subseteq seen
    BY <1>1, <1>3
  <2> HIDE DEF d, delivered, ls, mark, again
  <2> QED
    BY ONLY <1>2, <2>1, <2>2, Covered
<1> QED
  BY <1>4, <1>5

(* When files are read from their start, what FileInput.save and stop      *)
(* store is the position: everything that was not delivered comes again,   *)
(* and nothing that this process delivered.                                *)
THEOREM FilePosition ==
  ASSUME StartAt = "start"
  PROVE  FileSpec => StoresPosition
<1> DEFINE Position_ == db' # db => \A p \in Files : Followed(p) =>
             LET i == link[p]
                 mark == db'[p].mark
                 again == ToSet(Text(db'[p].lines) \o mark.tail)
                            \union ToSet(SubSeq(data[i], mark.offset + 1, Len(data[i])))
             IN /\ ToSet(data[i]) \subseteq seen \union again
                /\ again \intersect ToSet(Text(out[i])) = {}
<1>1. FileInv /\ [FileNext]_fileVars => [Position_]_fileVars
  BY InvStores
<1>2. FileSpec => [][Position_]_fileVars
  <2> HIDE DEF Position_
  <2> QED
    BY <1>1, FileInvariance, PTL DEF FileSpec
<1> QED
  BY <1>2 DEF StoresPosition
=============================================================================
