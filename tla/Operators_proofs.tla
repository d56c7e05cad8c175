-------------------------- MODULE Operators_proofs --------------------------
(***************************************************************************)
(* Lemmas about the operators that several modules share: the semaphore's, *)
(* for the proofs about the modules that own one, and the FlattenSeq of    *)
(* the community modules, with the induction it needs.                     *)
(***************************************************************************)
EXTENDS Semaphore, SequencesExt, FiniteSetTheorems, SequenceTheorems,
        WellFoundedInduction, TLAPS

(* take() of a caller keeps the shape of the semaphore, and queues the     *)
(* caller at the end exactly when no slot is available.                    *)
LEMMA TakeProperties ==
  ASSUME NEW C, NEW s \in SemaphoreOf(C), NEW x \in C
  PROVE  /\ Take(s, x) \in SemaphoreOf(C)
         /\ Take(s, x).cap = s.cap
         /\ Available(s) => /\ Take(s, x).cur = s.cur + 1
                            /\ Take(s, x).wait = s.wait
         /\ ~Available(s) => /\ Take(s, x).cur = s.cur
                             /\ Take(s, x).wait = Append(s.wait, x)
  BY DEF Take, Available, SemaphoreOf

(* leave() keeps the shape, and either hands the slot to the first waiter  *)
(* or frees it.                                                            *)
LEMMA LeaveProperties ==
  ASSUME NEW C, NEW s \in SemaphoreOf(C)
  PROVE  /\ Leave(s) \in SemaphoreOf(C)
         /\ Leave(s).cap = s.cap
         /\ HandsOver(s) => /\ Leave(s).cur = s.cur
                            /\ Leave(s).wait = Tail(s.wait)
                            /\ Woken(s) = {s.wait[1]}
                            /\ s.wait[1] \in C /\ Len(s.wait) >= 1
         /\ ~HandsOver(s) => /\ Leave(s).cur = s.cur - 1
                             /\ Leave(s).wait = s.wait
                             /\ Woken(s) = {}
<1>1. s = [cap |-> s.cap, cur |-> s.cur, wait |-> s.wait]
  BY DEF SemaphoreOf
<1>2. s.cap \in Nat /\ s.cur \in Int /\ s.wait \in Seq(C)
  BY DEF SemaphoreOf
<1>3. CASE HandsOver(s)
  <2>1. s.wait # <<>>
    BY <1>3 DEF HandsOver
  <2>2. /\ Tail(s.wait) \in Seq(C) /\ Len(s.wait) >= 1
        /\ Head(s.wait) = s.wait[1] /\ s.wait[1] \in C
    BY <1>2, <2>1
  <2>3. Leave(s) = [s EXCEPT !.wait = Tail(s.wait)]
    BY <1>3 DEF Leave
  <2>4. Woken(s) = {Head(s.wait)}
    BY <1>3 DEF Woken
  <2> QED
    BY <1>1, <1>2, <1>3, <2>2, <2>3, <2>4 DEF SemaphoreOf
<1>4. CASE ~HandsOver(s)
  <2>1. Leave(s) = [s EXCEPT !.cur = s.cur - 1]
    BY <1>4 DEF Leave
  <2>2. Woken(s) = {}
    BY <1>4 DEF Woken
  <2> QED
    BY <1>1, <1>2, <1>4, <2>1, <2>2 DEF SemaphoreOf
<1> QED
  BY <1>3, <1>4

(* A caller that is not queued may be appended to the wait queue.          *)
LEMMA QueuedTake ==
  ASSUME NEW C, NEW s \in SemaphoreOf(C), NEW x \in C,
         NEW D, NEW state \in [C -> D], NEW w \in D,
         Queued(s, state, w), state[x] # w, ~Available(s)
  PROVE  Queued(Take(s, x), [state EXCEPT ![x] = w], w)
<1> DEFINE t == Take(s, x)
           st == [state EXCEPT ![x] = w]
<1>1. s.wait \in Seq(C) /\ t.wait = Append(s.wait, x)
  <2>1. s.wait \in Seq(C)
    BY DEF SemaphoreOf
  <2>2. t.wait = Append(s.wait, x)
    BY TakeProperties
  <2> QED
    BY <2>1, <2>2
<1>2. /\ Len(t.wait) = Len(s.wait) + 1
      /\ \A i \in 1..Len(s.wait) : t.wait[i] = s.wait[i] /\ s.wait[i] \in C
      /\ t.wait[Len(s.wait) + 1] = x
  BY <1>1, AppendProperties
<1>3. \A i \in 1..Len(s.wait) : s.wait[i] # x
  BY DEF Queued
<1>4. Len(s.wait) \in Nat
  BY <1>1
<1> HIDE DEF t
<1>5. \A i \in 1..Len(t.wait) : st[t.wait[i]] = w
  BY <1>2, <1>3, <1>4 DEF Queued
<1>6. \A i, j \in 1..Len(t.wait) : t.wait[i] = t.wait[j] => i = j
  <2> SUFFICES ASSUME NEW i \in 1..Len(t.wait), NEW j \in 1..Len(t.wait),
                      t.wait[i] = t.wait[j]
               PROVE  i = j
    OBVIOUS
  <2>1. CASE i \in 1..Len(s.wait) /\ j \in 1..Len(s.wait)
    BY <1>2, <2>1 DEF Queued
  <2>2. CASE i = Len(s.wait) + 1 /\ j \in 1..Len(s.wait)
    <3>1. t.wait[i] = x /\ t.wait[j] # x
      BY <1>2, <1>3, <2>2
    <3> QED
      BY <3>1
  <2>3. CASE j = Len(s.wait) + 1 /\ i \in 1..Len(s.wait)
    <3>1. t.wait[j] = x /\ t.wait[i] # x
      BY <1>2, <1>3, <2>3
    <3> QED
      BY <3>1
  <2>4. /\ i \in 1..Len(s.wait) \/ i = Len(s.wait) + 1
        /\ j \in 1..Len(s.wait) \/ j = Len(s.wait) + 1
    BY <1>2, <1>4
  <2> QED
    BY <2>1, <2>2, <2>3, <2>4
<1> QED
  BY <1>5, <1>6 DEF Queued, t

(* A state that leaves the queued callers alone keeps the queue.           *)
LEMMA QueuedLeave ==
  ASSUME NEW C, NEW s \in SemaphoreOf(C),
         NEW D, NEW state \in [C -> D], NEW w \in D, w # "granted",
         Queued(s, state, w)
  PROVE  Queued(Leave(s), Grant(state, Woken(s)), w)
<1>1. CASE ~HandsOver(s)
  <2>1. Leave(s).wait = s.wait /\ Woken(s) = {}
    BY <1>1, LeaveProperties
  <2>2. \A i \in 1..Len(s.wait) : s.wait[i] \in C
    BY DEF SemaphoreOf
  <2> QED
    BY <2>1, <2>2 DEF Queued, Grant
<1>2. CASE HandsOver(s)
  <2> DEFINE t == Tail(s.wait)
  <2>1. Leave(s).wait = t /\ Woken(s) = {s.wait[1]}
    BY <1>2, LeaveProperties
  <2>2. s.wait \in Seq(C) /\ s.wait # <<>>
    BY <1>2 DEF SemaphoreOf, HandsOver
  <2>3. /\ Len(t) = Len(s.wait) - 1 /\ Len(s.wait) \in Nat \ {0}
        /\ \A i \in 1..Len(t) : t[i] = s.wait[i + 1] /\ t[i] \in C
    BY <2>2, HeadTailProperties
  <2> HIDE DEF t
  <2>4. \A i \in 1..Len(t) : t[i] # s.wait[1]
    BY <2>3 DEF Queued
  <2>5. \A i \in 1..Len(t) : Grant(state, Woken(s))[t[i]] = w
    BY <2>1, <2>3, <2>4 DEF Grant, Queued
  <2>6. \A i, j \in 1..Len(t) : t[i] = t[j] => i = j
    BY <2>3 DEF Queued
  <2> QED
    BY <2>1, <2>5, <2>6 DEF Queued
<1> QED
  BY <1>1, <1>2

(* A caller that waits is still queued when another one is.                *)
LEMMA AllQueuedTake ==
  ASSUME NEW C, NEW s \in SemaphoreOf(C), NEW x \in C,
         NEW D, NEW state \in [C -> D], NEW w \in D,
         AllQueued(s, state, w), ~Available(s)
  PROVE  AllQueued(Take(s, x), [state EXCEPT ![x] = w], w)
<1> DEFINE t == Take(s, x)
<1>1. s.wait \in Seq(C) /\ t.wait = Append(s.wait, x)
  <2>1. s.wait \in Seq(C)
    BY DEF SemaphoreOf
  <2>2. t.wait = Append(s.wait, x)
    BY TakeProperties
  <2> QED
    BY <2>1, <2>2
<1>2. /\ Len(t.wait) = Len(s.wait) + 1 /\ Len(s.wait) \in Nat
      /\ \A i \in 1..Len(s.wait) : t.wait[i] = s.wait[i]
      /\ t.wait[Len(s.wait) + 1] = x
  BY <1>1, AppendProperties
<1> HIDE DEF t
<1>3. ASSUME NEW c \in C, [state EXCEPT ![x] = w][c] = w
      PROVE  \E i \in 1..Len(t.wait) : t.wait[i] = c
  <2>1. CASE c = x
    BY <1>2, <2>1
  <2>2. CASE c # x
    <3>1. state[c] = w
      BY <1>3, <2>2
    <3>2. PICK i \in 1..Len(s.wait) : s.wait[i] = c
      BY <3>1 DEF AllQueued
    <3> QED
      BY <1>2, <3>2
  <2> QED
    BY <2>1, <2>2
<1> QED
  BY <1>3 DEF AllQueued, t

(* A caller that waits is still queued unless the slot is handed to it.    *)
LEMMA AllQueuedLeave ==
  ASSUME NEW C, NEW s \in SemaphoreOf(C),
         NEW D, NEW state \in [C -> D], NEW w \in D, w # "granted",
         AllQueued(s, state, w)
  PROVE  AllQueued(Leave(s), Grant(state, Woken(s)), w)
<1>1. CASE ~HandsOver(s)
  <2>1. Leave(s).wait = s.wait /\ Woken(s) = {}
    BY <1>1, LeaveProperties
  <2> QED
    BY <2>1 DEF AllQueued, Grant
<1>2. CASE HandsOver(s)
  <2> DEFINE t == Tail(s.wait)
  <2>1. Leave(s).wait = t /\ Woken(s) = {s.wait[1]}
    BY <1>2, LeaveProperties
  <2>2. s.wait \in Seq(C) /\ s.wait # <<>>
    BY <1>2 DEF SemaphoreOf, HandsOver
  <2>3. /\ Len(t) = Len(s.wait) - 1 /\ Len(s.wait) \in Nat \ {0}
        /\ \A i \in 1..Len(t) : t[i] = s.wait[i + 1]
    BY <2>2, HeadTailProperties
  <2> HIDE DEF t
  <2>4. ASSUME NEW c \in C, Grant(state, Woken(s))[c] = w
        PROVE  \E i \in 1..Len(t) : t[i] = c
    <3>1. c # s.wait[1] /\ state[c] = w
      BY <2>1, <2>4 DEF Grant
    <3>2. PICK i \in 1..Len(s.wait) : s.wait[i] = c
      BY <3>1 DEF AllQueued
    <3>3. i # 1 /\ i - 1 \in 1..Len(t) /\ t[i - 1] = s.wait[i]
      BY <2>3, <3>1, <3>2
    <3> QED
      BY <3>2, <3>3
  <2>5. DOMAIN Grant(state, Woken(s)) = C
    BY DEF Grant
  <2> QED
    BY <2>1, <2>4, <2>5 DEF AllQueued
<1> QED
  BY <1>1, <1>2

(* The queue does not see a caller change between states of not waiting.   *)
LEMMA OthersStayQueued ==
  ASSUME NEW C, NEW s \in SemaphoreOf(C), NEW t, t.wait = s.wait,
         NEW D, NEW state \in [C -> D], NEW x \in C, NEW d \in D, NEW w,
         state[x] # w, d # w, Queued(s, state, w), AllQueued(s, state, w)
  PROVE  /\ Queued(t, [state EXCEPT ![x] = d], w)
         /\ AllQueued(t, [state EXCEPT ![x] = d], w)
<1>1. \A i \in 1..Len(s.wait) : s.wait[i] \in C /\ s.wait[i] # x
  BY DEF SemaphoreOf, Queued
<1> QED
  BY <1>1 DEF Queued, AllQueued

(***************************************************************************)
(* A semaphore whose slots are never idle.                                 *)
(***************************************************************************)

(* take() by one who does not wait keeps it sound: the slot is taken when  *)
(* one is free, the caller is queued when none is.                         *)
LEMMA SoundTake ==
  ASSUME NEW C, NEW D, NEW n \in Nat \ {0}, NEW s, NEW state \in [C -> D],
         NEW x \in C, Sound(s, state, C, n), state[x] # "blocked",
         "blocked" \in D, "granted" \in D
  PROVE  /\ Available(s) =>
              Sound(Take(s, x), [state EXCEPT ![x] = "granted"], C, n)
         /\ ~Available(s) =>
              Sound(Take(s, x), [state EXCEPT ![x] = "blocked"], C, n)
<1> DEFINE t == Take(s, x)
<1>1. /\ s \in SemaphoreOf(C) /\ s.cap = n /\ s.cur \in 0..n
      /\ Queued(s, state, "blocked") /\ AllQueued(s, state, "blocked")
      /\ s.wait # <<>> => s.cur = n
  BY DEF Sound
<1>2. CASE Available(s)
  <2>1. /\ t \in SemaphoreOf(C) /\ t.cap = n
        /\ t.cur = s.cur + 1 /\ t.wait = s.wait
    BY <1>1, <1>2, TakeProperties
  <2> HIDE DEF t
  <2>2. "granted" # "blocked"
    OBVIOUS
  <2>3. /\ Queued(t, [state EXCEPT ![x] = "granted"], "blocked")
        /\ AllQueued(t, [state EXCEPT ![x] = "granted"], "blocked")
    BY <1>1, <2>1, <2>2, OthersStayQueued
  <2>4. t.cur \in 0..n /\ t.wait = <<>>
    BY <1>1, <1>2, <2>1 DEF Available
  <2>5. Sound(t, [state EXCEPT ![x] = "granted"], C, n)
    BY <2>1, <2>3, <2>4 DEF Sound
  <2> QED
    BY <1>2, <2>1, <2>5 DEF t
<1>3. CASE ~Available(s)
  <2>1. t \in SemaphoreOf(C) /\ t.cap = n /\ t.cur = s.cur
    BY <1>1, <1>3, TakeProperties
  <2>2. Queued(t, [state EXCEPT ![x] = "blocked"], "blocked")
    BY <1>1, <1>3, QueuedTake
  <2>3. AllQueued(t, [state EXCEPT ![x] = "blocked"], "blocked")
    BY <1>1, <1>3, AllQueuedTake
  <2>4. t.cur = n
    BY <1>1, <1>3, <2>1 DEF Available
  <2> HIDE DEF t
  <2>5. Sound(t, [state EXCEPT ![x] = "blocked"], C, n)
    BY <2>1, <2>2, <2>3, <2>4 DEF Sound
  <2> QED
    BY <1>3, <2>1, <2>5 DEF t
<1> QED
  BY <1>2, <1>3

(* leave() of a taken slot keeps it sound: the first who waits gets the    *)
(* slot, or no one waits and the slot is free again.                       *)
LEMMA SoundLeave ==
  ASSUME NEW C, NEW D, NEW n \in Nat \ {0}, NEW s, NEW state \in [C -> D],
         Sound(s, state, C, n), "blocked" \in D,
         s.wait # <<>> \/ s.cur >= 1
  PROVE  Sound(Leave(s), Grant(state, Woken(s)), C, n)
<1> DEFINE t == Leave(s)
           st == Grant(state, Woken(s))
<1>1. /\ s \in SemaphoreOf(C) /\ s.cap = n /\ s.cur \in 0..n
      /\ Queued(s, state, "blocked") /\ AllQueued(s, state, "blocked")
      /\ s.wait # <<>> => s.cur = n
  BY DEF Sound
<1>2. Queued(t, st, "blocked")
  <2>1. "blocked" # "granted"
    OBVIOUS
  <2> QED
    BY <1>1, <2>1, QueuedLeave
<1>3. AllQueued(t, st, "blocked")
  <2>1. "blocked" # "granted"
    OBVIOUS
  <2> QED
    BY <1>1, <2>1, AllQueuedLeave
<1>4. HandsOver(s) <=> s.wait # <<>>
  BY <1>1 DEF HandsOver
<1>5. CASE s.wait # <<>>
  <2>1. /\ t \in SemaphoreOf(C) /\ t.cap = n /\ t.cur = s.cur
    BY <1>1, <1>4, <1>5, LeaveProperties
  <2> HIDE DEF t, st
  <2>2. Sound(t, st, C, n)
    BY <1>1, <1>2, <1>3, <1>5, <2>1 DEF Sound
  <2> QED
    BY <2>2 DEF t, st
<1>6. CASE s.wait = <<>>
  <2>1. /\ t \in SemaphoreOf(C) /\ t.cap = n /\ t.cur = s.cur - 1
        /\ t.wait = s.wait
    BY <1>1, <1>4, <1>6, LeaveProperties
  <2> HIDE DEF t, st
  <2>2. Sound(t, st, C, n)
    BY <1>1, <1>2, <1>3, <1>6, <2>1 DEF Sound
  <2> QED
    BY <2>2 DEF t, st
<1> QED
  BY <1>5, <1>6

(* A caller that does not wait and changes to not waiting keeps it sound.  *)
LEMMA SoundOther ==
  ASSUME NEW C, NEW D, NEW n, NEW s, NEW state \in [C -> D],
         NEW x \in C, NEW d \in D, Sound(s, state, C, n),
         state[x] # "blocked", d # "blocked"
  PROVE  Sound(s, [state EXCEPT ![x] = d], C, n)
<1>1. s \in SemaphoreOf(C)
  BY DEF Sound
<1>2. Queued(s, state, "blocked") /\ AllQueued(s, state, "blocked")
  BY DEF Sound
<1>3. /\ Queued(s, [state EXCEPT ![x] = d], "blocked")
      /\ AllQueued(s, [state EXCEPT ![x] = d], "blocked")
  BY <1>1, <1>2, OthersStayQueued
<1> QED
  BY <1>3 DEF Sound

(***************************************************************************)
(* Callers and their number.                                               *)
(***************************************************************************)

(* When one caller x changes state, the number of callers in some group of *)
(* states, S before and T after, changes by at most one.                   *)
LEMMA CardinalityStep ==
  ASSUME NEW C, IsFiniteSet(C), NEW S \in SUBSET C, NEW T \in SUBSET C,
         NEW x \in C, \A c \in C : c # x => (c \in S <=> c \in T)
  PROVE  /\ IsFiniteSet(S) /\ Cardinality(S) \in Nat
         /\ x \in T /\ x \notin S => Cardinality(T) = Cardinality(S) + 1
         /\ x \notin T /\ x \in S => Cardinality(T) = Cardinality(S) - 1
         /\ (x \in T <=> x \in S) => T = S
<1>1. IsFiniteSet(S) /\ Cardinality(S) \in Nat
  BY FS_Subset, FS_CardinalityType
<1>2. ASSUME x \in T, x \notin S PROVE Cardinality(T) = Cardinality(S) + 1
  <2>1. T = S \cup {x}
    BY <1>2
  <2> QED
    BY <1>1, <1>2, <2>1, FS_AddElement
<1>3. ASSUME x \notin T, x \in S PROVE Cardinality(T) = Cardinality(S) - 1
  <2>1. T = S \ {x}
    BY <1>3
  <2>2. Cardinality(S \ {x}) = Cardinality(S) - 1
    BY <1>1, <1>3, FS_RemoveElement
  <2> QED
    BY <2>1, <2>2
<1>4. ASSUME x \in T <=> x \in S PROVE T = S
  BY <1>4
<1> QED
  BY <1>1, <1>2, <1>3, <1>4

(* What leave() does to the states of the callers.                         *)
LEMMA GrantIsExcept ==
  ASSUME NEW C, NEW D, NEW state \in [C -> D]
  PROVE  /\ Grant(state, {}) = state
         /\ \A y \in C : Grant(state, {y}) = [state EXCEPT ![y] = "granted"]
  BY DEF Grant

(***************************************************************************)
(* Induction over the naturals, and the items of a sequence of batches.    *)
(***************************************************************************)

(* Induction over the naturals, for the set of those a fact holds of: the  *)
(* order of the naturals is well founded, so that a set of them has a      *)
(* least element.                                                          *)
LEMMA LeastNatural ==
  ASSUME NEW S, S \subseteq Nat, S # {}
  PROVE  \E m \in S : \A n \in S : m <= n
<1> DEFINE R == OpToRel(<, Nat)
<1>1. IsWellFoundedOn(R, Nat)
  BY NatLessThanWellFounded
<1>2. \A x, y \in Nat : x < y => <<x, y>> \in R
  BY DEF OpToRel
<1> HIDE DEF R
<1>3. PICK m \in S : \A n \in S : ~ (<<n, m>> \in R)
  BY <1>1, WFMin
<1>4. \A n \in S : m <= n
  <2> TAKE n \in S
  <2>1. m \in Nat /\ n \in Nat /\ ~ (n < m)
    BY <1>2, <1>3
  <2> QED
    BY <2>1
<1> QED
  BY <1>4

LEMMA Induction ==
  ASSUME NEW S, 0 \in S, \A n \in Nat : n \in S => n + 1 \in S
  PROVE  Nat \subseteq S
<1> SUFFICES ASSUME Nat \ S # {}
             PROVE  FALSE
  OBVIOUS
<1>1. PICK m \in Nat \ S : \A n \in Nat \ S : m <= n
  BY LeastNatural
<1>2. m # 0
  OBVIOUS
<1>3. m - 1 \in Nat /\ m - 1 \in S
  BY <1>1, <1>2
<1> QED
  BY <1>1, <1>3

(* The members of a finite set of numbers can be put in order.             *)
InAscent(S, m, s) ==
  /\ \A a, b \in 1..m : a < b => s[a] < s[b]
  /\ \A a, b \in 1..m : s[a] = s[b] => a = b
  /\ \A x \in S : \E a \in 1..m : s[a] = x
LEMMA AscendingExists ==
  ASSUME NEW n \in Nat, NEW S \in SUBSET (1..n)
  PROVE  \E m \in Nat : \E s \in [1..m -> S] : InAscent(S, m, s)
<1> DEFINE Orders(T, m, s) == /\ \A a, b \in 1..m : a < b => s[a] < s[b]
                              /\ \A x \in T : \E a \in 1..m : s[a] = x
           HasOrder(T) == \E m \in Nat : \E s \in [1..m -> T] : Orders(T, m, s)
           Good == {k \in Nat : \A T \in SUBSET (1..k) : HasOrder(T)}
<1>1. 0 \in Good
  <2>1. SUFFICES ASSUME NEW T \in SUBSET (1..0)
                 PROVE  HasOrder(T)
    OBVIOUS
  <2>2. T = {}
    BY <2>1
  <2> DEFINE s == [a \in 1..0 |-> a]
  <2>3. s \in [1..0 -> T] /\ Orders(T, 0, s)
    BY <2>2
  <2> QED
    BY <2>3
<1>2. \A k \in Nat : k \in Good => k + 1 \in Good
  <2> HIDE DEF HasOrder
  <2>1. SUFFICES ASSUME NEW k \in Nat, \A U \in SUBSET (1..k) : HasOrder(U),
                        NEW T \in SUBSET (1..(k + 1))
                 PROVE  HasOrder(T)
    OBVIOUS
  <2>2. CASE k + 1 \notin T
    <3>1. T \in SUBSET (1..k)
      BY <2>2
    <3> QED
      BY <2>1, <3>1
  <2>3. CASE k + 1 \in T
    <3> DEFINE U == T \ {k + 1}
    <3>1. U \in SUBSET (1..k)
      OBVIOUS
    <3>2. HasOrder(U)
      BY <2>1, <3>1
    <3> HIDE DEF U
    <3>3. PICK m \in Nat : \E s \in [1..m -> U] : Orders(U, m, s)
      BY <3>2 DEF HasOrder
    <3>4. PICK s \in [1..m -> U] : Orders(U, m, s)
      BY <3>3
    <3>5. \A a \in 1..m : s[a] \in T /\ s[a] \in 1..k
      BY <3>1, <3>4 DEF U
    <3> DEFINE t == [a \in 1..(m + 1) |-> IF a = m + 1 THEN k + 1 ELSE s[a]]
    <3>6. t \in [1..(m + 1) -> T]
      BY <2>3, <3>3, <3>5
    <3>7. /\ m + 1 \in Nat /\ m + 1 \in 1..(m + 1)
          /\ \A a \in 1..m : a \in 1..(m + 1) /\ a # m + 1
          /\ \A a \in 1..(m + 1) : a \in 1..m \/ a = m + 1
      BY <3>3
    <3>8. /\ t[m + 1] = k + 1
          /\ \A a \in 1..m : t[a] = s[a] /\ t[a] \in 1..k
      BY <3>7, <3>5
    <3> HIDE DEF t
    <3>9. \A a, b \in 1..(m + 1) : a < b => t[a] < t[b]
      <4>1. SUFFICES ASSUME NEW a \in 1..(m + 1), NEW b \in 1..(m + 1), a < b
                     PROVE  t[a] < t[b]
        OBVIOUS
      <4>2. a \in 1..m
        BY <3>3, <4>1
      <4>3. CASE b \in 1..m
        BY <3>4, <3>8, <4>1, <4>2, <4>3
      <4>4. CASE b = m + 1
        BY <3>8, <4>2, <4>4
      <4> QED
        BY <3>7, <4>3, <4>4
    <3>10. \A x \in T : \E a \in 1..(m + 1) : t[a] = x
      <4>1. SUFFICES ASSUME NEW x \in T
                     PROVE  \E a \in 1..(m + 1) : t[a] = x
        OBVIOUS
      <4>2. CASE x = k + 1
        BY <4>2, <3>7, <3>8
      <4>3. CASE x # k + 1
        <5>1. PICK a \in 1..m : s[a] = x
          BY <3>4, <4>3 DEF U
        <5> QED
          BY <3>7, <3>8, <5>1
      <4> QED
        BY <4>2, <4>3
    <3> QED
      BY <3>6, <3>7, <3>9, <3>10 DEF HasOrder
  <2> QED
    BY <2>2, <2>3
<1>3. HasOrder(S)
  <2>1. Nat \subseteq Good
    <3> HIDE DEF Good
    <3> QED
      BY <1>1, <1>2, Induction
  <2> HIDE DEF HasOrder
  <2> QED
    BY <2>1
<1>4. PICK m \in Nat : \E s \in [1..m -> S] : Orders(S, m, s)
  BY <1>3
<1>5. PICK s \in [1..m -> S] : Orders(S, m, s)
  BY <1>4
<1>6. \A a \in 1..m : s[a] \in 1..n
  BY <1>5
<1>7. \A a, b \in 1..m : s[a] = s[b] => a = b
  <2>1. SUFFICES ASSUME NEW a \in 1..m, NEW b \in 1..m, s[a] = s[b], a # b
                 PROVE  FALSE
    OBVIOUS
  <2>2. a < b \/ b < a
    BY <1>4, <2>1
  <2> QED
    BY <1>5, <1>6, <2>1, <2>2
<1> QED
  BY <1>4, <1>5, <1>7 DEF InAscent

(* What the recursion of FlattenSeq says of its function; the SMT solver can  *)
(* follow it when the concatenation has a name.                            *)
Cat(a, b) == a \o b

IsFlat(f, batches, n) ==
  /\ f[0] = <<>>
  /\ \A i \in 1..n : f[i] = Cat(f[i - 1], batches[i])

LEMMA FlatExists ==
  ASSUME NEW batches, NEW n \in Nat
  PROVE  \E f : IsFlat(f, batches, n)
<1> DEFINE S == {k \in Nat : \E f : IsFlat(f, batches, k)}
<1>1. 0 \in S
  <2> DEFINE g == [i \in {0} |-> <<>>]
  <2>1. g[0] = <<>>
    OBVIOUS
  <2> HIDE DEF g
  <2>2. IsFlat(g, batches, 0)
    BY <2>1 DEF IsFlat
  <2> QED
    BY <2>2
<1>2. ASSUME NEW k \in Nat, k \in S
      PROVE  k + 1 \in S
  <2>1. PICK f : IsFlat(f, batches, k)
    BY <1>2
  <2> DEFINE g == [i \in 0..(k + 1) |->
                     IF i = k + 1 THEN Cat(f[k], batches[k + 1]) ELSE f[i]]
  <2>2. /\ f[0] = <<>>
        /\ \A i \in 1..k : f[i] = Cat(f[i - 1], batches[i])
    BY <2>1 DEF IsFlat
  <2>3. g[0] = <<>>
    BY <2>2
  <2>4. \A i \in 1..(k + 1) : g[i] = Cat(g[i - 1], batches[i])
    BY <2>2
  <2> HIDE DEF g
  <2>5. IsFlat(g, batches, k + 1)
    BY <2>3, <2>4 DEF IsFlat
  <2> QED
    BY <2>5
<1> HIDE DEF S
<1>3. n \in S
  BY <1>1, <1>2, Induction
<1> QED
  BY <1>3 DEF S

(* FlattenSeq is what its recursion says.                                  *)
LEMMA FlattenIsFlat ==
  ASSUME NEW T, NEW batches \in Seq(Seq(T))
  PROVE  \E f : /\ IsFlat(f, batches, Len(batches))
                /\ FlattenSeq(batches) = f[Len(batches)]
<1> DEFINE n == Len(batches)
<1>1. n \in Nat /\ \A i \in 1..n : batches[i] \in Seq(T)
  OBVIOUS
<1>2. CASE batches = <<>>
  <2>1. n = 0 /\ FlattenSeq(batches) = <<>>
    BY <1>2 DEF FlattenSeq
  <2> HIDE DEF n
  <2>2. PICK f : IsFlat(f, batches, n)
    BY <1>1, FlatExists
  <2>3. FlattenSeq(batches) = f[n]
    BY <2>1, <2>2 DEF IsFlat
  <2> QED
    BY <2>2, <2>3 DEF n
<1>3. CASE batches # <<>>
  <2> DEFINE Def(f) == f = [i \in 1..n |->
               IF i = 1 THEN batches[i] ELSE Cat(f[i - 1], batches[i])]
             f == CHOOSE g : Def(g)
             f0 == [i \in 0..n |-> IF i = 0 THEN <<>> ELSE f[i]]
  <2>1. n \in Nat \ {0}
    BY <1>3
  <2>2. FlattenSeq(batches) = f[n]
    BY <2>1 DEF FlattenSeq, Cat
  <2> HIDE DEF n
  <2>3. PICK h : IsFlat(h, batches, n)
    BY <1>1, FlatExists
  <2> DEFINE g == [i \in 1..n |-> h[i]]
  <2>4. \A i \in 1..n : g[i] = h[i]
    OBVIOUS
  <2>5. \A i \in 1..n : g[i] = IF i = 1 THEN batches[i] ELSE Cat(g[i - 1], batches[i])
    <3> HIDE DEF g
    <3>1. \A i \in 1..n : i # 1 => i - 1 \in 1..n
      BY <1>1
    <3>2. \A i \in 1..n : i # 1 => g[i] = Cat(g[i - 1], batches[i])
      BY <2>3, <2>4, <3>1 DEF IsFlat
    <3>3. Cat(<<>>, batches[1]) = batches[1]
      BY <1>1, <2>1, ConcatEmptySeq DEF Cat
    <3>4. h[1] = Cat(h[0], batches[1]) /\ h[0] = <<>>
      BY <2>1, <2>3 DEF IsFlat
    <3>5. g[1] = batches[1]
      BY <2>1, <2>4, <3>3, <3>4
    <3> QED
      BY <3>2, <3>5
  <2>6. g = [i \in 1..n |-> g[i]]
    OBVIOUS
  <2>7. Def(g)
    <3> HIDE DEF g
    <3> QED
      BY <2>5, <2>6
  <2>8. Def(f)
    <3> HIDE DEF g, Def
    <3> QED
      BY <2>7
  <2> HIDE DEF f
  <2>9. \A i \in 1..n : f[i] = IF i = 1 THEN batches[i] ELSE Cat(f[i - 1], batches[i])
    BY <2>8
  <2>10. Cat(<<>>, batches[1]) = batches[1]
    BY <1>1, <2>1, ConcatEmptySeq DEF Cat
  <2>11. f0[0] = <<>> /\ \A i \in 1..n : f0[i] = f[i]
    BY <2>1
  <2> HIDE DEF Def, f0
  <2>12. \A i \in 1..n : f0[i] = Cat(f0[i - 1], batches[i])
    <3> TAKE i \in 1..n
    <3>1. CASE i = 1
      BY <2>1, <2>9, <2>10, <2>11, <3>1
    <3>2. CASE i # 1
      <4>1. i - 1 \in 1..n
        BY <2>1, <3>2
      <4> QED
        BY <2>9, <2>11, <3>2, <4>1
    <3> QED
      BY <3>1, <3>2
  <2>13. IsFlat(f0, batches, n) /\ f0[n] = f[n]
    BY <2>1, <2>11, <2>12 DEF IsFlat
  <2> QED
    BY <2>2, <2>13 DEF n
<1> QED
  BY <1>2, <1>3

(* Two such functions agree as far as their batches do.                    *)
LEMMA FlatAgree ==
  ASSUME NEW n \in Nat, NEW m \in Nat, n <= m,
         NEW f, NEW g, NEW b, NEW c, IsFlat(f, b, n), IsFlat(g, c, m),
         \A i \in 1..n : b[i] = c[i]
  PROVE  \A i \in 0..n : f[i] = g[i]
<1> DEFINE S == {k \in Nat : k <= n => f[k] = g[k]}
<1>1. /\ f[0] = <<>> /\ \A i \in 1..n : f[i] = Cat(f[i - 1], b[i])
      /\ g[0] = <<>> /\ \A i \in 1..m : g[i] = Cat(g[i - 1], c[i])
  BY DEF IsFlat
<1>2. 0 \in S
  BY <1>1
<1>3. ASSUME NEW k \in Nat, k \in S
      PROVE  k + 1 \in S
  <2>1. CASE k + 1 <= n
    <3>1. f[k] = g[k] /\ b[k + 1] = c[k + 1]
      BY <1>3, <2>1
    <3>2. f[k + 1] = Cat(f[k], b[k + 1])
      BY <1>1, <2>1
    <3>3. g[k + 1] = Cat(g[k], c[k + 1])
      BY <1>1, <2>1
    <3> QED
      BY <3>1, <3>2, <3>3
  <2>2. CASE ~ (k + 1 <= n)
    BY <2>2
  <2> QED
    BY <2>1, <2>2
<1> HIDE DEF S
<1>4. Nat \subseteq S
  BY <1>2, <1>3, Induction
<1> QED
  BY <1>4 DEF S

LEMMA FlatType ==
  ASSUME NEW T, NEW f, NEW n \in Nat, NEW b, \A i \in 1..n : b[i] \in Seq(T),
         IsFlat(f, b, n)
  PROVE  \A i \in 0..n : f[i] \in Seq(T)
<1> DEFINE S == {k \in Nat : k <= n => f[k] \in Seq(T)}
<1>1. f[0] = <<>> /\ \A i \in 1..n : f[i] = Cat(f[i - 1], b[i])
  BY DEF IsFlat
<1>2. 0 \in S
  BY <1>1, EmptySeq
<1>3. ASSUME NEW k \in Nat, k \in S
      PROVE  k + 1 \in S
  <2>1. CASE k + 1 <= n
    <3>1. f[k] \in Seq(T) /\ b[k + 1] \in Seq(T)
      BY <1>3, <2>1
    <3>2. f[k + 1] = Cat(f[k], b[k + 1])
      BY <1>1, <2>1
    <3>3. f[k + 1] \in Seq(T)
      BY <3>1, <3>2, ConcatProperties DEF Cat
    <3> QED
      BY <3>3
  <2>2. CASE ~ (k + 1 <= n)
    BY <2>2
  <2> QED
    BY <2>1, <2>2
<1> HIDE DEF S
<1>4. Nat \subseteq S
  BY <1>2, <1>3, Induction
<1> QED
  BY <1>4 DEF S

(* What FlattenSeq returns, of no batch and of one more at the end.           *)
LEMMA FlattenType ==
  ASSUME NEW T, NEW batches \in Seq(Seq(T))
  PROVE  FlattenSeq(batches) \in Seq(T)
<1>1. PICK f : IsFlat(f, batches, Len(batches)) /\ FlattenSeq(batches) = f[Len(batches)]
  BY FlattenIsFlat
<1>2. Len(batches) \in Nat /\ \A i \in 1..Len(batches) : batches[i] \in Seq(T)
  OBVIOUS
<1>3. \A i \in 0..Len(batches) : f[i] \in Seq(T)
  BY <1>1, <1>2, FlatType
<1> QED
  BY <1>1, <1>2, <1>3

LEMMA FlattenEmpty == FlattenSeq(<<>>) = <<>>
  BY DEF FlattenSeq

LEMMA FlattenAppend ==
  ASSUME NEW T, NEW batches \in Seq(Seq(T)), NEW items \in Seq(T)
  PROVE  FlattenSeq(Append(batches, items)) = FlattenSeq(batches) \o items
<1> DEFINE more == Append(batches, items)
           n == Len(batches)
<1>1. /\ n \in Nat /\ more \in Seq(Seq(T)) /\ Len(more) = n + 1
      /\ \A i \in 1..n : batches[i] = more[i]
      /\ more[n + 1] = items
  BY AppendProperties
<1> HIDE DEF more, n
<1>2. PICK f : IsFlat(f, batches, n) /\ FlattenSeq(batches) = f[n]
  BY FlattenIsFlat DEF n
<1>3. PICK g : IsFlat(g, more, n + 1) /\ FlattenSeq(more) = g[n + 1]
  BY <1>1, FlattenIsFlat
<1>4. \A i \in 0..n : f[i] = g[i]
  <2> DEFINE m == n + 1
  <2>1. n \in Nat /\ m \in Nat /\ n <= m
    BY <1>1
  <2>2. \A i \in 1..n : batches[i] = more[i]
    BY <1>1
  <2>3. IsFlat(f, batches, n) /\ IsFlat(g, more, m)
    BY <1>2, <1>3
  <2> HIDE DEF m
  <2> QED
    BY <2>1, <2>2, <2>3, FlatAgree
<1>5. g[n + 1] = Cat(g[n], more[n + 1])
  <2>1. n + 1 \in 1..(n + 1) /\ (n + 1) - 1 = n /\ n + 1 \in Nat
    BY <1>1
  <2> QED
    BY <1>3, <2>1 DEF IsFlat
<1>6. n \in 0..n
  BY <1>1
<1>7. FlattenSeq(more) = Cat(FlattenSeq(batches), items)
  BY <1>1, <1>2, <1>3, <1>4, <1>5, <1>6
<1> QED
  BY <1>7 DEF more, Cat

(* The items of the first batch come first.                                *)
LEMMA FlattenTail ==
  ASSUME NEW T, NEW batches \in Seq(Seq(T)), batches # <<>>
  PROVE  FlattenSeq(batches) = Head(batches) \o FlattenSeq(Tail(batches))
<1> DEFINE rest == Tail(batches)
           n == Len(rest)
           first == Head(batches)
<1>1. /\ n \in Nat /\ rest \in Seq(Seq(T)) /\ Len(batches) = n + 1
      /\ first = batches[1] /\ first \in Seq(T)
      /\ \A i \in 1..n : rest[i] = batches[i + 1] /\ rest[i] \in Seq(T)
  BY HeadTailProperties
<1> HIDE DEF rest, n, first
<1>2. PICK f : IsFlat(f, batches, n + 1) /\ FlattenSeq(batches) = f[n + 1]
  BY <1>1, FlattenIsFlat
<1>3. PICK g : IsFlat(g, rest, n) /\ FlattenSeq(rest) = g[n]
  BY <1>1, FlattenIsFlat DEF n
<1>4. /\ f[0] = <<>> /\ \A i \in 1..(n + 1) : f[i] = Cat(f[i - 1], batches[i])
      /\ g[0] = <<>> /\ \A i \in 1..n : g[i] = Cat(g[i - 1], rest[i])
  BY <1>2, <1>3 DEF IsFlat
<1>5. \A i \in 0..n : g[i] \in Seq(T)
  BY <1>1, <1>3, FlatType
<1> DEFINE S == {k \in Nat : k <= n => f[k + 1] = Cat(first, g[k])}
<1>6. 0 \in S
  <2>1. 0 + 1 \in 1..(n + 1) /\ (0 + 1) - 1 = 0
    BY <1>1
  <2>2. f[0 + 1] = Cat(<<>>, first)
    BY <1>1, <1>4, <2>1
  <2>3. Cat(<<>>, first) = first /\ Cat(first, <<>>) = first
    BY <1>1, ConcatEmptySeq DEF Cat
  <2> QED
    BY <1>4, <2>2, <2>3
<1>7. ASSUME NEW k \in Nat, k \in S
      PROVE  k + 1 \in S
  <2>1. CASE k + 1 <= n
    <3>1. f[k + 1] = Cat(first, g[k])
      BY <1>1, <1>7, <2>1
    <3>2. f[k + 1 + 1] = Cat(f[k + 1], batches[k + 1 + 1])
      BY <1>1, <1>4, <2>1
    <3>3. batches[k + 1 + 1] = rest[k + 1] /\ rest[k + 1] \in Seq(T)
      BY <1>1, <2>1
    <3>4. g[k + 1] = Cat(g[k], rest[k + 1])
      <4>1. k + 1 \in 1..n /\ (k + 1) - 1 = k
        BY <1>1, <2>1
      <4> QED
        BY <1>4, <4>1
    <3>5. g[k] \in Seq(T)
      BY <1>1, <1>5, <2>1
    <3>6. Cat(Cat(first, g[k]), rest[k + 1]) = Cat(first, Cat(g[k], rest[k + 1]))
      <4>1. /\ first \in Seq(T) /\ g[k] \in Seq(T)
            /\ rest[k + 1] \in Seq(T)
        BY <1>1, <3>3, <3>5
      <4>2. \A a, b, c \in Seq(T) : Cat(Cat(a, b), c) = Cat(a, Cat(b, c))
        BY ConcatAssociative DEF Cat
      <4> QED
        BY <4>1, <4>2
    <3>7. f[k + 1 + 1] = Cat(first, g[k + 1])
      BY <3>1, <3>2, <3>3, <3>4, <3>6
    <3> QED
      BY <3>7
  <2>2. CASE ~ (k + 1 <= n)
    BY <1>1, <2>2
  <2> QED
    BY <2>1, <2>2
<1> HIDE DEF S
<1>8. n \in S
  BY <1>1, <1>6, <1>7, Induction
<1>9. f[n + 1] = Cat(first, g[n])
  BY <1>1, <1>8 DEF S
<1> QED
  BY <1>2, <1>3, <1>9 DEF rest, first, Cat

(***************************************************************************)
(* How often members of S are in a sequence.                               *)
(***************************************************************************)

Occurs(seq, S) == Cardinality({i \in 1..Len(seq) : seq[i] \in S})

LEMMA OccursType ==
  ASSUME NEW T, NEW seq \in Seq(T), NEW S
  PROVE  /\ IsFiniteSet({i \in 1..Len(seq) : seq[i] \in S})
         /\ Occurs(seq, S) \in Nat
<1>1. Len(seq) \in Nat
  OBVIOUS
<1>2. IsFiniteSet(1..Len(seq))
  BY <1>1, FS_Interval
<1>3. IsFiniteSet({i \in 1..Len(seq) : seq[i] \in S})
  BY <1>2, FS_Subset
<1> QED
  BY <1>3, FS_CardinalityType DEF Occurs

LEMMA OccursEmpty ==
  ASSUME NEW S
  PROVE  Occurs(<<>>, S) = 0
<1>1. {i \in 1..Len(<<>>) : <<>>[i] \in S} = {}
  OBVIOUS
<1> QED
  BY <1>1, FS_EmptySet DEF Occurs

LEMMA OccursAppend ==
  ASSUME NEW T, NEW seq \in Seq(T), NEW x \in T, NEW S
  PROVE  Occurs(Append(seq, x), S) = Occurs(seq, S) + (IF x \in S THEN 1 ELSE 0)
<1> DEFINE n == Len(seq)
           A == {i \in 1..n : seq[i] \in S}
           B == {i \in 1..Len(Append(seq, x)) : Append(seq, x)[i] \in S}
<1>1. /\ Len(Append(seq, x)) = n + 1 /\ n \in Nat
      /\ \A i \in 1..n : Append(seq, x)[i] = seq[i]
      /\ Append(seq, x)[n + 1] = x
  BY AppendProperties
<1>2. IsFiniteSet(A) /\ Occurs(seq, S) = Cardinality(A) /\ Cardinality(A) \in Nat
  BY OccursType DEF Occurs
<1>3. Occurs(Append(seq, x), S) = Cardinality(B)
  BY DEF Occurs
<1>4. n + 1 \notin A /\ 1..(n + 1) = (1..n) \cup {n + 1}
  BY <1>1
<1>5. CASE x \in S
  <2>1. B = A \cup {n + 1}
    BY <1>1, <1>4, <1>5
  <2> HIDE DEF A, B, n
  <2>2. Cardinality(B) = Cardinality(A) + 1
    BY <1>2, <1>4, <2>1, FS_AddElement
  <2> QED
    BY <1>2, <1>3, <1>5, <2>2
<1>6. CASE x \notin S
  <2>1. B = A
    BY <1>1, <1>4, <1>6
  <2> HIDE DEF A, B, n
  <2> QED
    BY <1>2, <1>3, <1>6, <2>1
<1> QED
  BY <1>5, <1>6

LEMMA OccursTail ==
  ASSUME NEW T, NEW seq \in Seq(T), seq # <<>>, NEW S
  PROVE  Occurs(seq, S) = Occurs(Tail(seq), S) + (IF Head(seq) \in S THEN 1 ELSE 0)
<1> DEFINE n == Len(Tail(seq))
           A == {i \in 1..n : Tail(seq)[i] \in S}
           B == {i \in 1..Len(seq) : seq[i] \in S}
           C == {i \in B : i # 1}
<1>1. /\ Tail(seq) \in Seq(T) /\ Len(seq) = n + 1 /\ n \in Nat
      /\ \A i \in 1..n : Tail(seq)[i] = seq[i + 1]
      /\ Head(seq) = seq[1]
  OBVIOUS
<1>2. IsFiniteSet(A) /\ Occurs(Tail(seq), S) = Cardinality(A) /\ Cardinality(A) \in Nat
  BY <1>1, OccursType DEF Occurs
<1>3. IsFiniteSet(B) /\ Occurs(seq, S) = Cardinality(B)
  BY OccursType DEF Occurs
<1>4. \A i \in C : i - 1 \in A /\ i \in Int
  BY <1>1
<1>5. \A i \in A : i + 1 \in C /\ i \in Int
  BY <1>1
<1>6. [i \in A |-> i + 1] \in Bijection(A, C)
  <2> DEFINE f == [i \in A |-> i + 1]
  <2>1. \A i, j \in A : f[i] = f[j] => i = j
    BY <1>5
  <2>2. \A k \in C : \E i \in A : f[i] = k
    <3>1. ASSUME NEW k \in C PROVE f[k - 1] = k
      BY <1>4
    <3> QED
      BY <1>4, <3>1
  <2>3. f \in [A -> C]
    BY <1>5
  <2> HIDE DEF f, A, C
  <2>4. f \in Injection(A, C)
    BY <2>1, <2>3 DEF Injection, IsInjective
  <2>5. f \in Surjection(A, C)
    BY <2>2, <2>3 DEF Surjection
  <2>6. f \in Bijection(A, C)
    BY <2>4, <2>5 DEF Bijection
  <2> QED
    BY <2>6 DEF f
<1>7. Cardinality(C) = Cardinality(A) /\ IsFiniteSet(C)
  <2> HIDE DEF A, C
  <2>1. ExistsBijection(A, C)
    BY <1>6 DEF ExistsBijection
  <2> QED
    BY <1>2, <2>1, FS_Bijection
<1>8. CASE Head(seq) \in S
  <2>1. B = C \cup {1} /\ 1 \notin C
    BY <1>1, <1>8
  <2> HIDE DEF A, B, C, n
  <2>2. Cardinality(B) = Cardinality(C) + 1
    BY <1>7, <2>1, FS_AddElement
  <2> QED
    BY <1>2, <1>3, <1>7, <1>8, <2>2
<1>9. CASE Head(seq) \notin S
  <2>1. B = C
    BY <1>1, <1>9
  <2> HIDE DEF A, B, C, n
  <2> QED
    BY <1>2, <1>3, <1>7, <1>9, <2>1
<1> QED
  BY <1>8, <1>9
=============================================================================
