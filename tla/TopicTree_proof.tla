-------------------------- MODULE TopicTree_proof --------------------------
(***************************************************************************)
(* Proofs about TopicTree.                                                 *)
(***************************************************************************)
EXTENDS TopicTree, SequenceTheorems, FiniteSetTheorems, TLAPS

-----------------------------------------------------------------------------
(* Induction over numbers.  The induction theorems of the library take an  *)
(* operator, which no prover can instantiate; that every set of numbers    *)
(* has a least one says the same of sets.                                  *)

LEMMA LeastNumber ==
  ASSUME NEW T, T \subseteq Nat, T # {}
  PROVE  \E x \in T : \A y \in T : x <= y
<1> DEFINE R == OpToRel(<, Nat)
<1>1. IsWellFoundedOn(R, Nat)
  BY Zenon, NatLessThanWellFounded
<1>2. PICK x \in T : \A y \in T : ~ (<<y, x>> \in R)
  <2> HIDE DEF R
  <2> QED
    BY <1>1, WFMin
<1>3. \A y \in T : y \in Nat /\ x \in Nat /\ ~(y < x)
  BY <1>2 DEF OpToRel
<1> QED
  BY <1>3

-----------------------------------------------------------------------------
(* Sequences.                                                              *)

LEMMA FrontFacts ==
  ASSUME NEW S, NEW q \in Seq(S), q # <<>>
  PROVE  /\ Len(q) \in Nat /\ Len(q) >= 1
         /\ Last(q) \in S /\ Last(q) = q[Len(q)]
         /\ Front(q) \in Seq(S) /\ Len(Front(q)) = Len(q) - 1
         /\ \A i \in 1..(Len(q) - 1) : Front(q)[i] = q[i]
         /\ q = Append(Front(q), Last(q))
<1>2. Len(q) \in Nat /\ Len(q) >= 1
  BY EmptySeq, LenProperties
<1>3. Last(q) \in S /\ Last(q) = q[Len(q)]
  BY <1>2, ElementOfSeq DEF Last
<1>4. /\ Front(q) \in Seq(S) /\ Len(Front(q)) = Len(q) - 1
      /\ \A i \in 1..(Len(q) - 1) : Front(q)[i] = q[i]
  <2>1. \A i \in 1..(Len(q) - 1) : q[i] \in S
    BY <1>2, ElementOfSeq
  <2> DEFINE n == Len(q) - 1
             s == SubSeq(q, 1, n)
  <2>2. n \in Int /\ n >= 0
    BY <1>2
  <2> HIDE DEF n
  <2>3. /\ s \in Seq(S)
        /\ Len(s) = IF 1 <= n THEN n - 1 + 1 ELSE 0
        /\ \A i \in 1..(n - 1 + 1) : s[i] = q[1 + i - 1]
    <3>1. \A i \in 1..n : q[i] \in S
      BY <2>1 DEF n
    <3> QED
      BY <2>2, <3>1, SubSeqProperties, 1 \in Int
  <2> HIDE DEF s
  <2>4. s \in Seq(S) /\ Len(s) = n
    BY <2>2, <2>3
  <2>5. \A i \in 1..n : s[i] = q[i]
    BY <2>2, <2>3
  <2> QED
    BY <2>4, <2>5 DEF Front, s, n
<1>7. q = Append(Front(q), Last(q))
  <2>1. /\ Append(Front(q), Last(q)) \in Seq(S)
        /\ Len(Append(Front(q), Last(q))) = Len(q)
        /\ \A i \in 1..Len(Front(q)) : Append(Front(q), Last(q))[i] = Front(q)[i]
        /\ Append(Front(q), Last(q))[Len(q)] = Last(q)
    BY <1>2, <1>3, <1>4, AppendProperties
  <2>2. \A i \in 1..Len(q) : Append(Front(q), Last(q))[i] = q[i]
    BY <2>1, <1>2, <1>4 DEF Last
  <2> QED
    BY <2>1, <2>2, SeqEqual
<1> QED
  BY <1>2, <1>3, <1>4, <1>7

LEMMA FrontAppend ==
  ASSUME NEW S, NEW s \in Seq(S), NEW e \in S
  PROVE  Front(Append(s, e)) = s /\ Last(Append(s, e)) = e
<1> DEFINE q == Append(s, e)
<1>1. q \in Seq(S) /\ q # <<>> /\ Len(q) = Len(s) + 1 /\ q[Len(s) + 1] = e
  BY AppendProperties
<1>2. q = Append(Front(q), Last(q)) /\ Front(q) \in Seq(S) /\ Last(q) \in S
  <2> HIDE DEF q
  <2> QED
    BY <1>1, FrontFacts
<1> HIDE DEF q
<1>3. Append(s, e) = Append(Front(q), Last(q))
  BY <1>2 DEF q
<1>4. s = Front(q) /\ e = Last(q)
  BY <1>2, <1>3, AppendInjective
<1> QED
  BY <1>4 DEF q

\* What happens to a stack when its top is replaced, and when a frame is pushed.
LEMMA StackFacts ==
  ASSUME NEW S, NEW s \in Seq(S), s # <<>>, NEW t \in S, NEW f \in S
  PROVE  /\ LET r == Append(Front(s), t) IN
            /\ r \in Seq(S) /\ r # <<>> /\ Len(r) = Len(s)
            /\ \A i \in 1..Len(r) : r[i] = IF i = Len(s) THEN t ELSE s[i]
         /\ LET r == Append(Append(Front(s), t), f) IN
            /\ r \in Seq(S) /\ r # <<>> /\ Len(r) = Len(s) + 1
            /\ \A i \in 1..Len(r) : r[i] = IF i = Len(s) + 1 THEN f
                                           ELSE IF i = Len(s) THEN t ELSE s[i]
<1>1. /\ Len(s) \in Nat /\ Len(s) >= 1
      /\ Front(s) \in Seq(S) /\ Len(Front(s)) = Len(s) - 1
      /\ \A i \in 1..(Len(s) - 1) : Front(s)[i] = s[i]
  BY FrontFacts
<1> DEFINE r == Append(Front(s), t)
<1>2. /\ r \in Seq(S) /\ r # <<>> /\ Len(r) = Len(s)
      /\ \A i \in 1..(Len(s) - 1) : r[i] = Front(s)[i]
      /\ r[Len(s)] = t
  BY <1>1, AppendProperties
<1>3. \A i \in 1..Len(r) : r[i] = IF i = Len(s) THEN t ELSE s[i]
  BY <1>1, <1>2
<1> HIDE DEF r
<1>4. /\ Append(r, f) \in Seq(S) /\ Append(r, f) # <<>> /\ Len(Append(r, f)) = Len(s) + 1
      /\ \A i \in 1..Len(r) : Append(r, f)[i] = r[i]
      /\ Append(r, f)[Len(s) + 1] = f
  BY <1>2, AppendProperties
<1>5. \A i \in 1..Len(Append(r, f)) : Append(r, f)[i] = IF i = Len(s) + 1 THEN f
                                           ELSE IF i = Len(s) THEN t ELSE s[i]
  BY <1>1, <1>2, <1>3, <1>4
<1> QED
  BY <1>2, <1>3, <1>4, <1>5 DEF r

LEMMA FirstFrames ==
  ASSUME NEW S, NEW f \in S, NEW g \in S
  PROVE  /\ <<f>> \in Seq(S) /\ <<f>> # <<>> /\ Len(<<f>>) = 1 /\ <<f>>[1] = f
         /\ <<g, f>> \in Seq(S) /\ <<g, f>> # <<>> /\ Len(<<g, f>>) = 2
         /\ <<g, f>>[1] = g /\ <<g, f>>[2] = f
OBVIOUS

\* One name is moved from what lies ahead to what lies behind.
LEMMA MoveOn ==
  ASSUME NEW S, NEW a \in Seq(S), NEW w \in Seq(S), w # <<>>
  PROVE  /\ Head(w) \in S /\ Tail(w) \in Seq(S) /\ Append(a, Head(w)) \in Seq(S)
         /\ Append(a, Head(w)) \o Tail(w) = a \o w
<1> DEFINE b == Append(a, Head(w))
           t == Tail(w)
<1>1. /\ Head(w) \in S /\ t \in Seq(S) /\ Len(t) = Len(w) - 1
      /\ Head(w) = w[1] /\ \A i \in 1..Len(t) : t[i] = w[i+1]
  BY HeadTailProperties
<1>2. /\ b \in Seq(S) /\ Len(b) = Len(a) + 1 /\ b[Len(a) + 1] = Head(w)
      /\ \A i \in 1..Len(a) : b[i] = a[i]
  BY <1>1, AppendProperties
<1>3. Len(a) \in Nat /\ Len(w) \in Nat /\ Len(w) >= 1
  BY LenProperties, EmptySeq
<1> HIDE DEF b, t
<1>4. /\ b \o t \in Seq(S) /\ Len(b \o t) = Len(b) + Len(t)
      /\ \A i \in 1..(Len(b) + Len(t)) :
            (b \o t)[i] = IF i <= Len(b) THEN b[i] ELSE t[i - Len(b)]
  BY <1>1, <1>2, ConcatProperties
<1>5. /\ a \o w \in Seq(S) /\ Len(a \o w) = Len(a) + Len(w)
      /\ \A i \in 1..(Len(a) + Len(w)) :
            (a \o w)[i] = IF i <= Len(a) THEN a[i] ELSE w[i - Len(a)]
  BY ConcatProperties
<1>6. \A i \in 1..Len(b \o t) : (b \o t)[i] = (a \o w)[i]
  <2> SUFFICES ASSUME NEW i \in 1..Len(b \o t) PROVE (b \o t)[i] = (a \o w)[i]
    OBVIOUS
  <2>1. i \in 1..(Len(b) + Len(t)) /\ i \in 1..(Len(a) + Len(w))
    BY <1>1, <1>2, <1>3, <1>4
  <2>2. CASE i <= Len(a)
    <3>1. i \in 1..Len(a) /\ i <= Len(b)
      BY <2>1, <2>2, <1>2, <1>3
    <3> QED
      BY <3>1, <2>1, <2>2, <1>2, <1>4, <1>5
  <2>3. CASE i = Len(a) + 1
    <3>1. i <= Len(b) /\ ~(i <= Len(a)) /\ i - Len(a) = 1
      BY <2>3, <1>2, <1>3
    <3> QED
      BY <3>1, <2>1, <2>3, <1>1, <1>2, <1>4, <1>5
  <2>4. CASE i > Len(a) + 1
    <3>1. /\ ~(i <= Len(b)) /\ ~(i <= Len(a)) /\ i - Len(b) \in 1..Len(t)
          /\ i - Len(b) + 1 = i - Len(a)
      BY <2>1, <2>4, <1>1, <1>2, <1>3
    <3>2. t[i - Len(b)] = w[i - Len(a)]
      BY <3>1, <1>1
    <3> QED
      BY <3>1, <3>2, <2>1, <1>4, <1>5
  <2> QED
    BY <2>1, <2>2, <2>3, <2>4, <1>3
<1>7. Len(b \o t) = Len(a \o w)
  BY <1>1, <1>2, <1>3, <1>4, <1>5
<1>8. b \o t = a \o w
  BY <1>4, <1>5, <1>6, <1>7, SeqEqual
<1> QED
  BY <1>1, <1>2, <1>8 DEF b, t

\* The last name of what lies ahead is that of the whole.
LEMMA FrontConcat ==
  ASSUME NEW S, NEW a \in Seq(S), NEW b \in Seq(S), b # <<>>
  PROVE  Front(a \o b) = a \o Front(b) /\ a \o b # <<>>
<1> DEFINE g == Front(b)
           l == Last(b)
<1>1. b = Append(g, l) /\ g \in Seq(S) /\ l \in S
  BY FrontFacts
<1> HIDE DEF g, l
<1>2. Append(g, l) = g \o <<l>> /\ <<l>> \in Seq(S)
  BY <1>1, AppendIsConcat
<1>3. a \o g \in Seq(S)
  BY <1>1, ConcatProperties
<1>4. Append(a \o g, l) = (a \o g) \o <<l>>
  BY <1>1, <1>3, AppendIsConcat
<1>5. (a \o g) \o <<l>> = a \o (g \o <<l>>)
  BY <1>1, <1>2, ConcatAssociative
<1>6. a \o b = Append(a \o g, l)
  BY <1>1, <1>2, <1>4, <1>5
<1>7. Front(Append(a \o g, l)) = a \o g /\ Append(a \o g, l) # <<>>
  <2> DEFINE h == a \o g
  <2>1. h \in Seq(S)
    BY <1>3
  <2> HIDE DEF h
  <2>2. Front(Append(h, l)) = h
    BY <1>1, <2>1, FrontAppend
  <2>3. Append(h, l) # <<>>
    BY <1>1, <2>1, AppendProperties
  <2> QED
    BY <2>2, <2>3 DEF h
<1> QED
  BY <1>6, <1>7 DEF g

-----------------------------------------------------------------------------
(* Paths.                                                                  *)

\* A path is not empty and ends in a name; what is in front of that is a path.
LEMMA PathFacts ==
  ASSUME NEW q \in Path
  PROVE  /\ q \in Seq(Name) /\ q # <<>> /\ Len(q) \in Nat /\ Len(q) >= 1
         /\ Front(q) \in Seq(Name) /\ Len(Front(q)) = Len(q) - 1
         /\ Last(q) \in Name
         /\ Len(q) > 1 => Front(q) \in Path
         /\ Len(q) = 1 => Front(q) = <<>>
         /\ q = Append(Front(q), Last(q))
<1>1. q \in Seq(Name) /\ q # <<>>
  BY TreeAssumption
<1>2. /\ Len(q) \in Nat /\ Len(q) >= 1 /\ Last(q) \in Name
      /\ Front(q) \in Seq(Name) /\ Len(Front(q)) = Len(q) - 1
      /\ q = Append(Front(q), Last(q))
  BY <1>1, FrontFacts
<1>3. Len(q) > 1 => Front(q) \in Path
  BY TreeAssumption
<1>4. Len(q) = 1 => Front(q) = <<>>
  BY <1>2, EmptySeq
<1> QED
  BY <1>1, <1>2, <1>3, <1>4

\* Induction over paths: what holds of the paths of length one, and of each
\* that has one in front of it for which it holds, holds of all of them.
LEMMA PathInduction ==
  ASSUME NEW S,
         \A q \in Path : (Len(q) > 1 => Front(q) \in S) => q \in S
  PROVE  Path \subseteq S
<1> SUFFICES ASSUME Path \ S # {} PROVE FALSE
  OBVIOUS
<1> DEFINE T == {Len(q) : q \in Path \ S}
<1>1. T \subseteq Nat /\ T # {}
  <2>1. \A q \in Path : Len(q) \in Nat
    BY PathFacts
  <2>2. PICK q : q \in Path \ S
    OBVIOUS
  <2> QED
    BY <2>1, <2>2
<1>2. PICK n \in T : \A m \in T : n <= m
  <2> HIDE DEF T
  <2> QED
    BY <1>1, LeastNumber
<1>3. PICK q \in Path \ S : n = Len(q)
  BY <1>2
<1>4. Len(q) > 1 => Front(q) \in Path /\ Len(Front(q)) < Len(q)
  BY PathFacts
<1>5. Len(q) > 1 => Front(q) \in S
  <2> SUFFICES ASSUME Len(q) > 1, Front(q) \notin S PROVE FALSE
    OBVIOUS
  <2>1. Len(Front(q)) \in T
    BY <1>4
  <2> QED
    BY <2>1, <1>1, <1>2, <1>3, <1>4
<1> QED
  BY <1>3, <1>5

\* The beginnings of a path are paths.
LEMMA PrefixIsPath ==
  ASSUME NEW a \in Seq(Name), NEW b \in Seq(Name), a # <<>>, a \o b \in Path
  PROVE  a \in Path
<1> DEFINE S == {p \in Path : \A c \in Seq(Name) : p = a \o c => a \in Path}
<1>1. ASSUME NEW q \in Path, Len(q) > 1 => Front(q) \in S PROVE q \in S
  <2> SUFFICES ASSUME NEW c \in Seq(Name), q = a \o c PROVE a \in Path
    OBVIOUS
  <2>1. CASE c = <<>>
    BY <2>1, ConcatEmptySeq
  <2>2. CASE c # <<>>
    <3>1. Front(q) = a \o Front(c) /\ Front(c) \in Seq(Name)
      BY <2>2, FrontConcat, FrontFacts
    <3>2. Front(q) # <<>>
      BY <3>1, ConcatEqualIffEmpty
    <3>3. Len(q) > 1
      <4>1. Len(q) \in Nat /\ Len(q) >= 1 /\ (Len(q) = 1 => Front(q) = <<>>)
        BY PathFacts
      <4> QED
        BY <4>1, <3>2
    <3> QED
      BY <3>1, <3>3, <1>1
  <2> QED
    BY <2>1, <2>2
<1>2. Path \subseteq S
  <2> HIDE DEF S
  <2> QED
    BY <1>1, PathInduction
<1> QED
  BY <1>2

-----------------------------------------------------------------------------
(* Where a path leads, for any map of subtopics kk.                        *)

Falls(kk, p, f) ==
    f = [i \in 0..Len(p) |->
           IF i = 0 THEN Server
           ELSE IF f[i-1] = NoTopic THEN NoTopic ELSE kk[f[i-1]][p[i]]]

Reach(kk, p) == (CHOOSE f : Falls(kk, p, f))[Len(p)]

LEMMA NodeAtReach == \A p : NodeAt(p) = Reach(kids, p) /\ (NodeAt(p))' = Reach(kids', p')
BY DEF NodeAt, Reach, Falls

\* There is exactly one function that goes down along a path.
LEMMA FallsExists ==
  ASSUME NEW kk, NEW p \in Seq(Name)
  PROVE  \E f : Falls(kk, p, f)
<1> DEFINE G(n, f) == f = [i \in 0..n |->
                       IF i = 0 THEN Server
                       ELSE IF f[i-1] = NoTopic THEN NoTopic ELSE kk[f[i-1]][p[i]]]
<1> DEFINE T == {n \in Nat : ~ \E f : G(n, f)}
<1>1. T = {}
  <2> SUFFICES ASSUME T # {} PROVE FALSE
    OBVIOUS
  <2>1. PICK n \in T : \A m \in T : n <= m
    <3>1. T \subseteq Nat
      OBVIOUS
    <3> HIDE DEF T
    <3> QED
      BY <3>1, LeastNumber
  <2>2. n # 0
    <3>1. G(0, [i \in 0..0 |-> Server])
      OBVIOUS
    <3> QED
      BY <3>1, <2>1
  <2>3. PICK f : G(n - 1, f)
    <3>1. n \in Nat /\ n - 1 \in Nat /\ ~(n <= n - 1)
      BY <2>1, <2>2
    <3>2. n - 1 \notin T
      BY <3>1, <2>1
    <3> QED
      BY <3>1, <3>2
  <2> DEFINE g == [i \in 0..n |-> IF i < n THEN f[i]
                                  ELSE IF f[n-1] = NoTopic THEN NoTopic
                                       ELSE kk[f[n-1]][p[n]]]
  <2>4. n \in Nat /\ n - 1 \in Nat
    BY <2>1, <2>2
  <2>5. \A i \in 0..n : g[i] = IF i = 0 THEN Server
                       ELSE IF g[i-1] = NoTopic THEN NoTopic ELSE kk[g[i-1]][p[i]]
    <3>1. \A i \in 0..(n-1) : f[i] = IF i = 0 THEN Server
                       ELSE IF f[i-1] = NoTopic THEN NoTopic ELSE kk[f[i-1]][p[i]]
      BY <2>3, <2>4
    <3>2. \A i \in 0..(n-1) : g[i] = f[i]
      BY <2>4
    <3>3. \A i \in 0..(n-1) : g[i] = IF i = 0 THEN Server
                       ELSE IF g[i-1] = NoTopic THEN NoTopic ELSE kk[g[i-1]][p[i]]
      <4> SUFFICES ASSUME NEW i \in 0..(n-1)
                   PROVE g[i] = IF i = 0 THEN Server
                       ELSE IF g[i-1] = NoTopic THEN NoTopic ELSE kk[g[i-1]][p[i]]
        OBVIOUS
      <4>1. i # 0 => g[i-1] = f[i-1]
        BY <3>2, <2>4
      <4>2. g[i] = f[i]
        BY <3>2
      <4> HIDE DEF g, G
      <4> QED
        BY <3>1, <4>1, <4>2
    <3>4. g[n] = IF g[n-1] = NoTopic THEN NoTopic ELSE kk[g[n-1]][p[n]]
      <4>1. g[n-1] = f[n-1]
        BY <2>4
      <4>2. g[n] = IF f[n-1] = NoTopic THEN NoTopic ELSE kk[f[n-1]][p[n]]
        BY <2>4
      <4> QED
        BY <4>1, <4>2
    <3> HIDE DEF g
    <3> QED
      BY <3>3, <3>4, <2>4, <2>2
  <2>6. G(n, g)
    <3>1. g = [i \in 0..n |-> g[i]]
      OBVIOUS
    <3> HIDE DEF g
    <3> QED
      BY <2>5, <3>1
  <2> QED
    BY <2>6, <2>1
<1>2. Len(p) \in Nat
  BY LenProperties
<1>3. \E f : G(Len(p), f)
  BY <1>1, <1>2
<1> QED
  BY <1>3 DEF Falls

Begins(p, q) == Len(p) <= Len(q) /\ \A i \in 1..Len(p) : p[i] = q[i]

\* Two of them agree as far as the paths do.
LEMMA FallsAgree ==
  ASSUME NEW kk, NEW p \in Seq(Name), NEW q \in Seq(Name), NEW f, NEW g,
         Falls(kk, p, f), Falls(kk, q, g), Begins(p, q)
  PROVE  \A i \in 0..Len(p) : f[i] = g[i]
<1> DEFINE T == {i \in 0..Len(p) : f[i] # g[i]}
<1>0. /\ Len(p) \in Nat /\ Len(q) \in Nat /\ Len(p) <= Len(q)
      /\ \A i \in 1..Len(p) : p[i] = q[i]
  BY LenProperties DEF Begins
<1> SUFFICES ASSUME T # {} PROVE FALSE
  OBVIOUS
<1>1. PICK n \in T : \A m \in T : n <= m
  <2>1. T \subseteq Nat
    OBVIOUS
  <2> HIDE DEF T
  <2> QED
    BY <2>1, LeastNumber
<1>2. \A i \in 0..Len(p) : f[i] = IF i = 0 THEN Server
                 ELSE IF f[i-1] = NoTopic THEN NoTopic ELSE kk[f[i-1]][p[i]]
  BY ZenonT(40) DEF Falls
<1>3. \A i \in 0..Len(p) : g[i] = IF i = 0 THEN Server
                 ELSE IF g[i-1] = NoTopic THEN NoTopic ELSE kk[g[i-1]][q[i]]
  <2>1. \A i \in 0..Len(q) : g[i] = IF i = 0 THEN Server
                 ELSE IF g[i-1] = NoTopic THEN NoTopic ELSE kk[g[i-1]][q[i]]
    BY DEF Falls
  <2> QED
    BY <2>1, <1>0
<1>4. n # 0
  BY <1>0, <1>1, <1>2, <1>3
<1>5. n - 1 \in 0..Len(p) /\ ~(n <= n - 1) /\ n \in 1..Len(p)
  BY <1>0, <1>1, <1>4
<1>6. f[n-1] = g[n-1]
  BY <1>1, <1>5
<1>7. f[n] = g[n]
  <2>1. p[n] = q[n] /\ n \in 0..Len(p)
    BY <1>5, <1>0
  <2>2. f[n] = IF f[n-1] = NoTopic THEN NoTopic ELSE kk[f[n-1]][p[n]]
    BY <1>2, <1>4, <2>1
  <2>3. g[n] = IF g[n-1] = NoTopic THEN NoTopic ELSE kk[g[n-1]][q[n]]
    BY <1>3, <1>4, <2>1
  <2> QED
    BY <2>1, <2>2, <2>3, <1>6
<1> QED
  BY <1>7, <1>1

LEMMA ReachFalls ==
  ASSUME NEW kk, NEW p \in Seq(Name)
  PROVE  \E f : Falls(kk, p, f) /\ Reach(kk, p) = f[Len(p)]
BY FallsExists DEF Reach

LEMMA ReachEmpty == \A kk : Reach(kk, <<>>) = Server
<1> TAKE kk
<1>1. <<>> \in Seq(Name) /\ Len(<<>>) = 0
  BY EmptySeq
<1>2. PICK f : Falls(kk, <<>>, f) /\ Reach(kk, <<>>) = f[Len(<<>>)]
  BY <1>1, ReachFalls
<1> QED
  BY <1>1, <1>2 DEF Falls

\* A path leads where its last name does from where the path in front leads.
LEMMA ReachStep ==
  ASSUME NEW kk, NEW p \in Path
  PROVE  Reach(kk, p) = IF Reach(kk, Front(p)) = NoTopic THEN NoTopic
                        ELSE kk[Reach(kk, Front(p))][Last(p)]
<1>1. /\ p \in Seq(Name) /\ Len(p) \in Nat /\ Len(p) >= 1
      /\ Front(p) \in Seq(Name) /\ Len(Front(p)) = Len(p) - 1 /\ Last(p) \in Name
      /\ p = Append(Front(p), Last(p))
  BY PathFacts
<1> DEFINE r == Front(p)
<1>2. r \in Seq(Name)
  BY <1>1
<1>3. PICK f : Falls(kk, r, f) /\ Reach(kk, r) = f[Len(r)]
  BY <1>2, ReachFalls
<1>4. PICK g : Falls(kk, p, g) /\ Reach(kk, p) = g[Len(p)]
  BY <1>1, ReachFalls
<1>5. Begins(r, p)
  BY <1>1, AppendProperties DEF Begins
<1>6. \A i \in 0..Len(r) : f[i] = g[i]
  <2> HIDE DEF r
  <2> QED
    BY <1>1, <1>2, <1>3, <1>4, <1>5, FallsAgree
<1>7. f[Len(r)] = g[Len(p) - 1]
  BY <1>1, <1>6
<1>8. g[Len(p)] = IF g[Len(p) - 1] = NoTopic THEN NoTopic ELSE kk[g[Len(p) - 1]][p[Len(p)]]
  <2>1. Len(p) \in 0..Len(p) /\ Len(p) # 0
    BY <1>1
  <2>2. \A i \in 0..Len(p) : g[i] = IF i = 0 THEN Server
                 ELSE IF g[i-1] = NoTopic THEN NoTopic ELSE kk[g[i-1]][p[i]]
    BY <1>4 DEF Falls
  <2> QED
    BY <2>1, <2>2
<1> QED
  BY <1>3, <1>4, <1>7, <1>8 DEF Last

-----------------------------------------------------------------------------
(* The invariant.                                                          *)

Stage == {"check", "range", "cancel", "delete"}

FrameType == [node : Owner, names : SUBSET Name, must : SUBSET Name, at : Stage,
              kid : Topic \cup {NoTopic}]

JobType == [at : Where, calls : Nat, call : Request, node : Owner, path : Path \cup {<<>>},
            way : Seq(Name), rest : Seq(Name), target : Topic \cup {NoTopic},
            must : SUBSET Topic, stack : Seq(FrameType), run : Nat]

\* For any names nm of topics: those created, and where an owner is.
Known(nm) == {n \in Topic : nm[n] # <<>>}
Place(nm, n) == IF n = Server THEN <<>> ELSE nm[n]

\* A frame at work on a subtopic has one of its topic's, and the subtopic it
\* deletes has been cancelled.
FrameOK(f, nm, en) ==
    /\ f.node \in Known(nm) \cup {Server}
    /\ Holds(f) => f.kid \in Known(nm) /\ Front(nm[f.kid]) = Place(nm, f.node)
    /\ f.at = "delete" => f.kid \in en
    /\ f.node = Server => Holds(f)

\* Where a call is on its way, and what lies ahead of it.
JobOK(j, nm, en) ==
    /\ j.node \in Known(nm) \cup {Server}
    /\ j.must \subseteq Known(nm)
    /\ j.at \in {"clean", "set"} =>
          j.path = <<>> /\ j.way = <<>> /\ j.node = Server /\ j.call.op = "run"
    /\ j.at \in {"branch", "parent", "insert", "start"} => j.path \o j.rest \in Path
    /\ j.at = "branch" => j.rest # <<>>
    /\ j.at \in {"parent", "insert", "start"} =>
          j.path # <<>> /\ Place(nm, j.node) \o j.way = Front(j.path)
    /\ j.at \in {"insert", "start"} => j.way = <<>>
    /\ j.at = "start" => j.target \in Known(nm)
    /\ j.at = "target" => j.path # <<>> /\ Place(nm, j.node) \o j.way = j.path
    /\ j.at = "owner" =>
          Len(j.path) > 1 /\ j.way # <<>> /\ Place(nm, j.node) \o j.way = Front(j.path)
    /\ j.at \in {"removing", "subscribing"} => j.stack # <<>> /\ j.path # <<>>
    /\ j.at \notin {"removing", "subscribing"} => j.stack = <<>>
    /\ \A i \in 1..Len(j.stack) : FrameOK(j.stack[i], nm, en)

TypedVars ==
    /\ {runned, crashed} \subseteq BOOLEAN
    /\ runs \in 0..MaxRuns
    /\ ctx \in 0..runs
    /\ stoppers \subseteq 1..runs
    /\ ended \subseteq Topic \cup {RunContext(r) : r \in 1..runs}
    /\ kids \in [Owner -> [Name -> Created \cup {NoTopic}]]
    /\ fullName \in [Topic -> Path \cup {<<>>}]
    /\ line \in [Topic -> SUBSET (Topic \cup {RunContext(r) : r \in 1..runs})]
    /\ live \subseteq {n \in Created : n \in line[n]}
    /\ subs \in [Topic -> SUBSET Client]
    /\ runned => ctx # 0
    /\ \E m \in 0..MaxTopics : Created = 1..m

TypedJobs ==
    /\ job \in [Client -> JobType]
    /\ \A c \in Client : /\ JobOK(job[c], fullName, ended)
                         /\ At(c, "set") => job[c].run \in 1..runs

Typed == TypedVars /\ TypedJobs

\* An entry of the map of a topic, or of the server, has the name of the one
\* whose map it is in front, and is the only entry of its topic.
Entries ==
    \A u \in Owner, x \in Name : kids[u][x] # NoTopic =>
        /\ u \in Created \cup {Server}
        /\ fullName[kids[u][x]] = Append(Place(fullName, u), x)
        /\ \A v \in Owner, y \in Name : kids[v][y] = kids[u][x] => v = u /\ y = x

\* The topic n was added to u, or to the server.
AddedTo(n, u) ==
    /\ n \in Created
    /\ u \in Created \cup {Server}
    /\ Front(fullName[n]) = Place(fullName, u)
    /\ \A v \in Owner, y \in Name : kids[v][y] = n => v = u

\* The line of a topic is that of the one above it, or a run's.
Lines ==
    /\ \A n \in Topic : line[n] # {} =>
          \E u \in Owner :
              /\ AddedTo(n, u)
              /\ u = Server => \E r \in 1..runs : line[n] = {n, RunContext(r)}
              /\ u # Server => u < n /\ line[u] # {} /\ line[n] = {n} \cup line[u]
    /\ \A n \in ended \cap Topic : line[n] # {}
    /\ \A c \in Client : At(c, "start") =>
          LET n == job[c].target
              u == job[c].node
          IN
          /\ fullName[n] = job[c].path
          /\ line[n] = {}
          /\ AddedTo(n, u)
          /\ u # Server => u < n /\ line[u] # {}
          /\ \A d \in Client \ {c} : At(d, "start") => job[d].target # n

\* An entry about to be written is free, one about to be deleted is the topic
\* that was found there.
EntriesHeld ==
    \A c \in Client :
        /\ At(c, "insert") => kids[job[c].node][Last(job[c].path)] = NoTopic
        /\ \A i \in 1..Len(job[c].stack) :
              LET f == job[c].stack[i] IN
              Holds(f) => kids[f.node][Last(fullName[f.kid])] \in {f.kid, NoTopic}

\* There is one run at a time, and none that has not ended while the server
\* can be run again.
OneRun ==
    /\ stoppers \subseteq {runs}
    /\ \A r \in 1..runs : r # runs => RunContext(r) \in ended
    /\ \A c \in Client : (At(c, "clean") => ~runned) /\ (At(c, "set") => job[c].run = runs)
    /\ (~runned /\ \A c \in Client : ~At(c, "set")) =>
          stoppers = {} /\ \A r \in 1..runs : RunContext(r) \in ended

Attached(n) == \E u \in Owner, x \in Name : kids[u][x] = n
NeverStarts(n) == line[n] = {} /\ \A c \in Client : ~(At(c, "start") /\ job[c].target = n)

\* A topic that was taken from its map was cancelled, or will never be served.
NoneLost == \A n \in Created : Attached(n) \/ Cancelled(n) \/ NeverStarts(n)

\* n can still be reached by the activation f of a call of Subscribe.
Ahead(f, n) ==
    LET p == Place(fullName, f.node) IN
    /\ NodeAt(p) = f.node
    /\ Begins(p, fullName[n])
    /\ f.at = "check" \/ ( /\ Len(p) < Len(fullName[n])
                          /\ fullName[n][Len(p) + 1] \in f.names \cap f.must )

\* What a call of Subscribe is still to cover lies ahead of one of its
\* activations; what it had to cover when it succeeded is covered.
Cover(c) ==
    LET j == job[c] IN
    /\ j.at \notin {"subscribing", "ok"} => j.must = {}
    /\ At(c, "ok") => \A n \in j.must : n \in InTree => c \in subs[n]
    /\ At(c, "subscribing") =>
          \A i \in 1..Len(j.stack) :
              /\ j.stack[i].at = "check" => j.stack[i].names = Name
              /\ Len(Place(fullName, j.stack[i].node)) = Len(j.path) + i - 1
              /\ j.stack[i].at \in {"check", "range"}
    /\ At(c, "subscribing") =>
          \A n \in j.must :
              /\ Len(fullName[n]) <= Len(j.path) + j.call.depth
              /\ n \in InTree => \/ c \in subs[n]
                                 \/ \E i \in 1..Len(j.stack) : Ahead(j.stack[i], n)

CoverAhead == \A c \in Client : Cover(c)

-----------------------------------------------------------------------------
(* Types.                                                                  *)

LEMMA Constants ==
  /\ MaxTopics \in Nat /\ MaxRuns \in Nat /\ Server \in Nat /\ Server \notin Topic
  /\ Server # NoTopic /\ NoTopic \notin Topic /\ Topic \subseteq Owner /\ Server \in Owner
  /\ Topic \subseteq Nat /\ Owner = Topic \cup {Server} /\ NoTopic \notin Owner
  /\ Default \in Name /\ <<Default>> \in Path
BY TreeAssumption DEF Server, Topic, Owner, NoTopic

LEMMA TypedImpliesTypeOK == Typed => TypeOK
<1> SUFFICES ASSUME Typed PROVE TypeOK
  OBVIOUS
<1>1. ASSUME NEW c \in Client
      PROVE  /\ job[c].at \in Where
             /\ job[c].node \in Owner
             /\ (job[c].at \in {"removing", "subscribing"}) = (job[c].stack # <<>>)
  <2>1. job[c] \in JobType /\ JobOK(job[c], fullName, ended)
    BY DEF Typed, TypedJobs
  <2>2. /\ job[c].at \in {"removing", "subscribing"} => job[c].stack # <<>>
        /\ job[c].at \notin {"removing", "subscribing"} => job[c].stack = <<>>
    BY <2>1 DEF JobOK
  <2> QED
    BY <2>1, <2>2 DEF JobType
<1> QED
  BY <1>1 DEF Typed, TypedVars, TypeOK

LEMMA TypesFrom == Init => Typed
<1> SUFFICES ASSUME Init PROVE Typed
  OBVIOUS
<1> USE Constants
<1>1. TypedVars
  <2>1. Created = 1..0
    BY DEF Init, Created
  <2>2. \E m \in 0..MaxTopics : Created = 1..m
    BY <2>1
  <2>3. /\ {runned, crashed} \subseteq BOOLEAN /\ runs \in 0..MaxRuns /\ ctx \in 0..runs
        /\ stoppers \subseteq 1..runs
        /\ runned => ctx # 0
        /\ ended \subseteq Topic \cup {RunContext(r) : r \in 1..runs}
        /\ live \subseteq {n \in Created : n \in line[n]}
    <3>1. {runned, crashed} \subseteq BOOLEAN
      BY DEF Init
    <3>2. runs = 0 /\ ctx = 0 /\ stoppers = {} /\ ended = {} /\ live = {} /\ ~runned
      BY DEF Init
    <3> QED
      BY <3>1, <3>2
  <2>4. kids \in [Owner -> [Name -> Created \cup {NoTopic}]]
    BY DEF Init
  <2>5. /\ fullName \in [Topic -> Path \cup {<<>>}] /\ subs \in [Topic -> SUBSET Client]
        /\ line \in [Topic -> SUBSET (Topic \cup {RunContext(r) : r \in 1..runs})]
    BY DEF Init
  <2> QED
    BY <2>2, <2>3, <2>4, <2>5 DEF TypedVars
<1>2. <<>> \in Seq(Name) /\ <<>> \in Seq(FrameType) /\ Len(<<>>) = 0
  BY EmptySeq
<1>3. NoCall \in Request
  BY <1>2 DEF NoCall, Request
<1>4. TypedJobs
  <2> DEFINE j == [at |-> "idle", calls |-> 0, call |-> NoCall, node |-> Server,
                   path |-> <<>>, way |-> <<>>, rest |-> <<>>, target |-> NoTopic,
                   must |-> {}, stack |-> <<>>, run |-> 0]
  <2>1. j \in JobType
    BY <1>2, <1>3 DEF JobType, Where
  <2>2. JobOK(j, fullName, ended)
    BY <1>2 DEF JobOK
  <2>3. job = [c \in Client |-> j]
    BY DEF Init
  <2>4. \A c \in Client : job[c] = j /\ ~At(c, "set")
    BY <2>3 DEF At
  <2> HIDE DEF j
  <2> QED
    BY <2>1, <2>2, <2>3, <2>4 DEF TypedJobs
<1> QED
  BY <1>1, <1>4 DEF Typed

\* Names and cancelled contexts stay.
Grows(nm, nn, en, em) ==
    /\ \A n \in Topic : nm[n] # <<>> => nn[n] = nm[n]
    /\ en \subseteq em

LEMMA JobStays ==
  ASSUME NEW nm, NEW nn, NEW en, NEW em, Grows(nm, nn, en, em),
         NEW j \in JobType, JobOK(j, nm, en)
  PROVE  JobOK(j, nn, em)
<1>1. Known(nm) \subseteq Known(nn) /\ \A n \in Known(nm) : nn[n] = nm[n]
  BY DEF Grows, Known
<1>2. \A n \in Known(nm) \cup {Server} : Place(nn, n) = Place(nm, n)
  BY <1>1 DEF Place
<1>3. j.node \in Known(nm) \cup {Server} /\ Place(nn, j.node) = Place(nm, j.node)
  BY <1>2 DEF JobOK
<1>4. ASSUME NEW i \in 1..Len(j.stack) PROVE FrameOK(j.stack[i], nn, em)
  <2>1. FrameOK(j.stack[i], nm, en)
    BY DEF JobOK
  <2> DEFINE f == j.stack[i]
  <2> HIDE DEF f
  <2>2. FrameOK(f, nm, en)
    BY <2>1 DEF f
  <2>3. f.node \in Known(nn) \cup {Server} /\ Place(nn, f.node) = Place(nm, f.node)
    BY <2>2, <1>1, <1>2 DEF FrameOK
  <2>4. Holds(f) => f.kid \in Known(nn) /\ nn[f.kid] = nm[f.kid]
    BY <2>2, <1>1 DEF FrameOK
  <2>5. f.at = "delete" => f.kid \in em
    BY <2>2 DEF FrameOK, Grows
  <2>6. FrameOK(f, nn, em)
    BY <2>2, <2>3, <2>4, <2>5 DEF FrameOK
  <2> QED
    BY <2>6 DEF f
<1>5. j.must \subseteq Known(nn)
  BY <1>1 DEF JobOK
<1> QED
  BY <1>1, <1>3, <1>4, <1>5 DEF JobOK

\* A step takes the call of c to a good job.
GoesWell(c) ==
    \E j \in JobType :
        /\ Goes(c, j)
        /\ JobOK(j, fullName', ended')
        /\ j.at = "set" => j.run \in 1..runs'

Later == Grows(fullName, fullName', ended, ended') /\ runs' \in Nat /\ runs <= runs'

LEMMA JobsStay ==
  ASSUME TypedVars, TypedJobs, Later, UNCHANGED job \/ \E c \in Client : GoesWell(c)
  PROVE  TypedJobs'
<1>0. 1..runs \subseteq 1..runs'
  BY Constants DEF TypedVars, Later
<1>1. ASSUME NEW d \in Client
      PROVE  /\ job[d] \in JobType /\ JobOK(job[d], fullName', ended')
             /\ job[d].at = "set" => job[d].run \in 1..runs'
  <2>1. job[d] \in JobType /\ JobOK(job[d], fullName, ended)
    BY DEF TypedJobs
  <2>2. JobOK(job[d], fullName', ended')
    BY <2>1, JobStays DEF Later
  <2> QED
    BY <2>1, <2>2, <1>0 DEF TypedJobs, At
<1>2. CASE UNCHANGED job
  BY <1>1, <1>2 DEF TypedJobs, At
<1>3. ASSUME NEW c \in Client, GoesWell(c) PROVE TypedJobs'
  <2>1. PICK j \in JobType : /\ Goes(c, j)
                             /\ JobOK(j, fullName', ended')
                             /\ j.at = "set" => j.run \in 1..runs'
    BY <1>3 DEF GoesWell
  <2>2. job' \in [Client -> JobType] /\ \A d \in Client : job'[d] = IF d = c THEN j ELSE job[d]
    BY <2>1 DEF Goes, TypedJobs
  <2> QED
    BY <1>1, <2>1, <2>2 DEF TypedJobs, At
<1> QED
  BY <1>2, <1>3

-----------------------------------------------------------------------------
(* Jobs.                                                                   *)

LEMMA OverOK ==
  ASSUME NEW nm, NEW en, NEW j \in JobType, JobOK(j, nm, en), NEW answer \in {"ok", "err"}
  PROVE  Over(j, answer) \in JobType /\ JobOK(Over(j, answer), nm, en)
<1> USE Constants
<1> DEFINE o == Over(j, answer)
<1>1. <<>> \in Seq(Name) /\ <<>> \in Seq(FrameType) /\ Len(<<>>) = 0
  BY EmptySeq
<1>2. [NoCall EXCEPT !.op = j.call.op] \in Request
  BY <1>1 DEF NoCall, Request, JobType
<1>3. o \in JobType
  BY ZenonT(40), <1>1, <1>2 DEF JobType, Over, Where
<1>4. /\ o.at = answer /\ o.node = Server /\ o.stack = <<>> /\ o.must \in {j.must, {}}
  BY DEF Over, JobType
<1> HIDE DEF o
<1>5. JobOK(o, nm, en)
  BY <1>1, <1>4 DEF JobOK
<1> QED
  BY <1>3, <1>5 DEF o

\* A good job stays one when its stack changes to a good one.
LEMMA StackJob ==
  ASSUME NEW nm, NEW en, NEW j \in JobType, JobOK(j, nm, en), j.stack # <<>>,
         NEW s \in Seq(FrameType), s # <<>>,
         \A i \in 1..Len(s) : FrameOK(s[i], nm, en)
  PROVE  [j EXCEPT !.stack = s] \in JobType /\ JobOK([j EXCEPT !.stack = s], nm, en)
<1> DEFINE o == [j EXCEPT !.stack = s]
<1>1. o \in JobType
  BY DEF JobType
<1>2. /\ o.at = j.at /\ o.node = j.node /\ o.path = j.path /\ o.way = j.way
      /\ o.rest = j.rest /\ o.must = j.must /\ o.call = j.call /\ o.stack = s
  BY DEF JobType
<1>3. j.at \in {"removing", "subscribing"}
  BY DEF JobOK
<1> HIDE DEF o
<1>4. JobOK(o, nm, en)
  BY <1>2, <1>3 DEF JobOK
<1> QED
  BY <1>1, <1>4 DEF o

\* The top of the stack of a call that is at work on a branch.
LEMMA TopFacts ==
  ASSUME TypedJobs, NEW c \in Client, job[c].at \in {"removing", "subscribing"}
  PROVE  /\ job[c] \in JobType /\ JobOK(job[c], fullName, ended)
         /\ job[c].stack \in Seq(FrameType) /\ job[c].stack # <<>>
         /\ Len(job[c].stack) \in Nat /\ Len(job[c].stack) >= 1
         /\ Top(c) = job[c].stack[Len(job[c].stack)]
         /\ Top(c) \in FrameType /\ FrameOK(Top(c), fullName, ended)
<1>1. job[c] \in JobType /\ JobOK(job[c], fullName, ended)
  BY DEF TypedJobs
<1>2. job[c].stack \in Seq(FrameType) /\ job[c].stack # <<>>
  BY <1>1 DEF JobType, JobOK
<1>3. /\ Len(job[c].stack) \in Nat /\ Len(job[c].stack) >= 1
      /\ Top(c) = job[c].stack[Len(job[c].stack)] /\ Top(c) \in FrameType
  BY <1>2, FrontFacts DEF Top
<1>4. FrameOK(job[c].stack[Len(job[c].stack)], fullName, ended)
  BY <1>1, <1>3 DEF JobOK
<1> QED
  BY <1>1, <1>2, <1>3, <1>4

LEMMA EndsWell ==
  ASSUME TypedJobs, Later, NEW c \in Client, NEW answer \in {"ok", "err"}, Ends(c, answer)
  PROVE  GoesWell(c)
<1>1. job[c] \in JobType /\ JobOK(job[c], fullName, ended)
  BY DEF TypedJobs
<1>2. JobOK(job[c], fullName', ended')
  BY <1>1, JobStays DEF Later
<1>3. Over(job[c], answer) \in JobType /\ JobOK(Over(job[c], answer), fullName', ended')
  BY <1>1, <1>2, OverOK
<1>4. Over(job[c], answer).at = answer
  BY <1>1 DEF Over, JobType
<1> QED
  BY <1>3, <1>4 DEF Ends, GoesWell

\* So does a call that puts a good frame on top of its stack, or two.
LEMMA ReplacesWell ==
  ASSUME TypedJobs, Later, NEW c \in Client, job[c].at \in {"removing", "subscribing"},
         NEW t \in FrameType, FrameOK(t, fullName', ended'),
         \/ Replace(c, t)
         \/ \E f \in FrameType : FrameOK(f, fullName', ended') /\ Push(c, t, f)
  PROVE  GoesWell(c)
<1> DEFINE s == job[c].stack
<1>1. /\ job[c] \in JobType /\ s \in Seq(FrameType) /\ s # <<>>
  BY TopFacts
<1>2. JobOK(job[c], fullName', ended')
  BY JobStays DEF TypedJobs, Later
<1>3. \A i \in 1..Len(s) : FrameOK(s[i], fullName', ended')
  BY <1>2 DEF JobOK
<1>4. ASSUME NEW r \in Seq(FrameType), r # <<>>,
             \A i \in 1..Len(r) : FrameOK(r[i], fullName', ended'),
             Goes(c, [job[c] EXCEPT !.stack = r])
      PROVE  GoesWell(c)
  <2> DEFINE o == [job[c] EXCEPT !.stack = r]
  <2>1. o \in JobType /\ JobOK(o, fullName', ended')
    BY <1>1, <1>2, <1>4, StackJob
  <2>2. o.at = job[c].at
    BY <1>1 DEF JobType
  <2>3. Goes(c, o) /\ o.at # "set"
    BY <1>4, <2>2
  <2> HIDE DEF o
  <2> QED
    BY <2>1, <2>3 DEF GoesWell
<1>5. Len(s) \in Nat /\ Len(s) >= 1
  BY TopFacts
<1>6. CASE Replace(c, t)
  <2> DEFINE r == Append(Front(s), t)
  <2>1. /\ r \in Seq(FrameType) /\ r # <<>> /\ Len(r) = Len(s)
        /\ \A i \in 1..Len(r) : r[i] = IF i = Len(s) THEN t ELSE s[i]
    BY <1>1, StackFacts
  <2>2. Goes(c, [job[c] EXCEPT !.stack = r])
    BY <1>6, <1>1 DEF Replace, JobType
  <2> HIDE DEF r
  <2>3. \A i \in 1..Len(r) : FrameOK(r[i], fullName', ended')
    BY <2>1, <1>3
  <2> QED
    BY <2>1, <2>2, <2>3, <1>4
<1>7. ASSUME NEW f \in FrameType, FrameOK(f, fullName', ended'), Push(c, t, f)
      PROVE  GoesWell(c)
  <2> DEFINE r == Append(Append(Front(s), t), f)
  <2>1. /\ r \in Seq(FrameType) /\ r # <<>> /\ Len(r) = Len(s) + 1
        /\ \A i \in 1..Len(r) : r[i] = IF i = Len(s) + 1 THEN f
                                      ELSE IF i = Len(s) THEN t ELSE s[i]
    BY <1>1, StackFacts
  <2>2. Goes(c, [job[c] EXCEPT !.stack = r])
    BY <1>7, <1>1 DEF Push, JobType
  <2> HIDE DEF r
  <2>3. \A i \in 1..Len(r) : FrameOK(r[i], fullName', ended')
    <3> TAKE i \in 1..Len(r)
    <3>1. i = Len(s) + 1 \/ i = Len(s) \/ i \in 1..Len(s)
      BY <2>1, <1>5
    <3> QED
      BY <3>1, <2>1, <1>3, <1>5, <1>7
  <2> QED
    BY <2>1, <2>2, <2>3, <1>4
<1> QED
  BY <1>6, <1>7

LEMMA PopsWell ==
  ASSUME TypedJobs, Later, NEW c \in Client, job[c].at \in {"removing", "subscribing"}, Pop(c)
  PROVE  GoesWell(c)
<1> DEFINE s == job[c].stack
           r == Front(s)
<1>1. /\ job[c] \in JobType /\ s \in Seq(FrameType) /\ s # <<>>
      /\ Len(s) \in Nat /\ Len(s) >= 1
  BY TopFacts
<1>2. JobOK(job[c], fullName', ended')
  BY JobStays DEF TypedJobs, Later
<1>3. CASE Len(s) = 1
  BY <1>3, EndsWell DEF Pop
<1>4. CASE Len(s) # 1
  <2>1. /\ r \in Seq(FrameType) /\ Len(r) = Len(s) - 1
        /\ \A i \in 1..(Len(s) - 1) : r[i] = s[i]
    BY <1>1, FrontFacts
  <2>2. r # <<>>
    <3>1. Len(r) # 0 /\ Len(<<>>) = 0
      BY <2>1, <1>1, <1>4, EmptySeq
    <3> QED
      BY <3>1
  <2>3. Goes(c, [job[c] EXCEPT !.stack = r])
    BY <1>4, <1>1 DEF Pop, JobType
  <2>4. \A i \in 1..Len(s) : FrameOK(s[i], fullName', ended')
    BY <1>2 DEF JobOK
  <2> DEFINE o == [job[c] EXCEPT !.stack = r]
  <2>5. o.at = job[c].at
    BY <1>1 DEF JobType
  <2> HIDE DEF r
  <2>6. \A i \in 1..Len(r) : FrameOK(r[i], fullName', ended')
    BY <2>1, <2>4, <1>1
  <2>7. o \in JobType /\ JobOK(o, fullName', ended')
    BY <1>1, <1>2, <2>1, <2>2, <2>6, StackJob
  <2>8. Goes(c, o) /\ o.at # "set"
    BY <2>3, <2>5
  <2> HIDE DEF o
  <2> QED
    BY <2>7, <2>8 DEF GoesWell
<1> QED
  BY <1>3, <1>4

-----------------------------------------------------------------------------
(* Where a path leads.                                                     *)

LEMMA PlaceFacts ==
  ASSUME Typed, NEW u \in Created \cup {Server}
  PROVE  /\ u \in Owner /\ Place(fullName, u) \in Seq(Name)
         /\ u = Server => Place(fullName, u) = <<>>
         /\ u # Server => u \in Topic /\ Place(fullName, u) = fullName[u]
                         /\ fullName[u] \in Path /\ fullName[u] # <<>>
<1> USE Constants
<1>1. CASE u = Server
  BY <1>1, EmptySeq DEF Place
<1>2. CASE u # Server
  <2>1. u \in Topic /\ fullName[u] # <<>> /\ Place(fullName, u) = fullName[u]
    BY <1>2 DEF Created, Place
  <2>2. fullName[u] \in Path
    BY <2>1 DEF Typed, TypedVars
  <2> QED
    BY <1>2, <2>1, <2>2, PathFacts
<1> QED
  BY <1>1, <1>2

LEMMA EntryFacts ==
  ASSUME Typed, Entries, NEW u \in Owner, NEW x \in Name, kids[u][x] # NoTopic
  PROVE  /\ kids[u][x] \in Created /\ kids[u][x] \in Topic
         /\ u \in Created \cup {Server}
         /\ fullName[kids[u][x]] = Append(Place(fullName, u), x)
         /\ Front(fullName[kids[u][x]]) = Place(fullName, u)
         /\ Last(fullName[kids[u][x]]) = x
<1>1. kids[u][x] \in Created /\ kids[u][x] \in Topic
  BY DEF Typed, TypedVars, Created
<1>2. u \in Created \cup {Server} /\ fullName[kids[u][x]] = Append(Place(fullName, u), x)
  BY DEF Entries
<1>3. Place(fullName, u) \in Seq(Name)
  BY <1>2, PlaceFacts
<1> QED
  BY <1>1, <1>2, <1>3, FrontAppend

\* A path leads to a topic of that name, or to none; one of no names to the
\* server.
LEMMA NodeFacts ==
  ASSUME Typed, Entries
  PROVE  /\ NodeAt(<<>>) = Server
         /\ \A p \in Path :
              /\ NodeAt(p) \in Created \cup {NoTopic}
              /\ NodeAt(p) # NoTopic => fullName[NodeAt(p)] = p
              /\ NodeAt(Front(p)) \in Created \cup {Server, NoTopic}
              /\ NodeAt(p) = IF NodeAt(Front(p)) = NoTopic THEN NoTopic
                             ELSE kids[NodeAt(Front(p))][Last(p)]
<1> USE Constants
<1>1. NodeAt(<<>>) = Server
  BY NodeAtReach, ReachEmpty
<1>2. \A p \in Path : NodeAt(p) = IF NodeAt(Front(p)) = NoTopic THEN NoTopic
                                 ELSE kids[NodeAt(Front(p))][Last(p)]
  BY NodeAtReach, ReachStep
<1> DEFINE S == {p \in Path : /\ NodeAt(p) \in Created \cup {NoTopic}
                              /\ NodeAt(p) # NoTopic => fullName[NodeAt(p)] = p
                              /\ NodeAt(Front(p)) \in Created \cup {Server, NoTopic}}
<1>3. ASSUME NEW q \in Path, Len(q) > 1 => Front(q) \in S PROVE q \in S
  <2>1. /\ Last(q) \in Name /\ q = Append(Front(q), Last(q))
        /\ Front(q) \in Path \/ Front(q) = <<>>
        /\ Front(q) \in Path => Front(q) \in S
    <3>1. /\ Len(q) \in Nat /\ Len(q) >= 1 /\ Last(q) \in Name
          /\ q = Append(Front(q), Last(q))
          /\ Len(q) > 1 => Front(q) \in Path
          /\ Len(q) = 1 => Front(q) = <<>>
      BY PathFacts
    <3>2. <<>> \notin Path
      BY TreeAssumption
    <3> QED
      BY <3>1, <3>2, <1>3
  <2> DEFINE u == NodeAt(Front(q))
  <2>2. /\ u \in Created \cup {Server, NoTopic}
        /\ u # NoTopic => Place(fullName, u) = Front(q)
    <3>1. CASE Front(q) = <<>>
      BY <3>1, <1>1 DEF Place
    <3>2. CASE Front(q) \in Path
      BY <3>2, <2>1 DEF Place, Created
    <3> QED
      BY <2>1, <3>1, <3>2
  <2>3. CASE u = NoTopic
    BY <2>2, <2>3, <1>2
  <2>4. CASE u # NoTopic /\ kids[u][Last(q)] = NoTopic
    BY <2>2, <2>4, <1>2
  <2>5. CASE u # NoTopic /\ kids[u][Last(q)] # NoTopic
    <3>1. u \in Owner
      BY <2>2, <2>5 DEF Created
    <3>2. /\ kids[u][Last(q)] \in Created
          /\ fullName[kids[u][Last(q)]] = Append(Place(fullName, u), Last(q))
      BY <3>1, <2>1, <2>5, EntryFacts
    <3>3. NodeAt(q) = kids[u][Last(q)]
      BY <2>5, <1>2
    <3> QED
      BY <3>2, <3>3, <2>1, <2>2, <2>5
  <2> QED
    BY <2>3, <2>4, <2>5
<1>4. Path \subseteq S
  <2> HIDE DEF S
  <2> QED
    BY <1>3, PathInduction
<1> QED
  BY <1>1, <1>2, <1>4

\* So the topics in the tree are those their own names lead to.
LEMMA InTreeFacts ==
  ASSUME Typed, Entries, NEW n
  PROVE  n \in InTree <=> n \in Created /\ NodeAt(fullName[n]) = n
<1> USE Constants
<1>1. n \in Created => fullName[n] \in Path /\ n # NoTopic
  BY PlaceFacts DEF Created
<1> QED
  BY <1>1, NodeFacts DEF InTree

-----------------------------------------------------------------------------
(* The steps of calls, one by one.                                         *)

LEMMA FrameTypes ==
  ASSUME NEW n \in Owner, NEW names \in SUBSET Name, NEW stage \in Stage
  PROVE  /\ Frame(n, names, stage) \in FrameType
         /\ \A k \in Topic : [Frame(n, names, stage) EXCEPT !.kid = k] \in FrameType
BY DEF Frame, FrameType

\* What a lookup does with the topic found.
LEMMA FoundOK ==
  ASSUME Typed, Entries, NEW j \in JobType,
         j.at \in {"branch", "parent", "target", "owner"}, j.node \in Created,
         JobOK([j EXCEPT !.at = IF j.at = "owner" THEN "idle" ELSE j.at], fullName, ended),
         j.at = "owner" => Len(j.path) > 1 /\ Place(fullName, j.node) \o j.way = Front(j.path)
  PROVE  /\ Found(j) \in JobType /\ JobOK(Found(j), fullName, ended)
         /\ Found(j).at # "set"
<1> USE Constants
<1>1. /\ j.node \in Known(fullName) \cup {Server} /\ j.node # Server
      /\ j.must \subseteq Known(fullName) /\ j.stack = <<>>
      /\ j.at \in {"branch", "parent"} => j.path \o j.rest \in Path
      /\ j.at = "branch" => j.rest # <<>>
      /\ j.at = "parent" => j.path # <<>> /\ Place(fullName, j.node) \o j.way = Front(j.path)
      /\ j.at = "target" => j.path # <<>> /\ Place(fullName, j.node) \o j.way = j.path
  BY DEF JobOK, JobType, Created
<1>2. Known(fullName) = Created
  BY DEF Known, Created
<1>3. Len(<<>>) = 0 /\ Place(fullName, j.node) \in Seq(Name) /\ j.way \in Seq(Name)
  BY EmptySeq, PlaceFacts DEF JobType
<1>4. j.way = <<>> => Place(fullName, j.node) \o j.way = Place(fullName, j.node)
  BY <1>3, ConcatEmptySeq
<1>5. CASE Found(j) = j /\ ~(j.at = "owner" /\ j.way = <<>>)
  <2>1. \A i \in 1..Len(j.stack) : FrameOK(j.stack[i], fullName, ended)
    BY <1>1, <1>3
  <2>2. /\ j.at \notin {"clean", "set", "insert", "start", "removing", "subscribing"}
        /\ j.at = "owner" =>
             Len(j.path) > 1 /\ j.way # <<>> /\ Place(fullName, j.node) \o j.way = Front(j.path)
    BY <1>5
  <2>3. JobOK(j, fullName, ended)
    BY ONLY <1>1, <2>1, <2>2 DEF JobOK
  <2> QED
    BY <1>5, <2>3
<1>6. CASE j.way = <<>> /\ j.at = "owner"
  <2>0. j.path \in Path
    BY <1>6, EmptySeq DEF JobType
  <2> DEFINE f == Frame(j.node, {Last(j.path)}, "check")
             o == [j EXCEPT !.at = "removing", !.stack = <<f>>]
  <2>1. Found(j) = o
    BY <1>6 DEF Found
  <2>2. f \in FrameType
    BY <2>0, PathFacts, FrameTypes DEF Stage, JobType
  <2>3. FrameOK(f, fullName, ended)
    BY <1>1 DEF FrameOK, Frame, Holds
  <2> HIDE DEF f
  <2>4. o \in JobType
    BY <2>2, FirstFrames DEF JobType, Where
  <2>5. /\ o.at = "removing" /\ o.stack = <<f>> /\ o.path = j.path /\ o.node = j.node
        /\ o.must = j.must
    BY DEF JobType
  <2> HIDE DEF o
  <2>6. JobOK(o, fullName, ended)
    BY <1>1, <2>0, <2>3, <2>5, PathFacts DEF JobOK
  <2> QED
    BY <2>1, <2>4, <2>5, <2>6
<1>7. CASE j.way = <<>> /\ j.at = "target"
  <2>0. j.path \in Path /\ fullName[j.node] = j.path /\ j.node \in Topic
    BY <1>1, <1>4, <1>7 DEF JobType, Place, Created
  <2>1. CASE j.call.op = "remove" /\ Len(j.path) = 1
    <3> DEFINE g == [Frame(Server, {}, "cancel") EXCEPT !.kid = j.node]
               f == Frame(j.node, Name, "check")
               s == <<g, f>>
               o == [j EXCEPT !.at = "removing", !.target = j.node, !.stack = s]
    <3>1. Found(j) = o
      BY <1>7, <2>1 DEF Found, RemoveFrom
    <3>2. f \in FrameType /\ g \in FrameType
      BY <2>0, FrameTypes DEF Stage
    <3>3. FrameOK(f, fullName, ended) /\ FrameOK(g, fullName, ended)
      BY <1>1, <2>0, <2>1, PathFacts DEF FrameOK, Frame, Holds, Place
    <3> HIDE DEF f, g
    <3>7. /\ s \in Seq(FrameType) /\ s # <<>> /\ Len(s) = 2 /\ s[1] = g /\ s[2] = f
      BY <3>2, FirstFrames
    <3> HIDE DEF s
    <3>4. o \in JobType
      BY <3>7, <2>0 DEF JobType, Where
    <3>8. \A i \in 1..Len(s) : FrameOK(s[i], fullName, ended)
      BY <3>3, <3>7
    <3>5. /\ o.at = "removing" /\ o.stack = s /\ o.path = j.path /\ o.node = j.node
          /\ o.must = j.must
      BY DEF JobType
    <3> HIDE DEF o
    <3>6. JobOK(o, fullName, ended)
      BY ONLY <1>1, <3>5, <3>7, <3>8, <1>7 DEF JobOK
    <3> QED
      BY <3>1, <3>4, <3>5, <3>6
  <2>2. CASE j.call.op = "remove" /\ Len(j.path) # 1
    <3> DEFINE o == [j EXCEPT !.at = "owner", !.target = j.node, !.node = Server,
                              !.way = Front(j.path)]
    <3>1. Found(j) = o
      BY <1>7, <2>2 DEF Found, RemoveFrom
    <3>2. /\ Front(j.path) \in Seq(Name) /\ Len(j.path) > 1 /\ Front(j.path) \in Path
      BY <2>0, <2>2, PathFacts
    <3>3. Front(j.path) # <<>> /\ <<>> \o Front(j.path) = Front(j.path)
      BY <3>2, PathFacts, ConcatEmptySeq
    <3>4. o \in JobType
      BY <3>2, <2>0 DEF JobType, Where
    <3>5. /\ o.at = "owner" /\ o.stack = <<>> /\ o.path = j.path /\ o.node = Server
          /\ o.must = j.must /\ o.way = Front(j.path)
      BY <1>1 DEF JobType
    <3> HIDE DEF o
    <3>6. JobOK(o, fullName, ended)
      BY <1>1, <1>3, <3>2, <3>3, <3>5 DEF JobOK, Place
    <3> QED
      BY <3>1, <3>4, <3>5, <3>6
  <2>3. CASE j.call.op = "subscribe"
    <3> DEFINE f == Frame(j.node, Name, "check")
               m == IF NodeAt(j.path) # j.node THEN {}
                    ELSE {NodeAt(p) : p \in Within(j.path, j.call.depth)} \ {NoTopic}
               s == <<f>>
               o == [j EXCEPT !.at = "subscribing", !.stack = s, !.must = m]
    <3>1. Found(j) = o
      BY <1>7, <2>3 DEF Found
    <3>2. f \in FrameType
      BY <2>0, FrameTypes DEF Stage
    <3>3. FrameOK(f, fullName, ended)
      BY <1>1 DEF FrameOK, Frame, Holds
    <3>4. m \subseteq Created
      BY NodeFacts DEF Within
    <3> HIDE DEF f, m
    <3>5. m \subseteq Topic
      BY <3>4 DEF Created
    <3>9. /\ s \in Seq(FrameType) /\ s # <<>> /\ Len(s) = 1 /\ s[1] = f
      BY <3>2, FirstFrames
    <3> HIDE DEF s
    <3>6. o \in JobType
      BY <3>9, <3>5 DEF JobType, Where
    <3>10. \A i \in 1..Len(s) : FrameOK(s[i], fullName, ended)
      BY <3>3, <3>9
    <3>7. /\ o.at = "subscribing" /\ o.stack = s /\ o.path = j.path /\ o.node = j.node
          /\ o.must = m
      BY DEF JobType
    <3> HIDE DEF o
    <3>8. JobOK(o, fullName, ended)
      BY ONLY <1>1, <1>2, <3>4, <3>7, <3>9, <3>10, <1>7 DEF JobOK
    <3> QED
      BY <3>1, <3>6, <3>7, <3>8
  <2>4. CASE j.call.op \notin {"remove", "subscribe"}
    <3>1. Found(j) = j
      BY <1>7, <2>4 DEF Found
    <3> QED
      BY <3>1, <1>5, <1>7
  <2> QED
    BY <2>1, <2>2, <2>3, <2>4
<1>8. CASE j.way # <<>> \/ j.at \in {"branch", "parent"}
  <2>1. Found(j) = j
    BY Zenon, <1>8 DEF Found
  <2> QED
    BY <2>1, <1>5, <1>8
<1> QED
  BY <1>6, <1>7, <1>8

\* A lookup goes one level down, and what lies ahead of it gets shorter.
LEMMA WalkFacts ==
  ASSUME Typed, Entries, NEW c \in Client, Walk(c),
         kids[job[c].node][Head(job[c].way)] # NoTopic
  PROVE  LET j == job[c]
             k == kids[j.node][Head(j.way)]
             o == [j EXCEPT !.node = k, !.way = Tail(@)]
         IN
         /\ k \in Created /\ k \in Topic
         /\ Place(fullName, k) \o Tail(j.way) = Place(fullName, j.node) \o j.way
         /\ Goes(c, Found(o))
         /\ o \in JobType /\ o.at = j.at /\ o.node = k /\ o.way = Tail(j.way)
         /\ o.path = j.path /\ o.rest = j.rest /\ o.must = j.must /\ o.stack = j.stack
         /\ o.call = j.call
<1> USE Constants
<1> DEFINE j == job[c]
           k == kids[j.node][Head(j.way)]
           o == [j EXCEPT !.node = k, !.way = Tail(@)]
           a == Place(fullName, j.node)
<1>1. /\ j \in JobType /\ JobOK(j, fullName, ended) /\ j.way # <<>> /\ j.way \in Seq(Name)
      /\ k # NoTopic
  BY DEF Typed, TypedJobs, JobType, Walk
<1>2. j.node \in Owner /\ j.node \in Created \cup {Server} /\ a \in Seq(Name)
  BY <1>1, PlaceFacts DEF JobType, JobOK, Known, Created
<1>3. /\ Head(j.way) \in Name /\ Tail(j.way) \in Seq(Name)
      /\ Append(a, Head(j.way)) \o Tail(j.way) = a \o j.way
  <2> DEFINE w == j.way
  <2>1. w \in Seq(Name) /\ w # <<>>
    BY <1>1
  <2> HIDE DEF w, a
  <2>2. Head(w) \in Name /\ Tail(w) \in Seq(Name) /\ Append(a, Head(w)) \o Tail(w) = a \o w
    BY Zenon, <1>2, <2>1, MoveOn
  <2> QED
    BY <2>2 DEF w
<1>4. k \in Created /\ k \in Topic /\ fullName[k] = Append(a, Head(j.way))
  BY Zenon, <1>1, <1>2, <1>3, EntryFacts
<1>5. Place(fullName, k) \o Tail(j.way) = a \o j.way
  BY Zenon, <1>3, <1>4 DEF Place
<1>6. Goes(c, Found(o))
  BY Zenon, <1>1 DEF Walk
<1>7. o \in JobType
  BY Zenon, <1>1, <1>3, <1>4 DEF JobType
<1>8. /\ o.at = j.at /\ o.node = k /\ o.way = Tail(j.way) /\ o.path = j.path
      /\ o.rest = j.rest /\ o.must = j.must /\ o.stack = j.stack /\ o.call = j.call
  BY <1>1 DEF JobType
<1> QED
  BY Zenon, <1>4, <1>5, <1>6, <1>7, <1>8

LEMMA WalksWell ==
  ASSUME Typed, Entries, Later, NEW c \in Client, Walk(c)
  PROVE  GoesWell(c)
<1> USE Constants
<1> DEFINE j == job[c]
           k == kids[j.node][Head(j.way)]
           o == [j EXCEPT !.node = k, !.way = Tail(@)]
           a == Place(fullName, j.node)
<1>1. /\ j \in JobType /\ JobOK(j, fullName, ended) /\ j.way # <<>> /\ j.way \in Seq(Name)
      /\ j.at \in {"branch", "parent", "target", "owner"}
  BY DEF Typed, TypedJobs, JobType, Walk
<1>2. CASE k = NoTopic
  <2>1. Ends(c, "err")
    BY Zenon, <1>2 DEF Walk
  <2> QED
    BY <2>1, EndsWell DEF Typed
<1>3. CASE k # NoTopic
  <2>1. /\ k \in Created /\ Place(fullName, k) \o Tail(j.way) = a \o j.way
        /\ Goes(c, Found(o)) /\ o \in JobType
        /\ o.at = j.at /\ o.node = k /\ o.way = Tail(j.way) /\ o.path = j.path
        /\ o.rest = j.rest /\ o.must = j.must /\ o.stack = j.stack
    BY Zenon, <1>3, WalkFacts
  <2> HIDE DEF o
  <2> DEFINE w == [o EXCEPT !.at = IF o.at = "owner" THEN "idle" ELSE o.at]
  <2>8. /\ w.at = (IF j.at = "owner" THEN "idle" ELSE j.at) /\ w.node = k
        /\ w.way = Tail(j.way) /\ w.path = j.path
        /\ w.rest = j.rest /\ w.must = j.must /\ w.stack = j.stack
    BY Zenon, <2>1 DEF JobType
  <2>9. JobOK(w, fullName, ended)
    <3> HIDE DEF w, j, a
    <3>1. k \in Known(fullName)
      BY Zenon, <2>1 DEF Created, Known
    <3> QED
      BY Zenon, <1>1, <2>1, <2>8, <3>1 DEF JobOK, a
  <2>10. o.at = "owner" => Len(o.path) > 1 /\ Place(fullName, o.node) \o o.way = Front(o.path)
    BY Zenon, <1>1, <2>1 DEF JobOK
  <2>11. Found(o) \in JobType /\ JobOK(Found(o), fullName, ended) /\ Found(o).at # "set"
    BY Zenon, <1>1, <2>1, <2>9, <2>10, FoundOK
  <2>12. JobOK(Found(o), fullName', ended')
    BY <2>11, JobStays DEF Later
  <2> QED
    BY Zenon, <2>1, <2>11, <2>12 DEF GoesWell
<1> QED
  BY <1>2, <1>3

LEMMA BeginsWell ==
  ASSUME Typed, Later, NEW c \in Client, NEW call, Begin(c, call)
  PROVE  GoesWell(c)
<1> USE Constants
<1> DEFINE j == job[c]
           at == CASE call.op = "run" -> "clean"
                   [] call.op = "add" -> "parent"
                   [] call.op = "queue" -> "branch"
                   [] OTHER -> "target"
           way == IF call.op = "add" THEN Front(call.path) ELSE call.path
           calls == j.calls + 1
           o == [j EXCEPT
                   !.calls = calls, !.call = call, !.node = Server, !.path = call.path,
                   !.rest = call.rest, !.must = {}, !.target = NoTopic,
                   !.at = at, !.way = way]
<1>1. j \in JobType /\ JobOK(j, fullName, ended) /\ j.at \in {"idle", "ok", "err"}
  BY DEF Typed, TypedJobs, Begin, Idle
<1>2. call \in Call /\ call \in Request
  <2>1. Calls[c] \in Seq(SUBSET Call)
    BY TreeAssumption
  <2>2. j.calls + 1 \in 1..Len(Calls[c])
    BY SMTT(30), <1>1, <2>1, LenProperties DEF Begin, JobType
  <2>3. Calls[c][j.calls + 1] \in SUBSET Call
    BY <2>1, <2>2, ElementOfSeq
  <2> QED
    BY <2>3 DEF Begin, Call
<1>3. /\ call.path \in Path \cup {<<>>} /\ call.rest \in Seq(Name)
      /\ call.op = "run" => call.path = <<>> /\ call.rest = <<>>
      /\ call.op = "queue" => call.rest # <<>> /\ call.path \o call.rest \in Path
      /\ call.op \notin {"run", "queue"} => call.path # <<>> /\ call.rest = <<>>
      /\ call.op \in {"run", "add", "queue", "remove", "subscribe", "unsubscribe"}
  BY <1>2 DEF Call, Request
<1>4. call.path \in Seq(Name) /\ (call.op = "add" => Front(call.path) \in Seq(Name))
  BY <1>3, PathFacts, EmptySeq
<1>5. Goes(c, o)
  BY DEF Begin
<1>6. /\ call.op = "run" => at = "clean"
      /\ call.op = "add" => at = "parent"
      /\ call.op = "queue" => at = "branch"
      /\ call.op \notin {"run", "add", "queue"} => at = "target"
      /\ call.op = "add" => way = Front(call.path)
      /\ call.op # "add" => way = call.path
      /\ at \in Where /\ way \in Seq(Name)
  BY <1>4 DEF Where
<1> HIDE DEF at, way
<1>7. o \in JobType
  <2>1. calls \in Nat
    BY <1>1 DEF JobType
  <2> HIDE DEF calls
  <2> QED
    BY Zenon, <1>1, <1>2, <1>3, <1>6, <2>1 DEF JobType
<1>10. /\ o.node = Server /\ o.path = call.path /\ o.rest = call.rest /\ o.must = {}
       /\ o.stack = <<>> /\ o.call = call /\ o.at = at /\ o.way = way
  BY <1>1 DEF JobType, JobOK
<1> HIDE DEF o
<1>8. /\ <<>> \o call.path = call.path /\ call.path \o <<>> = call.path /\ Len(<<>>) = 0
      /\ call.op = "add" => <<>> \o Front(call.path) = Front(call.path)
  BY <1>4, ConcatEmptySeq, EmptySeq
<1>9. JobOK(o, fullName', ended')
  <2>1. CASE call.op = "run"
    BY <1>3, <1>6, <1>8, <1>10, <2>1 DEF JobOK, Place
  <2>2. CASE call.op = "add"
    <3>1. call.path \o call.rest \in Path /\ call.path # <<>>
      BY <1>3, <1>8, <2>2
    <3> QED
      BY <3>1, <1>6, <1>8, <1>10, <2>2 DEF JobOK, Place
  <2>3. CASE call.op = "queue"
    BY <1>3, <1>6, <1>8, <1>10, <2>3 DEF JobOK, Place
  <2>4. CASE call.op \notin {"run", "add", "queue"}
    BY <1>3, <1>6, <1>8, <1>10, <2>4 DEF JobOK, Place
  <2> QED
    BY <2>1, <2>2, <2>3, <2>4
<1>11. o.at # "set"
  BY <1>6, <1>10, <1>3
<1> QED
  BY <1>5, <1>7, <1>9, <1>11 DEF GoesWell

LEMMA RunGoesWell ==
  ASSUME Typed, Later, NEW c \in Client, RunClean(c) \/ RunSet(c)
  PROVE  GoesWell(c)
<1> USE Constants
<1> DEFINE j == job[c]
<1>1. j \in JobType /\ JobOK(j, fullName, ended) /\ runs \in Nat
  BY DEF Typed, TypedJobs, TypedVars
<1>2. JobOK(j, fullName', ended')
  BY <1>1, JobStays DEF Later
<1>3. CASE RunClean(c)
  <2> DEFINE run == runs + 1
             o == [j EXCEPT !.at = "set", !.run = run]
  <2>1. Goes(c, o) /\ j.at = "clean" /\ runs' = run /\ run \in Nat /\ run \in 1..run
    BY <1>1, <1>3 DEF RunClean, At
  <2> HIDE DEF run
  <2>2. o \in JobType
    BY <1>1, <2>1 DEF JobType, Where
  <2>3. /\ o.at = "set" /\ o.run = run /\ o.node = j.node /\ o.path = j.path
        /\ o.way = j.way /\ o.must = j.must /\ o.stack = j.stack /\ o.call = j.call
    BY <1>1 DEF JobType
  <2> HIDE DEF o
  <2>4. JobOK(o, fullName', ended')
    BY <1>2, <2>1, <2>3 DEF JobOK
  <2>5. o.run \in 1..runs'
    BY <2>1, <2>3, <1>1
  <2> QED
    BY <2>1, <2>2, <2>4, <2>5 DEF GoesWell
<1>4. CASE RunSet(c)
  <2> DEFINE o == [j EXCEPT !.at = "branch", !.rest = <<Default>>, !.run = 0]
  <2>1. Goes(c, o) /\ j.at = "set"
    BY <1>4 DEF RunSet, At
  <2>2. <<Default>> \in Seq(Name) /\ <<Default>> # <<>> /\ <<>> \o <<Default>> = <<Default>>
    BY ConcatEmptySeq, FirstFrames
  <2>3. o \in JobType
    BY <1>1, <2>2 DEF JobType, Where
  <2>4. /\ o.at = "branch" /\ o.rest = <<Default>> /\ o.node = j.node /\ o.path = j.path
        /\ o.way = j.way /\ o.must = j.must /\ o.stack = j.stack /\ o.call = j.call
    BY <1>1 DEF JobType
  <2> HIDE DEF o
  <2>5. JobOK(o, fullName', ended')
    BY <1>2, <2>1, <2>2, <2>4 DEF JobOK
  <2> QED
    BY <2>1, <2>3, <2>4, <2>5 DEF GoesWell
<1> QED
  BY <1>3, <1>4

LEMMA QueueGoesWell ==
  ASSUME Typed, Later, NEW c \in Client, NextInQueue(c)
  PROVE  GoesWell(c)
<1> USE Constants
<1> DEFINE j == job[c]
           path == Append(j.path, Head(j.rest))
           way == Front(path)
           rest == Tail(j.rest)
           o == [j EXCEPT !.at = "parent", !.path = path, !.way = way, !.rest = rest,
                          !.node = Server]
<1>1. /\ j \in JobType /\ JobOK(j, fullName, ended) /\ j.at = "branch" /\ j.rest # <<>>
      /\ j.path \o j.rest \in Path /\ j.rest \in Seq(Name) /\ j.path \in Path \cup {<<>>}
      /\ j.stack = <<>> /\ j.must \subseteq Known(fullName)
  BY DEF Typed, TypedJobs, NextInQueue, Arrived, At, JobOK, JobType
<1>2. CASE ~runned
  <2>1. Ends(c, "err")
    BY <1>2 DEF NextInQueue
  <2> QED
    BY <2>1, EndsWell DEF Typed
<1>3. CASE runned
  <2>1. j.path \in Seq(Name)
    BY <1>1, PathFacts, EmptySeq
  <2>2. /\ Head(j.rest) \in Name /\ rest \in Seq(Name) /\ path \in Seq(Name)
        /\ path \o rest = j.path \o j.rest
    <3> DEFINE a == j.path
               w == j.rest
    <3>1. a \in Seq(Name) /\ w \in Seq(Name) /\ w # <<>>
      BY <1>1, <2>1
    <3> HIDE DEF a, w
    <3>2. /\ Head(w) \in Name /\ Tail(w) \in Seq(Name) /\ Append(a, Head(w)) \in Seq(Name)
          /\ Append(a, Head(w)) \o Tail(w) = a \o w
      BY <3>1, MoveOn
    <3> QED
      BY <3>2 DEF a, w
  <2>3. path # <<>>
    BY <2>1, <2>2, AppendProperties
  <2>4. Goes(c, o)
    BY <1>3 DEF NextInQueue
  <2> HIDE DEF path, rest
  <2>5. path \o rest \in Path
    BY <2>2, <1>1
  <2>6. path \in Path
    BY <2>2, <2>3, <2>5, PrefixIsPath
  <2>7. way \in Seq(Name) /\ <<>> \o way = way
    BY <2>6, PathFacts, ConcatEmptySeq
  <2> HIDE DEF way
  <2>8. o \in JobType
    BY <1>1, <2>2, <2>6, <2>7 DEF JobType, Where
  <2>9. /\ o.at = "parent" /\ o.path = path /\ o.way = way /\ o.rest = rest
        /\ o.node = Server /\ o.stack = <<>> /\ o.must = j.must
    BY <1>1 DEF JobType
  <2> HIDE DEF o
  <2>10. Known(fullName) \subseteq Known(fullName') /\ Len(<<>>) = 0
    BY EmptySeq DEF Later, Grows, Known
  <2>11. JobOK(o, fullName', ended')
    BY <1>1, <2>3, <2>5, <2>7, <2>9, <2>10 DEF JobOK, Place, way
  <2> QED
    BY <2>4, <2>8, <2>9, <2>11 DEF GoesWell
<1> QED
  BY <1>2, <1>3

\* The number of the next topic.
LEMMA NewTopic ==
  ASSUME TypedVars
  PROVE  LET n == Cardinality(Created) + 1 IN
         /\ n \in Nat /\ Created = 1..(n - 1) /\ n \notin Created
         /\ \A m \in Created : m < n
<1> USE Constants
<1>1. PICK m \in 0..MaxTopics : Created = 1..m
  BY DEF TypedVars
<1>2. Cardinality(Created) = m
  <2>1. Cardinality(1..m) = IF 1 > m THEN 0 ELSE m - 1 + 1
    BY FS_Interval
  <2> QED
    BY <1>1, <2>1
<1> HIDE DEF Created
<1> QED
  BY <1>1, <1>2

\* A job that goes on with the next name, or is over.
LEMMA AddedOK ==
  ASSUME NEW nm, NEW en, NEW j \in JobType, JobOK(j, nm, en), NEW c, job[c] = j,
         j.at \in {"insert", "start"}
  PROVE  Added(c) \in JobType /\ JobOK(Added(c), nm, en) /\ Added(c).at # "set"
<1>1. CASE j.rest = <<>>
  <2>1. Added(c) = Over(j, "ok")
    BY <1>1 DEF Added
  <2>2. Over(j, "ok").at = "ok"
    BY DEF Over, JobType
  <2> QED
    BY <2>1, <2>2, OverOK
<1>2. CASE j.rest # <<>>
  <2> DEFINE o == [j EXCEPT !.at = "branch", !.way = <<>>]
  <2>1. Added(c) = o
    BY <1>2 DEF Added
  <2>2. o \in JobType
    BY EmptySeq DEF JobType, Where
  <2>3. /\ o.at = "branch" /\ o.path = j.path /\ o.way = <<>> /\ o.rest = j.rest
        /\ o.node = j.node /\ o.stack = j.stack /\ o.must = j.must
    BY DEF JobType
  <2> HIDE DEF o
  <2>4. JobOK(o, nm, en)
    BY <1>2, <2>3 DEF JobOK
  <2> QED
    BY <2>1, <2>2, <2>3, <2>4
<1> QED
  BY <1>1, <1>2

LEMMA AddGoesWell ==
  ASSUME Typed, Later, NEW c \in Client, AddCheck(c) \/ Insert(c) \/ StartTopic(c)
  PROVE  GoesWell(c)
<1> USE Constants
<1> DEFINE j == job[c]
<1>1. j \in JobType /\ JobOK(j, fullName, ended)
  BY DEF Typed, TypedJobs
<1>2. JobOK(j, fullName', ended')
  BY <1>1, JobStays DEF Later
<1>3. CASE AddCheck(c)
  <2> DEFINE o == [j EXCEPT !.at = "insert"]
  <2>1. Ends(c, "err") \/ Goes(c, o)
    BY <1>3 DEF AddCheck, Moves
  <2>2. o \in JobType
    BY <1>1 DEF JobType, Where
  <2>3. /\ o.at = "insert" /\ o.path = j.path /\ o.way = j.way /\ o.rest = j.rest
        /\ o.node = j.node /\ o.stack = j.stack /\ o.must = j.must
        /\ j.at = "parent" /\ j.way = <<>>
    BY <1>1, <1>3 DEF JobType, AddCheck, Arrived, At
  <2> HIDE DEF o
  <2>4. JobOK(o, fullName', ended')
    BY <1>2, <2>3 DEF JobOK
  <2> QED
    BY <2>1, <2>2, <2>3, <2>4, EndsWell DEF GoesWell, Typed
<1>4. CASE Insert(c)
  <2> DEFINE n == Cardinality(Created) + 1
             o == [j EXCEPT !.at = "start", !.target = n]
  <2>1. /\ n \in Topic /\ j.at = "insert"
        /\ Goes(c, IF j.node = Server \/ j.node \in live THEN o ELSE Added(c))
        /\ fullName' = [fullName EXCEPT ![n] = j.path]
    BY <1>4 DEF Insert, At
  <2>6. j.path # <<>> /\ fullName \in [Topic -> Path \cup {<<>>}]
    BY <1>1, <2>1 DEF JobOK, Typed, TypedVars
  <2> HIDE DEF n
  <2>2. o \in JobType
    BY <1>1, <2>1 DEF JobType, Where
  <2>3. /\ o.at = "start" /\ o.path = j.path /\ o.way = j.way /\ o.rest = j.rest
        /\ o.node = j.node /\ o.stack = j.stack /\ o.must = j.must /\ o.target = n
    BY <1>1 DEF JobType
  <2> HIDE DEF o
  <2>7. n \in Known(fullName')
    BY <2>1, <2>6 DEF Known
  <2>4. JobOK(o, fullName', ended')
    BY <1>2, <2>1, <2>3, <2>7 DEF JobOK
  <2>5. Added(c) \in JobType /\ JobOK(Added(c), fullName', ended') /\ Added(c).at # "set"
    BY <1>1, <1>2, <2>1, AddedOK
  <2> QED
    BY <2>1, <2>2, <2>3, <2>4, <2>5 DEF GoesWell
<1>5. CASE StartTopic(c)
  <2>1. j.at = "start" /\ Goes(c, Added(c))
    BY <1>5 DEF StartTopic, At
  <2>2. Added(c) \in JobType /\ JobOK(Added(c), fullName', ended') /\ Added(c).at # "set"
    BY <1>1, <1>2, <2>1, AddedOK
  <2> QED
    BY <2>1, <2>2 DEF GoesWell
<1> QED
  BY <1>3, <1>4, <1>5

LEMMA RemoveGoesWell ==
  ASSUME Typed, Entries, Later, NEW c \in Client,
         \/ RemoveCheck(c) \/ RemoveDescend(c) \/ RemoveReturns(c)
         \/ RemoveCancel(c) \/ RemoveDelete(c)
  PROVE  GoesWell(c) \/ UNCHANGED job
<1> USE Constants
<1> DEFINE f == Top(c)
<1>1. /\ job[c].at \in {"removing", "subscribing"} /\ f \in FrameType
      /\ FrameOK(f, fullName, ended) /\ TypedJobs
  <2>1. job[c].at \in {"removing", "subscribing"}
    BY Zenon DEF RemoveCheck, RemoveDescend, RemoveReturns, RemoveCancel, RemoveDelete, At
  <2> QED
    BY Zenon, <2>1, TopFacts DEF Typed
<1>2. /\ Known(fullName) \subseteq Known(fullName') /\ ended \subseteq ended'
      /\ f.node \in Known(fullName) \cup {Server}
      /\ \A n \in Known(fullName) : fullName'[n] = fullName[n]
      /\ Place(fullName', f.node) = Place(fullName, f.node)
  BY <1>1 DEF Later, Grows, Known, FrameOK, Place
<1>3. CASE RemoveCheck(c)
  <2> DEFINE must == f.names \cap Kids(f.node)
             t == [f EXCEPT !.at = "range", !.must = must]
  <2>1. Replace(c, t) \/ Ends(c, "err") \/ UNCHANGED job
    BY <1>3 DEF RemoveCheck, Panic
  <2>2. f.at = "check"
    BY <1>3 DEF RemoveCheck
  <2>3. must \in SUBSET Name
    BY DEF Kids
  <2> HIDE DEF must
  <2>4. t \in FrameType /\ t.node = f.node /\ t.at = "range"
    BY <1>1, <2>3 DEF FrameType, Stage
  <2> HIDE DEF t
  <2>5. FrameOK(t, fullName', ended')
    BY <1>1, <1>2, <2>2, <2>4 DEF FrameOK, Holds
  <2> QED
    BY <1>1, <2>1, <2>4, <2>5, ReplacesWell, EndsWell
<1>4. CASE RemoveDescend(c)
  <2>1. PICK x \in f.names \cap Kids(f.node) :
          Push(c, [f EXCEPT !.at = "cancel", !.kid = kids[f.node][x], !.must = @ \ {x}],
               Frame(kids[f.node][x], Name, "check"))
    BY Zenon, <1>4 DEF RemoveDescend
  <2> DEFINE k == kids[f.node][x]
             must == f.must \ {x}
             t == [f EXCEPT !.at = "cancel", !.kid = k, !.must = must]
             g == Frame(k, Name, "check")
  <2>2. f.at = "range" /\ x \in Name /\ k # NoTopic
    BY Zenon, <1>4, <2>1 DEF RemoveDescend, Kids
  <2>3. f.node \in Owner /\ k \in Created /\ k \in Topic
        /\ Front(fullName[k]) = Place(fullName, f.node)
    BY <1>1, <2>2, EntryFacts DEF FrameType
  <2>4. must \in SUBSET Name /\ Push(c, t, g)
    BY <1>1, <2>1 DEF FrameType
  <2>5. k \in Known(fullName)
    BY <2>3 DEF Created, Known
  <2> HIDE DEF k, must
  <2>6. t \in FrameType /\ t.node = f.node /\ t.at = "cancel" /\ t.kid = k
    BY <1>1, <2>3, <2>4 DEF FrameType, Stage
  <2>7. g \in FrameType /\ g.node = k /\ g.at = "check"
    BY <2>3 DEF FrameType, Stage, Frame
  <2> HIDE DEF t, g
  <2>8. FrameOK(t, fullName', ended')
    BY <1>1, <1>2, <2>3, <2>5, <2>6 DEF FrameOK, Holds
  <2>9. FrameOK(g, fullName', ended')
    BY <1>2, <2>3, <2>5, <2>7 DEF FrameOK, Holds
  <2> QED
    BY <1>1, <2>4, <2>6, <2>7, <2>8, <2>9, ReplacesWell
<1>5. CASE RemoveReturns(c)
  BY <1>1, <1>5, PopsWell DEF RemoveReturns
<1>6. CASE RemoveCancel(c)
  <2> DEFINE t == [f EXCEPT !.at = "delete"]
  <2>1. UNCHANGED job \/ (Replace(c, t) /\ ended' = ended \cup {f.kid})
    BY <1>6 DEF RemoveCancel, Panic
  <2>2. f.at = "cancel"
    BY <1>6 DEF RemoveCancel
  <2>3. t \in FrameType /\ t.node = f.node /\ t.at = "delete" /\ t.kid = f.kid
    BY <1>1 DEF FrameType, Stage
  <2> HIDE DEF t
  <2>4. ended' = ended \cup {f.kid} => FrameOK(t, fullName', ended')
    BY <1>1, <1>2, <2>2, <2>3 DEF FrameOK, Holds
  <2> QED
    BY <1>1, <2>1, <2>3, <2>4, ReplacesWell
<1>7. CASE RemoveDelete(c)
  <2> DEFINE t == [f EXCEPT !.at = "range"]
  <2>1. IF f.node = Server THEN Ends(c, "ok") ELSE Replace(c, t)
    BY <1>7 DEF RemoveDelete
  <2>2. t \in FrameType /\ t.node = f.node /\ t.at = "range"
    BY <1>1 DEF FrameType, Stage
  <2> HIDE DEF t
  <2>3. f.node # Server => FrameOK(t, fullName', ended')
    BY <1>1, <1>2, <2>2 DEF FrameOK, Holds
  <2> QED
    BY <1>1, <2>1, <2>2, <2>3, ReplacesWell, EndsWell
<1> QED
  BY <1>3, <1>4, <1>5, <1>6, <1>7

LEMMA SubscribeGoesWell ==
  ASSUME Typed, Entries, Later, NEW c \in Client,
         \/ SubscribeOne(c) \/ SubscribeDescend(c) \/ SubscribeReturns(c) \/ Unsubscribe(c)
  PROVE  GoesWell(c)
<1> USE Constants
<1> DEFINE f == Top(c)
<1>0. CASE Unsubscribe(c)
  <2>1. Ends(c, "ok") \/ Ends(c, "err")
    BY <1>0 DEF Unsubscribe
  <2> QED
    BY <2>1, EndsWell DEF Typed
<1> SUFFICES ASSUME ~Unsubscribe(c) PROVE GoesWell(c)
  BY <1>0
<1>1. /\ job[c].at \in {"removing", "subscribing"} /\ f \in FrameType
      /\ FrameOK(f, fullName, ended) /\ TypedJobs
  <2>1. job[c].at \in {"removing", "subscribing"}
    BY DEF SubscribeOne, SubscribeDescend, SubscribeReturns, At
  <2> QED
    BY <2>1, TopFacts DEF Typed
<1>2. /\ Known(fullName) \subseteq Known(fullName') /\ ended \subseteq ended'
      /\ f.node \in Known(fullName) \cup {Server}
      /\ \A n \in Known(fullName) : fullName'[n] = fullName[n]
      /\ Place(fullName', f.node) = Place(fullName, f.node)
  BY <1>1 DEF Later, Grows, Known, FrameOK, Place
<1>3. CASE SubscribeOne(c)
  <2> DEFINE must == Kids(f.node)
             t == [f EXCEPT !.at = "range", !.must = must]
  <2>1. Replace(c, t) \/ Ends(c, "err") \/ Pop(c)
    BY <1>3 DEF SubscribeOne
  <2>2. f.at = "check"
    BY <1>3 DEF SubscribeOne
  <2>3. must \in SUBSET Name
    BY DEF Kids
  <2> HIDE DEF must
  <2>4. t \in FrameType /\ t.node = f.node /\ t.at = "range"
    BY <1>1, <2>3 DEF FrameType, Stage
  <2> HIDE DEF t
  <2>5. FrameOK(t, fullName', ended')
    BY <1>1, <1>2, <2>2, <2>4 DEF FrameOK, Holds
  <2> QED
    BY <1>1, <2>1, <2>4, <2>5, ReplacesWell, EndsWell, PopsWell
<1>4. CASE SubscribeDescend(c)
  <2>1. PICK x \in f.names \cap Kids(f.node) :
          Push(c, [f EXCEPT !.names = @ \ {x}], Frame(kids[f.node][x], Name, "check"))
    BY <1>4 DEF SubscribeDescend
  <2> DEFINE k == kids[f.node][x]
             names == f.names \ {x}
             t == [f EXCEPT !.names = names]
             g == Frame(k, Name, "check")
  <2>2. f.at = "range" /\ x \in Name /\ k # NoTopic
    BY <1>4, <2>1 DEF SubscribeDescend, Kids
  <2>3. f.node \in Owner /\ k \in Created /\ k \in Topic
    BY <1>1, <2>2, EntryFacts DEF FrameType
  <2>4. names \in SUBSET Name /\ Push(c, t, g)
    BY <1>1, <2>1 DEF FrameType
  <2>5. k \in Known(fullName)
    BY <2>3 DEF Created, Known
  <2> HIDE DEF k, names
  <2>6. t \in FrameType /\ t.node = f.node /\ t.at = f.at /\ t.kid = f.kid
    BY <1>1, <2>3, <2>4 DEF FrameType, Stage
  <2>7. g \in FrameType /\ g.node = k /\ g.at = "check"
    BY <2>3 DEF FrameType, Stage, Frame
  <2> HIDE DEF t, g
  <2>8. FrameOK(t, fullName', ended')
    BY <1>1, <1>2, <2>2, <2>6 DEF FrameOK, Holds
  <2>9. FrameOK(g, fullName', ended')
    BY <1>2, <2>3, <2>5, <2>7 DEF FrameOK, Holds
  <2> QED
    BY <1>1, <2>4, <2>6, <2>7, <2>8, <2>9, ReplacesWell
<1>5. CASE SubscribeReturns(c)
  BY <1>1, <1>5, PopsWell DEF SubscribeReturns
<1> QED
  BY <1>3, <1>4, <1>5

LEMMA JobsGoWell ==
  ASSUME Typed, Entries, Later, [Next]_vars
  PROVE  TypedJobs'
<1>1. ASSUME NEW c \in Client, Step(c) PROVE GoesWell(c) \/ UNCHANGED job
  BY <1>1, WalksWell, RunGoesWell, QueueGoesWell, AddGoesWell, RemoveGoesWell,
     SubscribeGoesWell DEF Step
<1>2. UNCHANGED job \/ \E c \in Client : GoesWell(c)
  BY <1>1, BeginsWell DEF Next, RangeMeetsWrite, Panic, Cancel, StopperFires, LoopEnds, vars
<1> QED
  BY <1>2, JobsStay DEF Typed

\* What any step does to the names of topics, to contexts and to runs.
LEMMA StepsLater ==
  ASSUME Typed, [Next]_vars
  PROVE  Later
<1> USE Constants
<1>1. runs \in Nat /\ fullName \in [Topic -> Path \cup {<<>>}]
  BY DEF Typed, TypedVars
<1>2. ASSUME NEW c \in Client, Insert(c) PROVE Later
  <2> DEFINE n == Cardinality(Created) + 1
  <2>1. n \in Topic /\ fullName[n] = <<>>
    <3>1. n \notin Created
      BY NewTopic DEF Typed
    <3> QED
      BY <1>2, <3>1 DEF Insert, Created
  <2>2. /\ fullName' = [fullName EXCEPT ![n] = job[c].path]
        /\ UNCHANGED <<ended, runs>>
    BY <1>2 DEF Insert, server
  <2> HIDE DEF n
  <2> QED
    BY <1>1, <2>1, <2>2 DEF Later, Grows
<1>3. ASSUME UNCHANGED fullName, ended \subseteq ended', runs' = runs \/ runs' = runs + 1
      PROVE  Later
  BY <1>1, <1>3 DEF Later, Grows
<1>4. ASSUME NEW c \in Client, Step(c), ~Insert(c)
      PROVE  UNCHANGED fullName /\ ended \subseteq ended' /\ (runs' = runs \/ runs' = runs + 1)
  <2> USE DEF server, topics, Panic
  <2>1. CASE Walk(c) \/ RunClean(c) \/ RunSet(c) \/ NextInQueue(c) \/ AddCheck(c) \/ StartTopic(c)
    BY Zenon, <2>1 DEF Walk, RunClean, RunSet, NextInQueue, AddCheck, StartTopic
  <2>2. CASE \/ RemoveCheck(c) \/ RemoveDescend(c) \/ RemoveReturns(c)
             \/ RemoveCancel(c) \/ RemoveDelete(c)
    BY Zenon, <2>2 DEF RemoveCheck, RemoveDescend, RemoveReturns, RemoveCancel, RemoveDelete
  <2>3. CASE \/ SubscribeOne(c) \/ SubscribeDescend(c) \/ SubscribeReturns(c) \/ Unsubscribe(c)
    BY Zenon, <2>3 DEF SubscribeOne, SubscribeDescend, SubscribeReturns, Unsubscribe
  <2> QED
    BY <1>4, <2>1, <2>2, <2>3 DEF Step
<1>5. CASE \/ UNCHANGED vars \/ \E c, d \in Client : RangeMeetsWrite(c, d)
           \/ \E r \in 1..MaxRuns : Cancel(r) \/ StopperFires(r)
           \/ \E n \in Topic : LoopEnds(n)
           \/ \E c \in Client : \E call \in UNION Range(Calls[c]) : Begin(c, call)
  BY Zenon, <1>3, <1>5 DEF vars, server, topics, RangeMeetsWrite, Panic, Cancel, StopperFires,
     LoopEnds, Begin
<1> QED
  BY <1>2, <1>3, <1>4, <1>5 DEF Next

-----------------------------------------------------------------------------
(* Which step changes what.                                                *)

\* The steps after which every variable but job and crashed has its value.
LEMMA Quiet ==
  ASSUME [Next]_vars
  PROVE  \/ UNCHANGED <<server, topics>>
         \/ \E c \in Client :
              \/ RunClean(c) \/ RunSet(c) \/ Insert(c) \/ StartTopic(c)
              \/ RemoveCancel(c) \/ RemoveDelete(c) \/ SubscribeOne(c) \/ Unsubscribe(c)
         \/ \E r \in 1..MaxRuns : Cancel(r) \/ StopperFires(r)
         \/ \E n \in Topic : LoopEnds(n)
<1>1. CASE UNCHANGED vars
  BY <1>1 DEF vars
<1>2. ASSUME NEW c \in Client, Step(c)
      PROVE  \/ UNCHANGED <<server, topics>>
             \/ RunClean(c) \/ RunSet(c) \/ Insert(c) \/ StartTopic(c)
             \/ RemoveCancel(c) \/ RemoveDelete(c) \/ SubscribeOne(c) \/ Unsubscribe(c)
  <2>1. Walk(c) \/ NextInQueue(c) \/ AddCheck(c) => UNCHANGED <<server, topics>>
    BY DEF Walk, NextInQueue, AddCheck
  <2>2. RemoveCheck(c) => UNCHANGED <<server, topics>>
    BY DEF RemoveCheck, Panic
  <2>3. RemoveDescend(c) \/ RemoveReturns(c) => UNCHANGED <<server, topics>>
    BY Zenon DEF RemoveDescend, RemoveReturns
  <2>4. SubscribeDescend(c) \/ SubscribeReturns(c) => UNCHANGED <<server, topics>>
    BY DEF SubscribeDescend, SubscribeReturns
  <2> QED
    BY <1>2, <2>1, <2>2, <2>3, <2>4 DEF Step
<1>3. ASSUME NEW c \in Client, NEW call, Begin(c, call) PROVE UNCHANGED <<server, topics>>
  BY <1>3 DEF Begin
<1>4. ASSUME NEW c \in Client, NEW d \in Client, RangeMeetsWrite(c, d)
      PROVE  UNCHANGED <<server, topics>>
  BY <1>4 DEF RangeMeetsWrite, Panic
<1> QED
  BY <1>1, <1>2, <1>3, <1>4 DEF Next

LEMMA VarsStay ==
  ASSUME Typed, Later, [Next]_vars
  PROVE  TypedVars'
<1> USE Constants
<1>1. TypedVars /\ runs \in Nat /\ runs' \in Nat
  <2>1. TypedVars /\ runs' \in Nat
    BY DEF Typed, Later
  <2>2. runs \in 0..MaxRuns
    BY <2>1 DEF TypedVars
  <2> QED
    BY <2>1, <2>2
<1> USE DEF server, topics
<1>2. crashed' \in BOOLEAN
  <2>1. crashed \in BOOLEAN
    BY <1>1 DEF TypedVars
  <2>2. crashed' = crashed \/ crashed' = TRUE
    <3>1. ASSUME NEW c \in Client, Step(c) PROVE UNCHANGED crashed \/ Panic
      BY Zenon, <3>1 DEF Step, Walk, RunClean, RunSet, NextInQueue, AddCheck, Insert,
         StartTopic,
         RemoveCheck, RemoveDescend, RemoveReturns, RemoveCancel, RemoveDelete,
         SubscribeOne, SubscribeDescend, SubscribeReturns, Unsubscribe
    <3>2. ASSUME NEW c \in Client, NEW call, Begin(c, call) PROVE UNCHANGED crashed
      BY <3>2 DEF Begin
    <3>3. ASSUME NEW r, Cancel(r) \/ StopperFires(r) \/ LoopEnds(r) PROVE UNCHANGED crashed
      BY <3>3 DEF Cancel, StopperFires, LoopEnds
    <3> QED
      BY Zenon, <3>1, <3>2, <3>3 DEF Next, vars, RangeMeetsWrite, Panic
  <2> QED
    BY <2>1, <2>2
<1>3. CASE UNCHANGED <<server, topics>>
  BY <1>1, <1>2, <1>3 DEF TypedVars, Created
<1>4. ASSUME NEW c \in Client, RunClean(c) PROVE TypedVars'
  <2>1. /\ runs < MaxRuns /\ runs' = runs + 1 /\ stoppers' = stoppers \cup {runs + 1}
        /\ UNCHANGED <<runned, ctx, ended, fullName, line, live, subs>>
    BY <1>4 DEF RunClean
  <2>2. kids' \in [Owner -> [Name -> Created \cup {NoTopic}]]
    BY <1>1, <1>4 DEF RunClean, TypedVars
  <2>3. runs' \in 0..MaxRuns /\ 1..runs \subseteq 1..runs' /\ 0..runs \subseteq 0..runs'
        /\ runs + 1 \in 1..runs'
    BY <1>1, <2>1
  <2>4. \E m \in 0..MaxTopics : Created = 1..m
    BY <1>1 DEF TypedVars
  <2> DEFINE K == {RunContext(r) : r \in 1..runs}
             L == {RunContext(r) : r \in 1..runs'}
  <2>5. K \subseteq L
    BY <2>3
  <2>6. ended \subseteq Topic \cup K /\ line \in [Topic -> SUBSET (Topic \cup K)]
    BY <1>1 DEF TypedVars
  <2> HIDE DEF K, L
  <2>7. ended \subseteq Topic \cup L /\ line \in [Topic -> SUBSET (Topic \cup L)]
    BY <2>5, <2>6
  <2>8. ended' \subseteq Topic \cup L /\ line' \in [Topic -> SUBSET (Topic \cup L)]
    BY <2>1, <2>7
  <2>9. Created' = Created
    BY <2>1 DEF Created
  <2>10. /\ runned' \in BOOLEAN /\ ctx' \in 0..runs' /\ stoppers' \subseteq 1..runs'
         /\ fullName' \in [Topic -> Path \cup {<<>>}] /\ subs' \in [Topic -> SUBSET Client]
         /\ runned' => ctx' # 0
         /\ live' \subseteq {n \in Created' : n \in line'[n]}
    BY <1>1, <2>1, <2>3, <2>9 DEF TypedVars
  <2> QED
    BY <1>2, <2>2, <2>3, <2>4, <2>8, <2>9, <2>10 DEF TypedVars, L
<1>5. ASSUME NEW c \in Client, RunSet(c) PROVE TypedVars'
  <2>1. runned' = TRUE /\ ctx' = job[c].run /\ UNCHANGED <<runs, stoppers, topics>> /\ At(c, "set")
    BY <1>5 DEF RunSet
  <2>2. job[c].run \in 1..runs
    BY <2>1 DEF Typed, TypedJobs
  <2>3. ctx' \in 0..runs' /\ ctx' # 0 /\ Created' = Created
    BY <1>1, <2>1, <2>2 DEF Created
  <2> QED
    BY <1>1, <1>2, <2>1, <2>3 DEF TypedVars
<1>6. ASSUME NEW c \in Client, Insert(c) PROVE TypedVars'
  <2> DEFINE n == Cardinality(Created) + 1
             j == job[c]
             x == Last(j.path)
  <2>1. /\ n \in Topic /\ j.at = "insert"
        /\ kids' = [kids EXCEPT ![j.node][x] = n]
        /\ fullName' = [fullName EXCEPT ![n] = j.path]
        /\ UNCHANGED <<server, ended, line, live, subs>>
    BY <1>6 DEF Insert, At
  <2>2. n \in Nat /\ Created = 1..(n - 1)
    BY <1>1, NewTopic
  <2> HIDE DEF n
  <2>3. j \in JobType /\ j.path \in Path
    <3>1. j \in JobType /\ JobOK(j, fullName, ended)
      BY DEF Typed, TypedJobs
    <3> QED
      BY <3>1, <2>1 DEF JobType, JobOK
  <2>4. j.path # <<>> /\ x \in Name
    BY <2>3, PathFacts
  <2>5. Created' = Created \cup {n}
    BY <1>1, <2>1, <2>4 DEF Created, TypedVars
  <2>6. n \in 0..MaxTopics /\ Created' = 1..n
    <3>1. n \in 1..MaxTopics
      BY <2>1 DEF Topic
    <3>2. (1..(n - 1)) \cup {n} = 1..n
      BY <2>2, <3>1
    <3> QED
      BY <2>2, <2>5, <3>1, <3>2
  <2>7. kids' \in [Owner -> [Name -> Created' \cup {NoTopic}]]
    <3>1. j.node \in Owner
      BY <2>3 DEF JobType
    <3>2. kids \in [Owner -> [Name -> Created' \cup {NoTopic}]]
      <4>1. kids \in [Owner -> [Name -> Created \cup {NoTopic}]]
        BY <1>1 DEF TypedVars
      <4>2. \A u \in Owner : kids[u] \in [Name -> Created' \cup {NoTopic}]
        BY <4>1, <2>5
      <4> QED
        BY <4>1, <4>2
    <3>3. n \in Created'
      BY <2>5
    <3> HIDE DEF x, Created
    <3> QED
      BY <2>1, <2>4, <3>1, <3>2, <3>3
  <2>8. fullName' \in [Topic -> Path \cup {<<>>}]
    BY <1>1, <2>1, <2>3 DEF TypedVars
  <2>9. live' \subseteq {m \in Created' : m \in line'[m]}
    BY <1>1, <2>1, <2>5 DEF TypedVars
  <2> HIDE DEF Created
  <2>10. /\ {runned', crashed'} \subseteq BOOLEAN /\ runs' \in 0..MaxRuns /\ ctx' \in 0..runs'
         /\ stoppers' \subseteq 1..runs'
         /\ runned' => ctx' # 0
         /\ subs' \in [Topic -> SUBSET Client]
         /\ ended' \subseteq Topic \cup {RunContext(r) : r \in 1..runs'}
         /\ line' \in [Topic -> SUBSET (Topic \cup {RunContext(r) : r \in 1..runs'})]
    BY <1>1, <1>2, <2>1 DEF TypedVars
  <2>11. \E m \in 0..MaxTopics : Created' = 1..m
    BY <2>6
  <2> QED
    BY ONLY <2>7, <2>8, <2>9, <2>10, <2>11 DEF TypedVars
<1>7. ASSUME NEW c \in Client, StartTopic(c) PROVE TypedVars'
  <2> DEFINE n == job[c].target
             up == job[c].node
             starts == up # Server \/ runned
             l == {n} \cup IF up = Server THEN {RunContext(ctx)} ELSE line[up]
  <2>1. /\ At(c, "start")
        /\ live' = IF starts THEN live \cup {n} ELSE live
        /\ line' = IF starts THEN [line EXCEPT ![n] = l] ELSE line
        /\ UNCHANGED <<server, ended, kids, fullName, subs>>
    BY <1>7 DEF StartTopic
  <2>2. n \in Topic /\ n \in Created /\ up \in Owner
    <3>1. job[c] \in JobType /\ JobOK(job[c], fullName, ended)
      BY DEF Typed, TypedJobs
    <3> QED
      BY <3>1, <2>1 DEF JobType, JobOK, At, Known, Created
  <2>3. Created' = Created
    BY <2>1 DEF Created
  <2> DEFINE C == Topic \cup {RunContext(r) : r \in 1..runs}
  <2>4. starts => l \in SUBSET C
    <3>1. CASE up = Server
      <4>1. runned => ctx \in 1..runs
        BY <1>1 DEF TypedVars
      <4> QED
        BY <3>1, <4>1, <2>2
    <3>2. CASE up # Server
      <4>1. up \in Topic
        BY <2>2, <3>2
      <4> QED
        BY <3>2, <4>1, <2>2, <1>1 DEF TypedVars
    <3> QED
      BY <3>1, <3>2
  <2>5. n \in l /\ line \in [Topic -> SUBSET C]
    BY <1>1 DEF TypedVars
  <2> HIDE DEF l, C
  <2>6. line' \in [Topic -> SUBSET C]
    BY <2>1, <2>2, <2>4, <2>5
  <2>7. live' \subseteq {m \in Created' : m \in line'[m]}
    <3>1. live \subseteq {m \in Created : m \in line[m]}
      BY <1>1 DEF TypedVars
    <3>2. \A m \in Topic : m \in line[m] => m \in line'[m]
      BY <2>1, <2>2, <2>5
    <3>3. starts => n \in line'[n]
      BY <2>1, <2>2, <2>5
    <3>4. Created \subseteq Topic
      BY DEF Created
    <3> HIDE DEF Created, starts, n
    <3> QED
      BY <2>1, <2>2, <2>3, <3>1, <3>2, <3>3, <3>4
  <2>8. UNCHANGED <<runned, runs, ctx, stoppers, ended, kids, fullName, subs>>
    BY <2>1
  <2>9. line' \in [Topic -> SUBSET (Topic \cup {RunContext(r) : r \in 1..runs'})]
    BY <2>6, <2>8 DEF C
  <2> QED
    BY <1>1, <1>2, <2>3, <2>7, <2>8, <2>9 DEF TypedVars
<1>8. ASSUME NEW c \in Client, RemoveCancel(c) PROVE TypedVars'
  <2> DEFINE f == Top(c)
  <2>1. /\ f.at = "cancel" /\ job[c].at = "removing"
        /\ UNCHANGED ended \/ ended' = ended \cup {f.kid}
        /\ UNCHANGED <<server, kids, fullName, line, live, subs>>
    BY <1>8 DEF RemoveCancel, Panic, At
  <2>2. f.kid \in Topic
    <3>1. FrameOK(f, fullName, ended)
      BY <2>1, TopFacts DEF Typed
    <3> QED
      BY <2>1, <3>1 DEF FrameOK, Holds, Known
  <2>3. Created' = Created
    BY <2>1 DEF Created
  <2> QED
    BY <1>1, <1>2, <2>1, <2>2, <2>3 DEF TypedVars
<1>9. ASSUME NEW c \in Client, RemoveDelete(c) PROVE TypedVars'
  <2> DEFINE f == Top(c)
  <2>1. /\ kids' = kids \/ kids' = [kids EXCEPT ![f.node][Last(fullName[f.kid])] = NoTopic]
        /\ UNCHANGED <<server, ended, fullName, line, live, subs>>
    BY <1>9 DEF RemoveDelete
  <2>2. kids' \in [Owner -> [Name -> Created \cup {NoTopic}]]
    BY SMTT(30), <1>1, <2>1 DEF TypedVars
  <2>3. Created' = Created
    BY <2>1 DEF Created
  <2> QED
    BY <1>1, <1>2, <2>1, <2>2, <2>3 DEF TypedVars
<1>10. ASSUME NEW c \in Client, SubscribeOne(c) \/ Unsubscribe(c) PROVE TypedVars'
  <2>1. /\ UNCHANGED <<server, ended, kids, fullName, line, live>>
        /\ \/ UNCHANGED subs
           \/ subs' = [subs EXCEPT ![Top(c).node] = @ \cup {c}]
           \/ subs' = [subs EXCEPT ![job[c].node] =
                         IF job[c].node \in live THEN @ \ {c} ELSE @]
    BY <1>10 DEF SubscribeOne, Unsubscribe
  <2>2. subs' \in [Topic -> SUBSET Client]
    BY <1>1, <2>1 DEF TypedVars
  <2>3. Created' = Created
    BY <2>1 DEF Created
  <2> QED
    BY <1>1, <1>2, <2>1, <2>2, <2>3 DEF TypedVars
<1>11. ASSUME NEW r \in 1..MaxRuns, Cancel(r) \/ StopperFires(r) PROVE TypedVars'
  <2>1. Created' = Created
    BY <1>11 DEF Created, Cancel, StopperFires
  <2>2. CASE Cancel(r)
    BY <1>1, <1>2, <2>1, <2>2 DEF TypedVars, Cancel
  <2>3. CASE StopperFires(r)
    BY <1>1, <1>2, <2>1, <2>3 DEF TypedVars, StopperFires
  <2> QED
    BY <1>11, <2>2, <2>3
<1>12. ASSUME NEW n \in Topic, LoopEnds(n) PROVE TypedVars'
  <2>1. Created' = Created
    BY <1>12 DEF Created, LoopEnds
  <2> QED
    BY <1>1, <1>2, <1>12, <2>1 DEF TypedVars, LoopEnds
<1> QED
  BY <1>3, <1>4, <1>5, <1>6, <1>7, <1>8, <1>9, <1>10, <1>11, <1>12, Quiet

-----------------------------------------------------------------------------
(* Entries.                                                                *)

\* Insert writes one entry, that of a new topic, and gives that its name.
LEMMA InsertFacts ==
  ASSUME Typed, NEW c \in Client, Insert(c)
  PROVE  LET n == Cardinality(Created) + 1
             up == job[c].node
             p == job[c].path
         IN
         /\ n \in Topic /\ n \notin Created /\ Created' = Created \cup {n}
         /\ up \in Created \cup {Server} /\ up \in Owner /\ up # n
         /\ up # Server => up < n
         /\ p \in Path /\ Last(p) \in Name /\ Front(p) = Place(fullName, up)
         /\ p = Append(Place(fullName, up), Last(p))
         /\ fullName'[n] = p /\ fullName[n] = <<>>
         /\ \A m \in Topic : m # n => fullName'[m] = fullName[m]
         /\ \A m \in Created \cup {Server} : Place(fullName', m) = Place(fullName, m)
         /\ \A u \in Owner, y \in Name :
              kids'[u][y] = IF u = up /\ y = Last(p) THEN n ELSE kids[u][y]
         /\ At(c, "insert")
         /\ \A m \in Created : m # n /\ m \in Topic
         /\ UNCHANGED <<server, ended, line, live, subs>>
<1> USE Constants
<1> DEFINE n == Cardinality(Created) + 1
           j == job[c]
           up == j.node
           p == j.path
           x == Last(p)
<1>1. /\ n \in Topic /\ j.at = "insert"
      /\ kids' = [kids EXCEPT ![up][x] = n]
      /\ fullName' = [fullName EXCEPT ![n] = p]
      /\ UNCHANGED <<server, ended, line, live, subs>>
  BY DEF Insert, At
<1>2. /\ n \in Nat /\ Created = 1..(n - 1) /\ n \notin Created /\ TypedVars
      /\ \A m \in Created : m < n
  <2>1. TypedVars
    BY DEF Typed
  <2> QED
    BY <2>1, NewTopic
<1>3. j \in JobType /\ JobOK(j, fullName, ended)
  BY DEF Typed, TypedJobs
<1> HIDE DEF n
<1>4. p \in Path /\ x \in Name /\ p # <<>> /\ p = Append(Front(p), x)
  <2>1. p \in Path
    BY <1>1, <1>3 DEF JobType, JobOK
  <2> QED
    BY <2>1, PathFacts
<1>5. up \in Created \cup {Server} /\ up \in Owner
  BY <1>3 DEF JobOK, JobType, Known, Created
<1>6. Front(p) = Place(fullName, up)
  <2>1. Place(fullName, up) \o <<>> = Front(p)
    BY <1>1, <1>3 DEF JobOK
  <2>2. Place(fullName, up) \in Seq(Name)
    BY <1>5, PlaceFacts
  <2> QED
    BY <2>1, <2>2, ConcatEmptySeq
<1>7. up # n /\ (up # Server => up < n)
  BY <1>1, <1>2, <1>5
<1>8. /\ fullName'[n] = p /\ fullName[n] = <<>>
      /\ \A m \in Topic : m # n => fullName'[m] = fullName[m]
  <2>1. fullName \in [Topic -> Path \cup {<<>>}]
    BY <1>2 DEF TypedVars
  <2> QED
    BY <1>1, <1>2, <2>1 DEF Created
<1>9. Created' = Created \cup {n} /\ \A m \in Created : m # n /\ m \in Topic
  BY <1>1, <1>2, <1>4, <1>8 DEF Created
<1>10. \A m \in Created \cup {Server} : Place(fullName', m) = Place(fullName, m)
  BY <1>8, <1>9 DEF Place
<1>11. \A u \in Owner, y \in Name :
          kids'[u][y] = IF u = up /\ y = x THEN n ELSE kids[u][y]
  <2>1. kids \in [Owner -> [Name -> Created \cup {NoTopic}]]
    BY <1>2 DEF TypedVars
  <2> HIDE DEF x, Created
  <2> QED
    BY <1>1, <1>4, <1>5, <2>1
<1>12. At(c, "insert")
  BY <1>1 DEF At
<1> QED
  BY <1>1, <1>2, <1>4, <1>5, <1>6, <1>7, <1>8, <1>9, <1>10, <1>11, <1>12 DEF n

\* Nothing but Insert writes an entry or a name.
LEMMA EntriesOnlyLost ==
  ASSUME Typed, Later, [Next]_vars, \A c \in Client : ~Insert(c)
  PROVE  /\ UNCHANGED fullName
         /\ \A u \in Owner, x \in Name : kids'[u][x] \in {kids[u][x], NoTopic}
<1> USE Constants
<1>1. kids \in [Owner -> [Name -> Created \cup {NoTopic}]]
  BY DEF Typed, TypedVars
<1>2. CASE UNCHANGED kids /\ UNCHANGED fullName
  BY <1>2
<1>3. ASSUME NEW c \in Client, RunClean(c)
      PROVE  UNCHANGED fullName /\ \A u \in Owner, x \in Name : kids'[u][x] \in {kids[u][x], NoTopic}
  BY <1>1, <1>3 DEF RunClean
<1>4. ASSUME NEW c \in Client, RemoveDelete(c)
      PROVE  UNCHANGED fullName /\ \A u \in Owner, x \in Name : kids'[u][x] \in {kids[u][x], NoTopic}
  <2> DEFINE v == Top(c).node
             y == Last(fullName[Top(c).kid])
  <2>1. UNCHANGED fullName /\ (kids' = kids \/ kids' = [kids EXCEPT ![v][y] = NoTopic])
    BY <1>4 DEF RemoveDelete
  <2> HIDE DEF v, y
  <2> QED
    BY <2>1, <1>1
<1>5. CASE UNCHANGED <<server, topics>>
  BY <1>5, <1>2 DEF topics
<1>6. ASSUME NEW c \in Client, \/ RunSet(c) \/ StartTopic(c) \/ RemoveCancel(c)
                               \/ SubscribeOne(c) \/ Unsubscribe(c)
      PROVE  UNCHANGED kids /\ UNCHANGED fullName
  BY <1>6 DEF RunSet, StartTopic, RemoveCancel, SubscribeOne, Unsubscribe, Panic, topics
<1>7. ASSUME NEW r, Cancel(r) \/ StopperFires(r) \/ LoopEnds(r)
      PROVE  UNCHANGED kids /\ UNCHANGED fullName
  BY <1>7 DEF Cancel, StopperFires, LoopEnds, topics
<1> QED
  BY <1>2, <1>3, <1>4, <1>5, <1>6, <1>7, Quiet

LEMMA EntriesStay ==
  ASSUME Typed, Entries, Later, [Next]_vars
  PROVE  Entries'
<1> USE Constants
<1>1. CASE \A c \in Client : ~Insert(c)
  <2>1. /\ UNCHANGED fullName
        /\ \A u \in Owner, x \in Name : kids'[u][x] \in {kids[u][x], NoTopic}
    BY <1>1, EntriesOnlyLost
  <2>2. Created' = Created
    BY <2>1 DEF Created
  <2> SUFFICES ASSUME NEW u \in Owner, NEW x \in Name, kids'[u][x] # NoTopic
               PROVE  /\ u \in Created' \cup {Server}
                      /\ fullName'[kids'[u][x]] = Append(Place(fullName', u), x)
                      /\ \A v \in Owner, y \in Name : kids'[v][y] = kids'[u][x] => v = u /\ y = x
    BY DEF Entries
  <2>3. kids'[u][x] = kids[u][x] /\ kids[u][x] # NoTopic
    BY <2>1
  <2>4. \A v \in Owner, y \in Name : kids'[v][y] = kids'[u][x] => kids[v][y] = kids[u][x]
    BY <2>1, <2>3
  <2>5. /\ u \in Created \cup {Server}
        /\ fullName[kids[u][x]] = Append(Place(fullName, u), x)
        /\ \A v \in Owner, y \in Name : kids[v][y] = kids[u][x] => v = u /\ y = x
    BY <2>3 DEF Entries
  <2>6. fullName'[kids'[u][x]] = Append(Place(fullName', u), x)
    BY <2>1, <2>3, <2>5
  <2> QED
    BY <2>2, <2>4, <2>5, <2>6
<1>2. ASSUME NEW c \in Client, Insert(c) PROVE Entries'
  <2> DEFINE n == Cardinality(Created) + 1
             up == job[c].node
             p == job[c].path
             z == Last(p)
  <2>1. /\ n \in Topic /\ n \notin Created /\ Created' = Created \cup {n}
        /\ up \in Created \cup {Server} /\ up \in Owner
        /\ z \in Name /\ p = Append(Place(fullName, up), z)
        /\ fullName'[n] = p
        /\ \A m \in Topic : m # n => fullName'[m] = fullName[m]
        /\ \A m \in Created \cup {Server} : Place(fullName', m) = Place(fullName, m)
        /\ \A u \in Owner, y \in Name :
              kids'[u][y] = IF u = up /\ y = z THEN n ELSE kids[u][y]
    BY <1>2, InsertFacts
  <2> HIDE DEF n, up, p, z
  <2>2. \A u \in Owner, y \in Name : kids[u][y] \in Created \cup {NoTopic} /\ kids[u][y] # n
    BY <2>1 DEF Typed, TypedVars
  <2> SUFFICES ASSUME NEW u \in Owner, NEW x \in Name, kids'[u][x] # NoTopic
               PROVE  /\ u \in Created' \cup {Server}
                      /\ fullName'[kids'[u][x]] = Append(Place(fullName', u), x)
                      /\ \A v \in Owner, y \in Name : kids'[v][y] = kids'[u][x] => v = u /\ y = x
    BY DEF Entries
  <2>3. CASE u = up /\ x = z
    <3>1. kids'[u][x] = n
      BY <2>1, <2>3
    <3> QED
      BY <2>1, <2>2, <2>3, <3>1
  <2>4. CASE ~(u = up /\ x = z)
    <3>1. kids'[u][x] = kids[u][x] /\ kids[u][x] # NoTopic
      BY <2>1, <2>4
    <3>2. /\ u \in Created \cup {Server}
          /\ fullName[kids[u][x]] = Append(Place(fullName, u), x)
          /\ \A v \in Owner, y \in Name : kids[v][y] = kids[u][x] => v = u /\ y = x
      BY <3>1 DEF Entries
    <3>3. kids[u][x] \in Topic /\ kids[u][x] # n
      BY <2>2, <3>1 DEF Created
    <3>4. u \in Created' \cup {Server} /\ Place(fullName', u) = Place(fullName, u)
      BY <2>1, <3>2
    <3>5. fullName'[kids'[u][x]] = Append(Place(fullName', u), x)
      BY <2>1, <3>1, <3>2, <3>3, <3>4
    <3>6. \A v \in Owner, y \in Name : kids'[v][y] = kids'[u][x] => kids[v][y] = kids[u][x]
      BY <2>1, <3>1, <3>3
    <3> QED
      BY <3>2, <3>4, <3>5, <3>6
  <2> QED
    BY <2>3, <2>4
<1> QED
  BY <1>1, <1>2

LEMMA EntriesFrom == Init => Entries
BY DEF Init, Entries

\* The types and the entries are an inductive invariant.
LEMMA TypedStep ==
  ASSUME Typed, Entries, [Next]_vars
  PROVE  Typed' /\ Entries' /\ Later
<1>1. Later
  BY StepsLater
<1>2. TypedVars' /\ TypedJobs' /\ Entries'
  BY <1>1, VarsStay, JobsGoWell, EntriesStay
<1> QED
  BY <1>1, <1>2 DEF Typed

\* Whatever the calls do and wherever they are interrupted, each variable keeps
\* its type, a served topic has a context of its own, and a call at work on a
\* branch has a stack (es/es.go and es/topic.go: the maps, flags and contexts
\* that AddTopic, RemoveTopic, Subscribe and Run share).
THEOREM Typing == Spec => []TypeOK
<1>1. Init => Typed /\ Entries
  BY TypesFrom, EntriesFrom
<1>2. Typed /\ Entries /\ [Next]_vars => Typed' /\ Entries'
  BY TypedStep
<1>3. Typed => TypeOK
  BY TypedImpliesTypeOK
<1> QED
  BY <1>1, <1>2, <1>3, PTL DEF Spec

-----------------------------------------------------------------------------
(* Where a call goes.                                                      *)

\* What a step of one call leaves of the others, and which steps lead where.
LEMMA Turns ==
  ASSUME Typed, Entries, Later, NEW c \in Client, Step(c)
  PROVE  /\ \A d \in Client : d # c => job'[d] = job[d]
         /\ job'[c].at = "start" => Insert(c)
         /\ job'[c].at = "insert" => AddCheck(c)
         /\ job'[c].at = "set" => RunClean(c)
         /\ job'[c].at # "clean"
         /\ job'[c].at = "removing" =>
              \/ Walk(c) \/ RemoveCheck(c) \/ RemoveDescend(c) \/ RemoveReturns(c)
              \/ RemoveCancel(c) \/ RemoveDelete(c)
         /\ job'[c].at = "subscribing" =>
              Walk(c) \/ SubscribeOne(c) \/ SubscribeDescend(c) \/ SubscribeReturns(c)
<1>1. job \in [Client -> JobType] /\ job[c] \in JobType
  BY DEF Typed, TypedJobs
<1>2. \A d \in Client : d # c => job'[d] = job[d]
  <2>1. GoesWell(c) \/ UNCHANGED job
    BY WalksWell, RunGoesWell, QueueGoesWell, AddGoesWell, RemoveGoesWell,
       SubscribeGoesWell DEF Step
  <2> QED
    BY <1>1, <2>1 DEF GoesWell, Goes
<1>3. ASSUME NEW j, Goes(c, j) PROVE job'[c] = j
  BY <1>1, <1>3 DEF Goes
<1>4. ASSUME NEW answer, Ends(c, answer) PROVE job'[c].at = answer
  <2>1. Over(job[c], answer).at = answer
    BY <1>1 DEF Over, JobType
  <2> QED
    BY <1>3, <1>4, <2>1 DEF Ends
<1>5. ASSUME NEW t, NEW f, Replace(c, t) \/ Push(c, t, f) PROVE job'[c].at = job[c].at
  <2>1. \A s : [job[c] EXCEPT !.stack = s].at = job[c].at
    BY <1>1 DEF JobType
  <2> QED
    BY <1>3, <1>5, <2>1 DEF Replace, Push
<1>6. ASSUME Pop(c) PROVE job'[c].at \in {"ok", job[c].at}
  <2>1. \A s : [job[c] EXCEPT !.stack = s].at = job[c].at
    BY <1>1 DEF JobType
  <2> QED
    BY <1>3, <1>4, <1>6, <2>1 DEF Pop
<1>7. CASE Walk(c)
  <2> DEFINE k == kids[job[c].node][Head(job[c].way)]
             o == [job[c] EXCEPT !.node = k, !.way = Tail(@)]
  <2>1. job[c].at \in {"branch", "parent", "target", "owner"}
    BY <1>7 DEF Walk
  <2>2. CASE k = NoTopic
    BY <1>2, <1>4, <1>7, <2>2 DEF Walk
  <2>3. CASE k # NoTopic
    <3>1. Goes(c, Found(o))
      BY Zenon, <1>7, <2>3 DEF Walk
    <3>2. o \in JobType /\ o.at = job[c].at
      BY Zenon, <1>7, <2>3, WalkFacts
    <3> HIDE DEF o
    <3>3. Found(o).at \in {o.at, "removing", "owner", "subscribing"}
      BY <3>2 DEF Found, RemoveFrom, JobType
    <3> QED
      BY <1>2, <1>3, <1>7, <2>1, <3>1, <3>2, <3>3
  <2> QED
    BY <2>2, <2>3
<1>8. CASE RunClean(c) \/ RunSet(c)
  <2> DEFINE o == [job[c] EXCEPT !.at = "set", !.run = runs + 1]
             q == [job[c] EXCEPT !.at = "branch", !.rest = <<Default>>, !.run = 0]
  <2>1. o.at = "set" /\ q.at = "branch"
    BY <1>1 DEF JobType
  <2>2. (RunClean(c) => Goes(c, o)) /\ (RunSet(c) => Goes(c, q))
    BY DEF RunClean, RunSet
  <2> HIDE DEF o, q
  <2> QED
    BY <1>2, <1>3, <1>8, <2>1, <2>2
<1>9. CASE NextInQueue(c)
  <2> DEFINE path == Append(job[c].path, Head(job[c].rest))
             o == [job[c] EXCEPT !.at = "parent", !.path = path, !.way = Front(path),
                                 !.rest = Tail(@), !.node = Server]
  <2>1. o.at = "parent"
    BY <1>1 DEF JobType
  <2>3. Ends(c, "err") \/ Goes(c, o)
    BY <1>9 DEF NextInQueue
  <2> HIDE DEF o
  <2>2. job'[c].at \in {"err", "parent"}
    BY <1>3, <1>4, <2>1, <2>3
  <2> QED
    BY <1>2, <2>2
<1>10. CASE AddCheck(c)
  <2>1. [job[c] EXCEPT !.at = "insert"].at = "insert"
    BY <1>1 DEF JobType
  <2>2. job'[c].at \in {"err", "insert"}
    BY <1>3, <1>4, <1>10, <2>1 DEF AddCheck, Moves
  <2> QED
    BY <1>2, <1>10, <2>2
<1>11. Added(c).at \in {"ok", "branch"}
  <2>1. Over(job[c], "ok").at = "ok" /\ [job[c] EXCEPT !.at = "branch", !.way = <<>>].at = "branch"
    BY <1>1 DEF Over, JobType
  <2> QED
    BY <2>1 DEF Added
<1>12. CASE Insert(c)
  <2>1. \A n : [job[c] EXCEPT !.at = "start", !.target = n].at = "start"
    BY <1>1 DEF JobType
  <2>2. job'[c].at \in {"ok", "branch", "start"}
    BY <1>3, <1>11, <1>12, <2>1 DEF Insert
  <2> QED
    BY <1>2, <1>12, <2>2
<1>13. CASE StartTopic(c)
  <2>2. job'[c].at \in {"ok", "branch"}
    BY <1>3, <1>11, <1>13 DEF StartTopic
  <2> QED
    BY <1>2, <2>2
<1>14. CASE \/ RemoveCheck(c) \/ RemoveDescend(c) \/ RemoveReturns(c)
            \/ RemoveCancel(c) \/ RemoveDelete(c)
  <2>1. job'[c].at \in {"ok", "err", "removing"}
    BY Zenon, <1>4, <1>5, <1>6, <1>14 DEF RemoveCheck, RemoveDescend, RemoveReturns,
       RemoveCancel,
       RemoveDelete, At, Panic
  <2> QED
    BY Zenon, <1>2, <1>14, <2>1
<1>15. CASE SubscribeOne(c) \/ SubscribeDescend(c) \/ SubscribeReturns(c)
  <2>1. job'[c].at \in {"ok", "err", "subscribing"}
    BY <1>4, <1>5, <1>6, <1>15 DEF SubscribeOne, SubscribeDescend, SubscribeReturns, At
  <2> QED
    BY <1>2, <1>15, <2>1
<1>16. CASE Unsubscribe(c)
  <2>1. job'[c].at \in {"ok", "err"}
    BY <1>4, <1>16 DEF Unsubscribe
  <2> QED
    BY <1>2, <2>1
<1> QED
  BY <1>7, <1>8, <1>9, <1>10, <1>12, <1>13, <1>14, <1>15, <1>16 DEF Step

\* Where the first step of a call leads.
LEMMA Starts ==
  ASSUME Typed, NEW c \in Client, NEW call, Begin(c, call)
  PROVE  /\ \A d \in Client : d # c => job'[d] = job[d]
         /\ job'[c].at \in {"clean", "parent", "branch", "target"}
         /\ job'[c].at = "clean" => ~runned
         /\ job'[c].must = {} /\ Idle(c)
         /\ UNCHANGED <<server, topics>>
<1>1. job \in [Client -> JobType] /\ job[c] \in JobType
  BY DEF Typed, TypedJobs
<1> DEFINE at == CASE call.op = "run" -> "clean"
                   [] call.op = "add" -> "parent"
                   [] call.op = "queue" -> "branch"
                   [] OTHER -> "target"
           way == IF call.op = "add" THEN Front(call.path) ELSE call.path
           calls == job[c].calls + 1
           o == [job[c] EXCEPT
                   !.calls = calls, !.call = call, !.node = Server, !.path = call.path,
                   !.rest = call.rest, !.must = {}, !.target = NoTopic,
                   !.at = at, !.way = way]
<1>2. Goes(c, o) /\ Idle(c) /\ (IF call.op = "run" THEN ~runned ELSE runned)
  BY DEF Begin
<1>3. at \in {"clean", "parent", "branch", "target"} /\ (at = "clean" => call.op = "run")
  OBVIOUS
<1> HIDE DEF at, way, calls
<1>4. o.at = at /\ o.must = {}
  BY <1>1 DEF JobType
<1> HIDE DEF o
<1>5. job'[c] = o /\ \A d \in Client : d # c => job'[d] = job[d]
  BY <1>1, <1>2 DEF Goes
<1> QED
  BY <1>2, <1>3, <1>4, <1>5 DEF Begin

\* A call changes by a step of its own or when it begins.
LEMMA OwnSteps ==
  ASSUME Typed, Entries, Later, [Next]_vars, NEW c \in Client, job'[c] # job[c]
  PROVE  Step(c) \/ \E call : Begin(c, call)
<1>1. ASSUME NEW d \in Client, Step(d) PROVE Step(c)
  BY <1>1, Turns
<1>2. ASSUME NEW d \in Client, NEW call, Begin(d, call) PROVE \E b : Begin(c, b)
  BY <1>2, Starts
<1> QED
  BY <1>1, <1>2 DEF Next, vars, RangeMeetsWrite, Panic, Cancel, StopperFires, LoopEnds

-----------------------------------------------------------------------------
(* The lines of topics.                                                    *)

\* The entry of a topic that was created is where it was.
LEMMA OldEntries ==
  ASSUME Typed, Entries, Later, [Next]_vars, NEW n \in Created
  PROVE  /\ n \in Created' /\ n \in Topic /\ fullName'[n] = fullName[n]
         /\ \A u \in Owner, x \in Name : kids'[u][x] = n => kids[u][x] = n
         /\ \A u \in Created \cup {Server} :
              u \in Created' \cup {Server} /\ Place(fullName', u) = Place(fullName, u)
<1> USE Constants
<1>1. \A m \in Created : m \in Topic /\ fullName'[m] = fullName[m] /\ m \in Created'
  BY DEF Later, Grows, Created
<1>2. \A u \in Created \cup {Server} :
        u \in Created' \cup {Server} /\ Place(fullName', u) = Place(fullName, u)
  BY <1>1 DEF Place
<1>3. \A u \in Owner, x \in Name : kids'[u][x] = n => kids[u][x] = n
  <2>1. CASE \A c \in Client : ~Insert(c)
    <3>1. n # NoTopic
      BY <1>1
    <3>2. \A u \in Owner, x \in Name : kids'[u][x] \in {kids[u][x], NoTopic}
      BY <2>1, EntriesOnlyLost
    <3> QED
      BY <3>1, <3>2
  <2>2. ASSUME NEW c \in Client, Insert(c)
        PROVE \A u \in Owner, x \in Name : kids'[u][x] = n => kids[u][x] = n
    <3> DEFINE new == Cardinality(Created) + 1
               up == job[c].node
               y == Last(job[c].path)
    <3>1. /\ new \notin Created
          /\ \A u \in Owner, x \in Name : kids'[u][x] = IF u = up /\ x = y THEN new ELSE kids[u][x]
      BY <2>2, InsertFacts
    <3> HIDE DEF new, up, y
    <3> QED
      BY Zenon, <3>1
  <2> QED
    BY <2>1, <2>2
<1> QED
  BY <1>1, <1>2, <1>3

\* The topic inserted is the one to start.
LEMMA StartsNew ==
  ASSUME Typed, NEW c \in Client, Insert(c), job'[c].at = "start"
  PROVE  /\ job'[c].target = Cardinality(Created) + 1
         /\ job'[c].node = job[c].node /\ job'[c].path = job[c].path
         /\ job'[c].rest = job[c].rest
         /\ job[c].node # Server => job[c].node \in live
<1> DEFINE n == Cardinality(Created) + 1
           o == [job[c] EXCEPT !.at = "start", !.target = n]
<1>1. job \in [Client -> JobType] /\ job[c] \in JobType
  BY DEF Typed, TypedJobs
<1>2. Goes(c, IF job[c].node = Server \/ job[c].node \in live THEN o ELSE Added(c))
  BY DEF Insert
<1>3. o.target = n /\ o.node = job[c].node /\ o.path = job[c].path /\ o.rest = job[c].rest
  BY <1>1 DEF JobType
<1>4. Added(c).at # "start"
  <2>1. Over(job[c], "ok").at = "ok" /\ [job[c] EXCEPT !.at = "branch", !.way = <<>>].at = "branch"
    BY <1>1 DEF Over, JobType
  <2> QED
    BY <2>1 DEF Added
<1> HIDE DEF o, n
<1>5. job'[c] = IF job[c].node = Server \/ job[c].node \in live THEN o ELSE Added(c)
  BY <1>1, <1>2 DEF Goes
<1> QED
  BY <1>3, <1>4, <1>5 DEF n

LEMMA AddedStays ==
  ASSUME Typed, Entries, Later, [Next]_vars, NEW n, NEW u, AddedTo(n, u)
  PROVE  AddedTo(n, u)'
<1>1. n \in Created /\ u \in Created \cup {Server}
  BY DEF AddedTo
<1>2. /\ n \in Created' /\ fullName'[n] = fullName[n]
      /\ u \in Created' \cup {Server} /\ Place(fullName', u) = Place(fullName, u)
  BY <1>1, OldEntries
<1>3. \A v \in Owner, x \in Name : kids'[v][x] = n => kids[v][x] = n
  BY <1>1, OldEntries
<1> QED
  BY <1>2, <1>3 DEF AddedTo

\* Lines are given once, by StartTopic.
LEMMA LinesGrow ==
  ASSUME Typed, Entries, Later, Lines, [Next]_vars
  PROVE  /\ \A n \in Topic : line[n] # {} => line'[n] = line[n]
         /\ \A n \in Topic : line'[n] # line[n] =>
              \E c \in Client : StartTopic(c) /\ n = job[c].target
<1> USE Constants
<1>1. line \in [Topic -> SUBSET (Topic \cup {RunContext(r) : r \in 1..runs})]
  BY DEF Typed, TypedVars
<1>2. CASE UNCHANGED line
  BY <1>2
<1>3. ASSUME NEW c \in Client, StartTopic(c)
      PROVE  /\ \A n \in Topic : line[n] # {} => line'[n] = line[n]
             /\ \A n \in Topic : line'[n] # line[n] => n = job[c].target
  <2>1. line[job[c].target] = {}
    BY <1>3 DEF Lines, StartTopic
  <2>2. line' = line \/ \E l : line' = [line EXCEPT ![job[c].target] = l]
    BY <1>3 DEF StartTopic
  <2> QED
    BY <1>1, <2>1, <2>2
<1>4. UNCHANGED line \/ \E c \in Client : StartTopic(c)
  <2>1. ASSUME NEW c \in Client, \/ RunClean(c) \/ RunSet(c) \/ Insert(c)
              \/ RemoveCancel(c) \/ RemoveDelete(c) \/ SubscribeOne(c) \/ Unsubscribe(c)
        PROVE  UNCHANGED line
    BY <2>1 DEF RunClean, RunSet, Insert, RemoveCancel, RemoveDelete, SubscribeOne,
       Unsubscribe, Panic, topics
  <2>2. ASSUME NEW r, Cancel(r) \/ StopperFires(r) \/ LoopEnds(r) PROVE UNCHANGED line
    BY <2>2 DEF Cancel, StopperFires, LoopEnds, topics
  <2> QED
    BY <2>1, <2>2, Quiet DEF topics
<1> QED
  BY <1>2, <1>3, <1>4

Line(n) ==
    line[n] # {} =>
      \E u \in Owner :
          /\ AddedTo(n, u)
          /\ u = Server => \E r \in 1..runs : line[n] = {n, RunContext(r)}
          /\ u # Server => u < n /\ line[u] # {} /\ line[n] = {n} \cup line[u]

LEMMA LineStays ==
  ASSUME Typed, Entries, Later, Lines, [Next]_vars, NEW n \in Topic
  PROVE  Line(n)'
<1> USE Constants
<1> SUFFICES ASSUME line'[n] # {}
             PROVE  \E u \in Owner :
               /\ AddedTo(n, u)'
               /\ u = Server => \E r \in 1..runs' : line'[n] = {n, RunContext(r)}
               /\ u # Server => u < n /\ line'[u] # {} /\ line'[n] = {n} \cup line'[u]
  BY DEF Line
<1>1. 1..runs \subseteq 1..runs'
  BY DEF Typed, TypedVars, Later
<1>2. CASE line[n] # {}
  <2>1. PICK u \in Owner :
          /\ AddedTo(n, u)
          /\ u = Server => \E r \in 1..runs : line[n] = {n, RunContext(r)}
          /\ u # Server => u < n /\ line[u] # {} /\ line[n] = {n} \cup line[u]
    BY <1>2 DEF Lines
  <2>2. AddedTo(n, u)'
    BY <2>1, AddedStays
  <2>3. line'[n] = line[n] /\ (u # Server => line'[u] = line[u])
    BY <1>2, <2>1, LinesGrow
  <2> QED
    BY <2>1, <2>2, <2>3, <1>1
<1>3. CASE line[n] = {}
  <2>1. PICK c \in Client : StartTopic(c) /\ n = job[c].target
    BY <1>3, LinesGrow
  <2>0. PICK up : up = job[c].node
    OBVIOUS
  <2>2. /\ At(c, "start") /\ AddedTo(n, up)
        /\ up # Server => up < n /\ line[up] # {}
    BY <2>0, <2>1 DEF StartTopic, Lines
  <2>8. AddedTo(n, up)'
    BY <2>2, AddedStays
  <2>3. AddedTo(n, up)' /\ up \in Owner
    BY <2>2, <2>8 DEF AddedTo, Created
  <2>4. /\ up # Server \/ runned
        /\ line' = [line EXCEPT ![n] = {n} \cup IF up = Server THEN {RunContext(ctx)} ELSE line[up]]
    BY <2>0, <2>1, <1>3 DEF StartTopic
  <2>5. line'[n] = {n} \cup IF up = Server THEN {RunContext(ctx)} ELSE line[up]
    BY <2>4 DEF Typed, TypedVars
  <2>6. CASE up = Server
    <3>1. runned /\ ctx \in 0..runs /\ (runned => ctx # 0) /\ runs \in Nat
      <4>1. TypedVars
        BY DEF Typed
      <4>2. ctx \in 0..runs /\ (runned => ctx # 0) /\ runs \in 0..MaxRuns
        BY <4>1 DEF TypedVars
      <4> QED
        BY <2>4, <2>6, <4>2
    <3>2. ctx \in 1..runs
      BY <3>1
    <3>3. line'[n] = {n, RunContext(ctx)}
      BY <2>5, <2>6
    <3> QED
      BY <2>3, <2>6, <3>2, <3>3, <1>1
  <2>7. CASE up # Server
    <3>1. line'[up] = line[up]
      BY <2>2, <2>3, <2>7, LinesGrow
    <3> QED
      BY <2>2, <2>3, <2>5, <2>7, <3>1
  <2> QED
    BY <2>6, <2>7
<1> QED
  BY <1>2, <1>3

\* What Lines says of a call that is about to start a topic.
Starting(c) ==
    LET n == job[c].target
        u == job[c].node
    IN
    /\ fullName[n] = job[c].path
    /\ line[n] = {}
    /\ AddedTo(n, u)
    /\ u # Server => u < n /\ line[u] # {}
    /\ \A d \in Client \ {c} : At(d, "start") => job[d].target # n

LEMMA StartingStays ==
  ASSUME Typed, Entries, Later, Lines, [Next]_vars, NEW c \in Client, At(c, "start")'
  PROVE  Starting(c)'
<1> USE Constants
<1>1. Typed' /\ Entries'
  BY TypedStep
<1>2. ASSUME NEW d \in Client, At(d, "start")'
      PROVE  (At(d, "start") /\ job'[d] = job[d]) \/ Insert(d)
  <2>1. CASE job'[d] = job[d]
    BY <1>2, <2>1 DEF At
  <2>2. CASE job'[d] # job[d]
    BY <1>2, <2>2, OwnSteps, Turns, Starts DEF At
  <2> QED
    BY <2>1, <2>2
<1>3. CASE At(c, "start") /\ job'[c] = job[c]
  <2>0. PICK n, u : n = job[c].target /\ u = job[c].node
    OBVIOUS
  <2>1. /\ fullName[n] = job[c].path /\ line[n] = {} /\ AddedTo(n, u)
        /\ u # Server => u < n /\ line[u] # {}
        /\ \A d \in Client \ {c} : At(d, "start") => job[d].target # n
    BY <1>3, <2>0 DEF Lines
  <2>7. AddedTo(n, u)'
    BY <2>1, AddedStays
  <2>2. AddedTo(n, u)' /\ n \in Created
    BY <2>1, <2>7 DEF AddedTo
  <2>3. fullName'[n] = fullName[n] /\ n \in Topic
    BY <2>2, OldEntries
  <2>4. line'[n] = {}
    <3> SUFFICES ASSUME line'[n] # {} PROVE FALSE
      OBVIOUS
    <3>1. PICK d \in Client : StartTopic(d) /\ n = job[d].target
      BY <2>1, <2>3, LinesGrow
    <3>2. At(d, "start")
      BY <3>1 DEF StartTopic
    <3>3. d = c
      BY <2>1, <3>1, <3>2
    <3>4. job'[c].at # "start"
      BY Zenon, <3>1, <3>3, Turns DEF Step, StartTopic, Insert, At
    <3> QED
      BY <3>4 DEF At
  <2>5. u # Server => u < n /\ line'[u] # {}
    <3>1. u # Server => u \in Topic
      BY <2>1 DEF AddedTo, Created
    <3> QED
      BY <2>1, <3>1, LinesGrow
  <2>6. ASSUME NEW d \in Client \ {c}, At(d, "start")' PROVE job'[d].target # n
    <3>1. CASE At(d, "start") /\ job'[d] = job[d]
      BY <2>1, <2>6, <3>1 DEF At
    <3>2. CASE Insert(d)
      <4>1. \A m \in Created : m # Cardinality(Created) + 1
        BY <3>2, InsertFacts
      <4>2. job'[d].target = Cardinality(Created) + 1
        BY <3>2, <2>6, StartsNew DEF At
      <4> QED
        BY <4>1, <4>2, <2>2
    <3> QED
      BY <1>2, <2>6, <3>1, <3>2
  <2> QED
    BY <1>3, <2>0, <2>1, <2>2, <2>3, <2>4, <2>5, <2>6 DEF Starting
<1>4. CASE Insert(c)
  <2>0. PICK n, u, p : n = Cardinality(Created) + 1 /\ u = job[c].node /\ p = job[c].path
    OBVIOUS
  <2>1. /\ n \in Topic /\ n \notin Created /\ Created' = Created \cup {n}
        /\ u \in Created \cup {Server} /\ u \in Owner
        /\ u # Server => u < n
        /\ Last(p) \in Name /\ Front(p) = Place(fullName, u)
        /\ fullName'[n] = p
        /\ Place(fullName', u) = Place(fullName, u)
        /\ \A v \in Owner, y \in Name :
              kids'[v][y] = IF v = u /\ y = Last(p) THEN n ELSE kids[v][y]
        /\ \A m \in Created : m # n
        /\ UNCHANGED line
    BY <1>4, <2>0, InsertFacts DEF topics
  <2>2. /\ job'[c].target = n /\ job'[c].node = u /\ job'[c].path = p
        /\ u # Server => u \in live
    BY <1>4, <2>0, StartsNew DEF At
  <2>3. \A v \in Owner, y \in Name : kids[v][y] # n
    <3>1. \A v \in Owner, y \in Name : kids[v][y] \in Created \cup {NoTopic}
      BY DEF Typed, TypedVars
    <3> HIDE DEF Created
    <3> QED
      BY <2>1, <3>1
  <2>4. AddedTo(n, u)'
    BY <2>1, <2>3 DEF AddedTo
  <2>5. line'[n] = {}
    <3> SUFFICES ASSUME line[n] # {} PROVE FALSE
      BY <2>1
    <3> QED
      BY <2>1 DEF Lines, AddedTo
  <2>6. u # Server => line'[u] # {}
    <3>1. live \subseteq {m \in Created : m \in line[m]}
      BY DEF Typed, TypedVars
    <3> QED
      BY <2>1, <2>2, <3>1
  <2>7. ASSUME NEW d \in Client \ {c}, At(d, "start")' PROVE job'[d].target # n
    <3>1. job'[d] = job[d]
      BY <1>4, Turns DEF Step
    <3>2. job[d].target \in Created
      <4>1. JobOK(job[d], fullName, ended)
        BY DEF Typed, TypedJobs
      <4> QED
        BY <2>7, <3>1, <4>1 DEF JobOK, At, Known, Created
    <3> QED
      BY <2>1, <3>1, <3>2
  <2> QED
    BY <2>1, <2>2, <2>4, <2>5, <2>6, <2>7 DEF Starting
<1> QED
  BY <1>2, <1>3, <1>4

LEMMA LinesStay ==
  ASSUME Typed, Entries, Later, Lines, [Next]_vars
  PROVE  Lines'
<1> USE Constants
<1>1. \A n \in Topic : Line(n)'
  BY LineStays
<1>2. \A c \in Client : At(c, "start")' => Starting(c)'
  BY StartingStays
<1>3. \A n \in ended' \cap Topic : line'[n] # {}
  <2>1. ASSUME NEW n \in ended \cap Topic PROVE line'[n] # {}
    BY LinesGrow DEF Lines
  <2>2. ASSUME NEW n \in Topic, n \in ended', n \notin ended PROVE line'[n] # {}
    <3>1. ASSUME NEW c \in Client, RemoveCancel(c) PROVE line'[n] # {}
      BY <2>2, <3>1, LinesGrow DEF RemoveCancel, Panic, topics
    <3>2. ASSUME NEW r \in 1..MaxRuns, Cancel(r) PROVE FALSE
      <4>1. RunContext(r) \notin Topic
        BY DEF RunContext, Topic
      <4> QED
        BY <2>2, <3>2, <4>1 DEF Cancel
    <3>3. UNCHANGED <<server, topics>> => FALSE
      BY <2>2 DEF topics
    <3>4. ASSUME NEW c \in Client, \/ RunClean(c) \/ RunSet(c) \/ Insert(c) \/ StartTopic(c)
               \/ RemoveDelete(c) \/ SubscribeOne(c) \/ Unsubscribe(c)
          PROVE  FALSE
      BY <2>2, <3>4 DEF RunClean, RunSet, Insert, StartTopic, RemoveDelete, SubscribeOne,
         Unsubscribe, topics
    <3>5. ASSUME NEW r, StopperFires(r) \/ LoopEnds(r) PROVE FALSE
      BY <2>2, <3>5 DEF StopperFires, LoopEnds, topics
    <3> QED
      BY <3>1, <3>2, <3>3, <3>4, <3>5, Quiet
  <2> QED
    BY <2>1, <2>2
<1> QED
  BY <1>1, <1>2, <1>3 DEF Lines, Line, Starting

LEMMA LinesFrom == Init => Lines
BY DEF Init, Lines, At

-----------------------------------------------------------------------------
(* Entries about to be written or deleted.                                 *)


\* What a step of a call leaves of its job's type.
LEMMA GoesWellStep ==
  ASSUME Typed, Entries, Later, NEW c \in Client, Step(c)
  PROVE  TypedJobs'
<1>1. GoesWell(c) \/ UNCHANGED job
  BY WalksWell, RunGoesWell, QueueGoesWell, AddGoesWell, RemoveGoesWell,
     SubscribeGoesWell DEF Step
<1> QED
  BY <1>1, JobsStay DEF Typed

\* A lookup for RemoveTopic of a root topic has just found it in the server.
LEMMA WalkFrames ==
  ASSUME Typed, Entries, Later, NEW c \in Client, Walk(c),
         NEW i \in 1..Len(job'[c].stack), Holds(job'[c].stack[i])
  PROVE  LET g == job'[c].stack[i] IN kids[g.node][Last(fullName[g.kid])] = g.kid
<1> USE Constants
<1> DEFINE j == job[c]
           u == j.node
           x == Head(j.way)
           k == kids[u][x]
           o == [j EXCEPT !.node = k, !.way = Tail(@)]
<1>1. /\ job \in [Client -> JobType] /\ j \in JobType /\ JobOK(j, fullName, ended)
      /\ j.at \in {"branch", "parent", "target", "owner"}
      /\ j.way # <<>> /\ j.way \in Seq(Name) /\ j.stack = <<>> /\ Len(<<>>) = 0
  BY EmptySeq DEF Typed, TypedJobs, Walk, JobType, JobOK
<1>2. k # NoTopic
  <2> SUFFICES ASSUME k = NoTopic PROVE FALSE
    OBVIOUS
  <2>1. Ends(c, "err")
    BY DEF Walk
  <2>2. Over(j, "err").stack = <<>>
    BY <1>1 DEF Over, JobType
  <2>3. job'[c].stack = <<>>
    BY Zenon, <1>1, <2>1, <2>2 DEF Ends, Goes
  <2> QED
    BY <1>1, <2>3
<1>3. /\ k \in Topic /\ k \in Created
      /\ Place(fullName, k) \o Tail(j.way) = Place(fullName, u) \o j.way
      /\ Goes(c, Found(o)) /\ o \in JobType
      /\ o.at = j.at /\ o.node = k /\ o.way = Tail(j.way)
      /\ o.path = j.path /\ o.rest = j.rest /\ o.must = j.must /\ o.stack = j.stack
      /\ o.call = j.call
  BY Zenon, <1>2, WalkFacts
<1> HIDE DEF o
<1>4. job'[c] = Found(o)
  BY Zenon, <1>1, <1>3 DEF Goes
<1>5. u \in Owner /\ x \in Name
  BY Zenon, <1>1, HeadTailProperties DEF JobType
<1> DEFINE g == [Frame(Server, {}, "cancel") EXCEPT !.kid = o.node]
           f == Frame(o.node, Name, "check")
           h == Frame(o.node, {Last(o.path)}, "check")
<1>6. f.at = "check" /\ h.at = "check" /\ g.node = Server /\ g.kid = k /\ Len(<<f>>) = 1
      /\ Len(<<h>>) = 1 /\ <<f>>[1] = f /\ <<h>>[1] = h
      /\ Len(<<g, f>>) = 2 /\ <<g, f>>[1] = g /\ <<g, f>>[2] = f
  BY Zenon, <1>3 DEF Frame
<1> HIDE DEF f, h
<1>7. CASE o.way = <<>> /\ o.at = "target" /\ o.call.op = "remove" /\ Len(o.path) = 1
  <2>1. Found(o).stack = <<g, f>>
    BY Zenon, <1>3, <1>7 DEF Found, RemoveFrom, JobType, f
  <2> HIDE DEF g
  <2>2. i = 1 /\ job'[c].stack[i] = g
    BY <1>4, <1>6, <2>1 DEF Holds
  <2>3. fullName[k] = o.path
    <3>1. Place(fullName, k) \o <<>> = o.path
      BY Zenon, <1>1, <1>3, <1>7 DEF JobOK
    <3>2. Place(fullName, k) \in Seq(Name) /\ Place(fullName, k) = fullName[k]
      BY Zenon, <1>3, PlaceFacts
    <3> QED
      BY Zenon, <3>1, <3>2, ConcatEmptySeq
  <2>4. /\ u \in Created \cup {Server} /\ Front(fullName[k]) = Place(fullName, u)
        /\ Last(fullName[k]) = x
    BY <1>2, <1>5, EntryFacts
  <2>5. u = Server
    <3>1. o.path \in Path
      BY Zenon, <1>3, <2>3, PlaceFacts
    <3>2. Place(fullName, u) = <<>>
      BY <3>1, <2>3, <2>4, <1>7, PathFacts
    <3> QED
      BY <2>4, <3>2, PlaceFacts
  <2> QED
    BY Zenon, <2>2, <2>4, <2>5, <1>6
<1>8. CASE ~(o.way = <<>> /\ o.at = "target" /\ o.call.op = "remove" /\ Len(o.path) = 1)
  <2>1. Found(o).stack \in {<<>>, <<f>>, <<h>>}
    BY Zenon, <1>1, <1>3, <1>8 DEF Found, RemoveFrom, JobType, f, h
  <2> QED
    BY SMTT(30), <1>1, <1>4, <1>6, <2>1 DEF Holds
<1> QED
  BY <1>7, <1>8

\* A frame at work on an entry was so before, or has just found it there.
LEMMA NewFrames ==
  ASSUME Typed, Entries, Later, NEW c \in Client, Step(c),
         NEW i \in 1..Len(job'[c].stack), Holds(job'[c].stack[i])
  PROVE  LET g == job'[c].stack[i] IN
         \/ \E k \in 1..Len(job[c].stack) :
              LET f == job[c].stack[k] IN Holds(f) /\ f.node = g.node /\ f.kid = g.kid
         \/ kids[g.node][Last(fullName[g.kid])] = g.kid
<1> USE Constants
<1> DEFINE s == job[c].stack
           g == job'[c].stack[i]
           Old == \E k \in 1..Len(s) : Holds(s[k]) /\ s[k].node = g.node /\ s[k].kid = g.kid
           Own == kids[g.node][Last(fullName[g.kid])] = g.kid
<1> SUFFICES Old \/ Own
  BY Zenon
<1>1. job \in [Client -> JobType] /\ job[c] \in JobType /\ JobOK(job[c], fullName, ended)
  BY DEF Typed, TypedJobs
<1>2. ASSUME NEW j, Goes(c, j) PROVE job'[c] = j
  BY <1>1, <1>2 DEF Goes
<1>3. ASSUME NEW r \in Seq(FrameType), Goes(c, [job[c] EXCEPT !.stack = r])
      PROVE  job'[c].stack = r
  BY <1>1, <1>2, <1>3 DEF JobType
<1>4. ASSUME NEW answer, Ends(c, answer) PROVE FALSE
  <2>1. Over(job[c], answer).stack = <<>>
    BY <1>1 DEF Over, JobType
  <2>2. job'[c].stack = <<>> /\ Len(<<>>) = 0
    BY <1>2, <1>4, <2>1, EmptySeq DEF Ends
  <2> QED
    BY <2>2
<1>5. CASE job[c].at \in {"removing", "subscribing"}
  <2>1. /\ s \in Seq(FrameType) /\ s # <<>> /\ Len(s) \in Nat /\ Len(s) >= 1
        /\ Top(c) = s[Len(s)] /\ Top(c) \in FrameType /\ FrameOK(Top(c), fullName, ended)
    BY <1>5, TopFacts DEF Typed
  <2>2. Len(s) \in 1..Len(s)
    BY <2>1
  <2>3. ASSUME NEW t \in FrameType, Replace(c, t),
               Holds(t) => Holds(Top(c)) /\ t.node = Top(c).node /\ t.kid = Top(c).kid
        PROVE  Old
    <3> DEFINE r == Append(Front(s), t)
    <3>1. /\ r \in Seq(FrameType) /\ Len(r) = Len(s)
          /\ \A k \in 1..Len(r) : r[k] = IF k = Len(s) THEN t ELSE s[k]
      BY <2>1, <2>3, StackFacts
    <3>2. Goes(c, [job[c] EXCEPT !.stack = r])
      BY <2>3, <1>1 DEF Replace, JobType
    <3> HIDE DEF r
    <3>3. job'[c].stack = r
      BY <1>3, <3>1, <3>2
    <3>4. i \in 1..Len(s) /\ g = IF i = Len(s) THEN t ELSE s[i]
      BY SMTT(30), <3>1, <3>3
    <3> QED
      BY <3>4, <2>1, <2>2, <2>3
  <2>4. ASSUME NEW t \in FrameType, NEW f \in FrameType, Push(c, t, f), ~Holds(f),
               Holds(t) => kids[t.node][Last(fullName[t.kid])] = t.kid
        PROVE  Old \/ Own
    <3> DEFINE r == Append(Append(Front(s), t), f)
    <3>1. /\ r \in Seq(FrameType) /\ Len(r) = Len(s) + 1
          /\ \A k \in 1..Len(r) : r[k] = IF k = Len(s) + 1 THEN f
                                         ELSE IF k = Len(s) THEN t ELSE s[k]
      BY <2>1, <2>4, StackFacts
    <3>2. Goes(c, [job[c] EXCEPT !.stack = r])
      BY <2>4, <1>1 DEF Push, JobType
    <3> HIDE DEF r
    <3>3. job'[c].stack = r
      BY <1>3, <3>1, <3>2
    <3>4. g = IF i = Len(s) + 1 THEN f ELSE IF i = Len(s) THEN t ELSE s[i]
      BY <3>1, <3>3
    <3>5. i # Len(s) + 1 => i \in 1..Len(s)
      BY <2>1, <3>1, <3>3
    <3> QED
      BY <3>4, <3>5, <2>1, <2>4
  <2>5. CASE Pop(c)
    <3>1. Len(s) # 1
      BY <1>4, <2>5 DEF Pop
    <3> DEFINE r == Front(s)
    <3>2. /\ r \in Seq(FrameType) /\ Len(r) = Len(s) - 1
          /\ \A k \in 1..(Len(s) - 1) : r[k] = s[k]
      BY <2>1, FrontFacts
    <3>3. Goes(c, [job[c] EXCEPT !.stack = r])
      BY <2>5, <3>1, <1>1 DEF Pop, JobType
    <3> HIDE DEF r
    <3>4. job'[c].stack = r
      BY <1>3, <3>2, <3>3
    <3>5. i \in 1..Len(s) /\ g = s[i]
      BY SMTT(30), <2>1, <3>2, <3>4
    <3> QED
      BY <3>5
  <2>6. CASE UNCHANGED job
    BY Zenon, <2>6
  <2> DEFINE f == Top(c)
  <2>7. CASE RemoveCheck(c) \/ SubscribeOne(c)
    <3> DEFINE m == f.names \cap Kids(f.node)
               t == [f EXCEPT !.at = "range", !.must = m]
               m2 == Kids(f.node)
               t2 == [f EXCEPT !.at = "range", !.must = m2]
    <3>1. \/ Replace(c, t) \/ Replace(c, t2) \/ Ends(c, "err") \/ Pop(c) \/ UNCHANGED job
      BY <2>7 DEF RemoveCheck, SubscribeOne, Panic
    <3>2. m \in SUBSET Name /\ m2 \in SUBSET Name
      BY DEF Kids
    <3> HIDE DEF m, m2
    <3>3. t \in FrameType /\ ~Holds(t) /\ t2 \in FrameType /\ ~Holds(t2)
      BY <2>1, <3>2 DEF FrameType, Holds, Stage
    <3> HIDE DEF t, t2
    <3> QED
      BY <3>1, <3>3, <2>3, <2>5, <2>6, <1>4
  <2>8. CASE RemoveDescend(c)
    <3>1. PICK x \in f.names \cap Kids(f.node) :
          Push(c, [f EXCEPT !.at = "cancel", !.kid = kids[f.node][x], !.must = @ \ {x}],
               Frame(kids[f.node][x], Name, "check"))
      BY Zenon, <2>8 DEF RemoveDescend
    <3> DEFINE k == kids[f.node][x]
               must == f.must \ {x}
               t == [f EXCEPT !.at = "cancel", !.kid = k, !.must = must]
               h == Frame(k, Name, "check")
    <3>2. x \in Name /\ k # NoTopic /\ f.node \in Owner
      BY Zenon, <3>1, <2>1 DEF Kids, FrameType
    <3>3. k \in Topic /\ Last(fullName[k]) = x
      BY Zenon, <3>2, EntryFacts
    <3>4. must \in SUBSET Name /\ Push(c, t, h)
      BY Zenon, <2>1, <3>1 DEF FrameType
    <3>5. kids[f.node][Last(fullName[k])] = k
      BY <3>3
    <3> HIDE DEF k, must
    <3>6. t \in FrameType /\ t.node = f.node /\ t.kid = k
      BY <2>1, <3>3, <3>4 DEF FrameType, Stage
    <3>7. h \in FrameType /\ ~Holds(h)
      BY <3>3 DEF FrameType, Stage, Frame, Holds
    <3> HIDE DEF t, h
    <3> QED
      BY <3>4, <3>5, <3>6, <3>7, <2>4
  <2>9. CASE RemoveReturns(c) \/ SubscribeReturns(c)
    BY <2>5, <2>9 DEF RemoveReturns, SubscribeReturns
  <2>10. CASE RemoveCancel(c)
    <3> DEFINE t == [f EXCEPT !.at = "delete"]
    <3>1. (UNCHANGED job \/ Replace(c, t)) /\ f.at = "cancel"
      BY <2>10 DEF RemoveCancel, Panic
    <3>2. t \in FrameType /\ t.node = f.node /\ t.kid = f.kid
      BY <2>1 DEF FrameType, Stage
    <3> HIDE DEF t
    <3> QED
      BY <3>1, <3>2, <2>3, <2>6 DEF Holds
  <2>11. CASE RemoveDelete(c)
    <3> DEFINE t == [f EXCEPT !.at = "range"]
    <3>1. Replace(c, t) \/ Ends(c, "ok")
      BY <2>11 DEF RemoveDelete
    <3>2. t \in FrameType /\ ~Holds(t)
      BY <2>1 DEF FrameType, Stage, Holds
    <3> HIDE DEF t
    <3> QED
      BY <3>1, <3>2, <2>3, <1>4
  <2>12. CASE SubscribeDescend(c)
    <3>1. PICK x \in f.names \cap Kids(f.node) :
            Push(c, [f EXCEPT !.names = @ \ {x}], Frame(kids[f.node][x], Name, "check"))
      BY Zenon, <2>12 DEF SubscribeDescend
    <3> DEFINE k == kids[f.node][x]
               names == f.names \ {x}
               t == [f EXCEPT !.names = names]
               h == Frame(k, Name, "check")
    <3>2. x \in Name /\ k # NoTopic /\ f.node \in Owner /\ f.at = "range"
      BY Zenon, <2>12, <3>1, <2>1 DEF Kids, FrameType, SubscribeDescend
    <3>3. k \in Topic
      BY <3>2, EntryFacts
    <3>4. names \in SUBSET Name /\ Push(c, t, h)
      BY <2>1, <3>1 DEF FrameType
    <3> HIDE DEF k, names
    <3>6. t \in FrameType /\ ~Holds(t)
      BY <2>1, <3>2, <3>4 DEF FrameType, Stage, Holds
    <3>7. h \in FrameType /\ ~Holds(h)
      BY <3>3 DEF FrameType, Stage, Frame, Holds
    <3> HIDE DEF t, h
    <3> QED
      BY <3>4, <3>6, <3>7, <2>4
  <2> QED
    BY Zenon, <1>5, <2>7, <2>8, <2>9, <2>10, <2>11, <2>12 DEF Step, Walk, RunClean, RunSet,
       NextInQueue, AddCheck, Insert, StartTopic, Unsubscribe, Arrived, At
<1>6. CASE job[c].at \notin {"removing", "subscribing"}
  <2>1. s = <<>> /\ Len(<<>>) = 0
    BY <1>1, <1>6, EmptySeq DEF JobOK
  <2>2. CASE job'[c].at \notin {"removing", "subscribing"}
    <3>1. TypedJobs'
      BY GoesWellStep
    <3>2. job'[c].stack = <<>>
      BY <2>2, <3>1 DEF TypedJobs, JobOK
    <3> QED
      BY <2>1, <3>2
  <2>3. CASE job'[c].at \in {"removing", "subscribing"}
    <3>1. Walk(c)
      BY Zenon, <1>6, <2>3, Turns DEF RemoveCheck, RemoveDescend, RemoveReturns, RemoveCancel,
         RemoveDelete, SubscribeOne, SubscribeDescend, SubscribeReturns, At
    <3> QED
      BY Zenon, <3>1, WalkFrames
  <2> QED
    BY <2>2, <2>3
<1> QED
  BY Zenon, <1>5, <1>6

LEMMA EntriesHeldFrom == Init => EntriesHeld
<1>1. Len(<<>>) = 0
  BY EmptySeq
<1> QED
  BY <1>1 DEF Init, EntriesHeld, At

LEMMA EntriesHeldStay ==
  ASSUME Typed, Entries, Later, EntriesHeld, Orderly, [Next]_vars
  PROVE  EntriesHeld'
<1> USE Constants
<1>1. ASSUME NEW c \in Client, At(c, "insert")'
      PROVE  kids'[job'[c].node][Last(job'[c].path)] = NoTopic
  <2>0. job[c] \in JobType /\ JobOK(job[c], fullName, ended) /\ job \in [Client -> JobType]
    BY DEF Typed, TypedJobs
  <2>1. /\ kids[job'[c].node][Last(job'[c].path)] = NoTopic
        /\ job'[c].node = job[c].node /\ job'[c].path = job[c].path
        /\ job'[c] = job[c] \/ AddCheck(c)
        /\ job[c].path # <<>>
    <3>1. CASE job'[c] = job[c]
      BY <1>1, <2>0, <3>1 DEF EntriesHeld, At, JobOK
    <3>2. CASE job'[c] # job[c]
      <4>1. AddCheck(c)
        BY <1>1, <3>2, OwnSteps, Turns, Starts DEF At
      <4> DEFINE o == [job[c] EXCEPT !.at = "insert"]
      <4>2. o.node = job[c].node /\ o.path = job[c].path
        BY <2>0 DEF JobType
      <4>3. ~Ends(c, "err")
        <5>1. Over(job[c], "err").at = "err"
          BY <2>0 DEF Over, JobType
        <5> QED
          BY <1>1, <2>0, <5>1 DEF Ends, Goes, At
      <4>4. Goes(c, o) /\ kids[job[c].node][Last(job[c].path)] = NoTopic
        BY <4>1, <4>3 DEF AddCheck, Moves
      <4> HIDE DEF o
      <4>5. job'[c] = o
        BY <2>0, <4>4 DEF Goes
      <4> QED
        BY <2>0, <4>1, <4>2, <4>4, <4>5 DEF JobOK, AddCheck, Arrived, At
    <3> QED
      BY <3>1, <3>2
  <2>2. job[c].node \in Owner /\ job[c].path \in Path /\ Last(job[c].path) \in Name
    <3>1. job[c].node \in Owner /\ job[c].path \in Path
      BY <2>0, <2>1 DEF JobType
    <3> QED
      BY <3>1, PathFacts
  <2>3. CASE \A d \in Client : ~Insert(d)
    BY Zenon, <2>1, <2>2, <2>3, EntriesOnlyLost
  <2>4. ASSUME NEW d \in Client, Insert(d) PROVE kids'[job[c].node][Last(job[c].path)] = NoTopic
    <3>1. d # c
      BY Zenon, <1>1, <2>1, <2>4, Turns DEF Step, AddCheck, Insert, Arrived, At
    <3>2. job'[c] = job[c] /\ At(c, "insert")
      BY <1>1, <2>4, <3>1, Turns DEF Step, At
    <3>3. Writes(c) \cap Writes(d) = {}
      BY <3>1 DEF Orderly
    <3>4. ~(job[d].node = job[c].node /\ Last(job[d].path) = Last(job[c].path))
      BY <2>4, <3>2, <3>3 DEF Writes, Insert
    <3>5. \A u \in Owner, y \in Name :
            ~(u = job[d].node /\ y = Last(job[d].path)) => kids'[u][y] = kids[u][y]
      BY SMTT(30), <2>4, InsertFacts
    <3> PICK u, y : u = job[c].node /\ y = Last(job[c].path)
      OBVIOUS
    <3>6. u \in Owner /\ y \in Name /\ ~(u = job[d].node /\ y = Last(job[d].path))
      BY <2>2, <3>4
    <3>7. kids'[u][y] = kids[u][y]
      BY Zenon, <3>5, <3>6
    <3> QED
      BY Zenon, <2>1, <3>7
  <2> QED
    BY <2>1, <2>3, <2>4
<1>2. ASSUME NEW c \in Client, NEW i \in 1..Len(job'[c].stack), Holds(job'[c].stack[i])
      PROVE  LET g == job'[c].stack[i] IN
             kids'[g.node][Last(fullName'[g.kid])] \in {g.kid, NoTopic}
  <2> PICK u, k : u = job'[c].stack[i].node /\ k = job'[c].stack[i].kid
    OBVIOUS
  <2>1. SUFFICES kids'[u][Last(fullName'[k])] \in {k, NoTopic}
    OBVIOUS
  <2>2. /\ kids[u][Last(fullName[k])] \in {k, NoTopic}
        /\ (\E m \in 1..Len(job[c].stack) :
              LET f == job[c].stack[m] IN Holds(f) /\ f.node = u /\ f.kid = k)
           \/ Step(c)
    <3>1. CASE job'[c] = job[c]
      BY Zenon, <1>2, <3>1 DEF EntriesHeld
    <3>2. CASE Step(c)
      <4>1. \/ \E m \in 1..Len(job[c].stack) :
                 LET f == job[c].stack[m] IN Holds(f) /\ f.node = u /\ f.kid = k
            \/ kids[u][Last(fullName[k])] = k
        BY <1>2, <3>2, NewFrames
      <4> QED
        BY Zenon, <3>2, <4>1 DEF EntriesHeld
    <3>3. ASSUME NEW call, Begin(c, call) PROVE FALSE
      <4>1. job'[c].at \notin {"removing", "subscribing"}
        BY <3>3, Starts
      <4>2. TypedJobs'
        BY TypedStep DEF Typed
      <4>3. job'[c].stack = <<>> /\ Len(<<>>) = 0
        BY <4>1, <4>2, EmptySeq DEF TypedJobs, JobOK
      <4> QED
        BY <4>3
    <3> QED
      BY Zenon, <3>1, <3>2, <3>3, OwnSteps
  <2>3. k \in Created /\ u \in Created' \cup {Server}
    <3>1. JobOK(job'[c], fullName', ended') /\ Typed' /\ Entries'
      BY TypedStep DEF Typed, TypedJobs
    <3>2. k \in Created'
      BY <1>2, <3>1 DEF JobOK, FrameOK, Known, Created
    <3>3. u \in Created' \cup {Server}
      BY Zenon, <1>2, <3>1 DEF JobOK, FrameOK, Known, Created
    <3>4. CASE \E m \in 1..Len(job[c].stack) :
                 LET f == job[c].stack[m] IN Holds(f) /\ f.node = u /\ f.kid = k
      <4>1. JobOK(job[c], fullName, ended)
        BY DEF Typed, TypedJobs
      <4> QED
        BY <3>3, <3>4, <4>1 DEF JobOK, FrameOK, Known, Created
    <3>5. CASE Step(c) /\ ~Insert(c)
      <4>1. \A d \in Client : ~Insert(d)
        <5>1. ASSUME NEW d \in Client, Insert(d) PROVE FALSE
          <6>1. d # c
            BY <3>5, <5>1
          <6>2. job'[c] = job[c]
            BY <5>1, <6>1, Turns DEF Step
          <6>3. job'[d] = job[d]
            BY <3>5, <6>1, Turns
          <6>4. job[d].at = "insert"
            BY <5>1 DEF Insert, At
          <6>5. job'[d].at # "insert"
            BY <5>1, <6>4, Turns DEF Step, AddCheck, Arrived, At
          <6> QED
            BY <6>3, <6>4, <6>5
        <5> QED
          BY <5>1
      <4>2. Created' = Created
        BY <4>1, EntriesOnlyLost DEF Created
      <4> QED
        BY <3>2, <3>3, <4>2
    <3>6. CASE Insert(c)
      <4>1. job'[c].at \notin {"removing", "subscribing"}
        BY Zenon, <3>6, Turns DEF Step, Insert, Walk, RemoveCheck, RemoveDescend, RemoveReturns,
           RemoveCancel, RemoveDelete, SubscribeOne, SubscribeDescend, SubscribeReturns, At
      <4>2. job'[c].stack = <<>> /\ Len(<<>>) = 0
        BY <3>1, <4>1, EmptySeq DEF JobOK
      <4> QED
        BY SMTT(30), <1>2, <4>2
    <3> QED
      BY <2>2, <3>4, <3>5, <3>6
  <2>4. fullName'[k] = fullName[k] /\ k \in Topic /\ fullName[k] \in Path
    BY <2>3, OldEntries, PlaceFacts, Constants
  <2>5. Last(fullName[k]) \in Name
    BY <2>4, PathFacts
  <2>6. u \in Owner
    BY Zenon, <2>3 DEF Created
  <2>7. CASE \A d \in Client : ~Insert(d)
    <3>1. kids'[u][Last(fullName[k])] \in {kids[u][Last(fullName[k])], NoTopic}
      BY Zenon, <2>5, <2>6, <2>7, EntriesOnlyLost
    <3> QED
      BY Zenon, <2>2, <2>4, <3>1
  <2>8. ASSUME NEW d \in Client,
     Insert(d) PROVE kids'[u][Last(fullName[k])] = kids[u][Last(fullName[k])]
    <3>1. \E m \in 1..Len(job[c].stack) :
            LET f == job[c].stack[m] IN Holds(f) /\ f.node = u /\ f.kid = k
      <4>1. CASE d = c
        <5>1. job'[c].at \notin {"removing", "subscribing"}
          BY Zenon, <2>8, <4>1, Turns DEF Step, Insert, Walk, RemoveCheck, RemoveDescend,
             RemoveReturns,
             RemoveCancel, RemoveDelete, SubscribeOne, SubscribeDescend, SubscribeReturns, At
        <5>2. TypedJobs'
          BY TypedStep DEF Typed
        <5>3. job'[c].stack = <<>> /\ Len(<<>>) = 0
          BY <5>1, <5>2, EmptySeq DEF TypedJobs, JobOK
        <5> QED
          BY <1>2, <5>3
      <4>2. CASE d # c
        <5>1. job'[c] = job[c]
          BY <2>8, <4>2, Turns DEF Step
        <5> QED
          BY <1>2, <5>1
      <4> QED
        BY <4>1, <4>2
    <3>2. d # c
      <4>1. JobOK(job[c], fullName, ended)
        BY DEF Typed, TypedJobs
      <4>2. At(c, "insert") => job[c].stack = <<>> /\ Len(<<>>) = 0
        BY <4>1, EmptySeq DEF JobOK, At
      <4> QED
        BY <2>8, <3>1, <4>2 DEF Insert
    <3>3. <<u, Last(fullName[k])>> \in Deletes(c)
      BY <3>1 DEF Deletes, Range
    <3>4. ~(job[d].node = u /\ Last(job[d].path) = Last(fullName[k]))
      BY <2>8, <3>2, <3>3 DEF Orderly, Writes, Insert
    <3>5. \A v \in Owner, y \in Name :
            ~(v = job[d].node /\ y = Last(job[d].path)) => kids'[v][y] = kids[v][y]
      BY <2>8, InsertFacts
    <3> QED
      BY <2>5, <2>6, <3>4, <3>5
  <2> QED
    BY Zenon, <2>2, <2>4, <2>7, <2>8
<1> QED
  BY <1>1, <1>2 DEF EntriesHeld, At

-----------------------------------------------------------------------------
(* One run at a time.                                                      *)

LEMMA OneRunFrom == Init => OneRun
BY DEF Init, OneRun, At

\* What happens to runs outside of Run, of the stopper and of Cancel.
LEMMA RunsStay ==
  ASSUME Typed, Entries, Later, [Next]_vars
  PROVE  /\ \A c \in Client : (At(c, "clean")' => At(c, "clean") \/ ~runned)
                           /\ (At(c, "set")' => RunClean(c) \/ (At(c, "set") /\ job'[c] = job[c]))
         /\ \/ UNCHANGED server
            \/ \E c \in Client : RunClean(c) \/ RunSet(c)
            \/ \E r \in 1..MaxRuns : StopperFires(r)
<1>1. ASSUME NEW c \in Client
      PROVE /\ At(c, "clean")' => At(c, "clean") \/ ~runned
            /\ At(c, "set")' => RunClean(c) \/ (At(c, "set") /\ job'[c] = job[c])
  <2>1. CASE job'[c] = job[c]
    BY <2>1 DEF At
  <2>2. CASE job'[c] # job[c]
    BY <2>2, OwnSteps, Turns, Starts DEF At
  <2> QED
    BY <2>1, <2>2
<1>2. \/ UNCHANGED server
      \/ \E c \in Client : RunClean(c) \/ RunSet(c)
      \/ \E r \in 1..MaxRuns : StopperFires(r)
  <2>1. ASSUME NEW c \in Client, \/ Insert(c) \/ StartTopic(c) \/ RemoveCancel(c)
              \/ RemoveDelete(c) \/ SubscribeOne(c) \/ Unsubscribe(c)
        PROVE  UNCHANGED server
    BY <2>1 DEF Insert, StartTopic, RemoveCancel, RemoveDelete, SubscribeOne, Unsubscribe, Panic
  <2>2. ASSUME NEW r, Cancel(r) \/ LoopEnds(r) PROVE UNCHANGED server
    BY <2>2 DEF Cancel, LoopEnds
  <2> QED
    BY <2>1, <2>2, Quiet
<1> QED
  BY <1>1, <1>2

LEMMA OneRunStays ==
  ASSUME Typed, Entries, Later, OneRun, Orderly, [Next]_vars
  PROVE  OneRun'
<1> USE Constants
<1>1. runs \in Nat /\ ended \subseteq ended' /\ TypedVars /\ TypedJobs
  <2>1. TypedVars /\ TypedJobs
    BY DEF Typed
  <2>2. runs \in 0..MaxRuns
    BY <2>1 DEF TypedVars
  <2> QED
    BY <2>1, <2>2 DEF Later, Grows
<1>2. CASE UNCHANGED server
  <2>1. ASSUME NEW c \in Client, RunClean(c) PROVE FALSE
    BY <1>1, <1>2, <2>1 DEF RunClean, server
  <2>2. \A c \in Client : /\ At(c, "clean")' => At(c, "clean") \/ ~runned
                          /\ At(c, "set")' => At(c, "set") /\ job'[c] = job[c]
    BY <2>1, RunsStay
  <2>3. ASSUME ~runned, \A c \in Client : ~At(c, "set")' PROVE \A c \in Client : ~At(c, "set")
    <3> SUFFICES ASSUME NEW c \in Client, At(c, "set") PROVE FALSE
      OBVIOUS
    <3>1. job'[c] # job[c]
      BY <2>3 DEF At
    <3>2. Step(c) \/ \E call : Begin(c, call)
      BY <3>1, OwnSteps
    <3>3. RunSet(c)
      BY <3>2 DEF Begin, Idle, Step, Walk, RunClean, NextInQueue, AddCheck, Insert,
         StartTopic, RemoveCheck, RemoveDescend, RemoveReturns, RemoveCancel, RemoveDelete,
         SubscribeOne, SubscribeDescend, SubscribeReturns, Unsubscribe, Arrived, At
    <3> QED
      BY <1>2, <2>3, <3>3 DEF RunSet, server
  <2>4. UNCHANGED <<runned, runs, stoppers>>
    BY <1>2 DEF server
  <2>5. stoppers' \subseteq {runs'} /\ \A r \in 1..runs' : r # runs' => RunContext(r) \in ended'
    BY <1>1, <2>4 DEF OneRun
  <2>6. \A c \in Client : (At(c, "clean")' => ~runned') /\ (At(c, "set")' => job'[c].run = runs')
    BY <2>2, <2>4 DEF OneRun
  <2>7. (~runned' /\ \A c \in Client : ~At(c, "set")')
          => stoppers' = {} /\ \A r \in 1..runs' : RunContext(r) \in ended'
    BY <1>1, <2>3, <2>4 DEF OneRun
  <2> QED
    BY <2>5, <2>6, <2>7 DEF OneRun, At
<1>3. ASSUME NEW c \in Client, RunClean(c) PROVE OneRun'
  <2>1. /\ At(c, "clean") /\ ~runned /\ runs' = runs + 1 /\ stoppers' = stoppers \cup {runs + 1}
        /\ UNCHANGED <<runned, ended>>
    BY <1>3 DEF RunClean, OneRun
  <2>2. \A d \in Client \ {c} : ~At(d, "clean") /\ ~At(d, "set") /\ job'[d] = job[d]
    BY <1>3, <2>1, Turns DEF Orderly, At, Step
  <2>3. \A d \in Client : ~At(d, "set")
    BY <2>1, <2>2 DEF At
  <2>4. stoppers = {} /\ \A r \in 1..runs : RunContext(r) \in ended
    BY <2>1, <2>3 DEF OneRun
  <2>5. job'[c].at = "set" /\ job'[c].run = runs + 1
    <3> DEFINE run == runs + 1
               o == [job[c] EXCEPT !.at = "set", !.run = run]
    <3>1. Goes(c, o)
      BY <1>3 DEF RunClean
    <3> HIDE DEF run
    <3>2. o.at = "set" /\ o.run = run /\ job \in [Client -> JobType]
      BY <1>1 DEF TypedJobs, JobType
    <3> HIDE DEF o
    <3> QED
      BY <3>1, <3>2 DEF Goes, run
  <2>6. \A r \in 1..runs' : r # runs' => RunContext(r) \in ended'
    BY <1>1, <2>1, <2>4
  <2>7. \A d \in Client : (At(d, "clean")' => ~runned') /\ (At(d, "set")' => job'[d].run = runs')
    BY <2>1, <2>2, <2>5 DEF At
  <2>8. At(c, "set")'
    BY <2>5 DEF At
  <2> QED
    BY <2>1, <2>4, <2>6, <2>7, <2>8 DEF OneRun
<1>4. ASSUME NEW c \in Client, RunSet(c) PROVE OneRun'
  <2>1. At(c, "set") /\ runned' = TRUE /\ UNCHANGED <<runs, stoppers, ended>>
    BY <1>4 DEF RunSet, topics
  <2>2. \A d \in Client \ {c} : ~At(d, "clean") /\ ~At(d, "set") /\ job'[d] = job[d]
    BY <1>4, <2>1, Turns DEF Orderly, At, Step
  <2>3. job'[c].at \notin {"clean", "set"}
    <3>1. ~AddCheck(c) /\ ~RunClean(c)
      BY <2>1 DEF AddCheck, RunClean, Arrived, At
    <3> QED
      BY <1>4, <3>1, Turns DEF Step
  <2>4. \A d \in Client : ~At(d, "clean")' /\ ~At(d, "set")'
    BY <2>2, <2>3 DEF At
  <2> QED
    BY <2>1, <2>4 DEF OneRun
<1>5. ASSUME NEW r \in 1..MaxRuns, StopperFires(r) PROVE OneRun'
  <2>1. /\ r \in stoppers /\ RunContext(r) \in ended /\ stoppers' = stoppers \ {r}
        /\ runned' = FALSE /\ UNCHANGED <<runs, ended, job>>
    BY <1>5 DEF StopperFires, topics
  <2>2. r = runs
    BY <2>1 DEF OneRun
  <2>3. stoppers' = {} /\ \A q \in 1..runs : RunContext(q) \in ended
    BY <2>1, <2>2 DEF OneRun
  <2> QED
    BY <2>1, <2>3 DEF OneRun, At
<1> QED
  BY <1>2, <1>3, <1>4, <1>5, RunsStay

-----------------------------------------------------------------------------
(* No topic that is served gets lost.                                      *)

LEMMA NoneLostFrom == Init => NoneLost
BY DEF Init, NoneLost, Created

\* The context of a topic is in its own line.
LEMMA OwnLine ==
  ASSUME Typed, Lines, NEW n \in Topic, line[n] # {}
  PROVE  n \in line[n]
<1>1. PICK u \in Owner :
          /\ u = Server => \E r \in 1..runs : line[n] = {n, RunContext(r)}
          /\ u # Server => line[n] = {n} \cup line[u]
  BY DEF Lines
<1> QED
  BY <1>1

LEMMA LostStays ==
  ASSUME Typed, Entries, Later, Lines, EntriesHeld, OneRun, NoneLost, Orderly, [Next]_vars,
         NEW n \in Created
  PROVE  (Attached(n) \/ Cancelled(n) \/ NeverStarts(n))'
<1> USE Constants
<1>0. n \in Topic /\ n # NoTopic /\ TypedVars /\ TypedJobs /\ ended \subseteq ended'
  BY DEF Created, Typed, Later, Grows
<1>1. CASE Cancelled(n)
  <2>1. line[n] # {}
    BY <1>1 DEF Cancelled
  <2>2. line'[n] = line[n]
    BY <1>0, <2>1, LinesGrow
  <2> QED
    BY <1>0, <1>1, <2>2 DEF Cancelled
<1>2. CASE NeverStarts(n) /\ ~Attached(n)
  <2>1. line'[n] = {}
    <3> SUFFICES ASSUME line'[n] # {} PROVE FALSE
      OBVIOUS
    <3>1. PICK c \in Client : StartTopic(c) /\ n = job[c].target
      BY <1>0, <1>2, LinesGrow DEF NeverStarts
    <3> QED
      BY <1>2, <3>1 DEF NeverStarts, StartTopic
  <2>2. ASSUME NEW c \in Client, At(c, "start")', job'[c].target = n PROVE FALSE
    <3>1. CASE job'[c] = job[c]
      BY <1>2, <2>2, <3>1 DEF NeverStarts, At
    <3>2. CASE job'[c] # job[c]
      <4>1. Insert(c)
        BY <2>2, <3>2, OwnSteps, Turns, Starts DEF At
      <4>2. job'[c].target = Cardinality(Created) + 1
        BY <2>2, <4>1, StartsNew DEF At
      <4>3. n # Cardinality(Created) + 1
        BY <4>1, InsertFacts
      <4> QED
        BY <2>2, <4>2, <4>3
    <3> QED
      BY <3>1, <3>2
  <2> QED
    BY <2>1, <2>2 DEF NeverStarts, At
<1>3. CASE Attached(n) /\ ~Cancelled(n)
  <2>1. PICK u \in Owner, x \in Name : kids[u][x] = n
    BY <1>3 DEF Attached
  <2>2. CASE kids'[u][x] = n
    BY <2>2 DEF Attached
  <2>3. ASSUME NEW c \in Client, Insert(c) PROVE kids'[u][x] = n
    <3>1. /\ \A v \in Owner, y \in Name :
               ~(v = job[c].node /\ y = Last(job[c].path)) => kids'[v][y] = kids[v][y]
          /\ At(c, "insert")
      BY <2>3, InsertFacts
    <3>2. kids[job[c].node][Last(job[c].path)] = NoTopic
      BY <3>1 DEF EntriesHeld
    <3> QED
      BY <1>0, <2>1, <3>1, <3>2
  <2>4. ASSUME NEW c \in Client, RunClean(c), kids'[u][x] # n
        PROVE  (Cancelled(n) \/ NeverStarts(n))'
    <3>1. /\ At(c, "clean") /\ ~runned /\ UNCHANGED <<ended, line>>
      BY <2>4 DEF RunClean, OneRun
    <3>2. u = Server
      <4>1. kids \in [Owner -> [Name -> Created \cup {NoTopic}]]
        BY <1>0 DEF TypedVars
      <4>2. kids' = kids \/ kids' = [kids EXCEPT ![Server] = [y \in Name |-> NoTopic]]
        BY <2>4 DEF RunClean
      <4> QED
        BY <2>1, <2>4, <4>1, <4>2
    <3>3. \A d \in Client \ {c} : /\ ~At(d, "set")
                                  /\ ~(At(d, "start") /\ job[d].node = Server)
                                  /\ job'[d] = job[d]
      BY <2>4, <3>1, Turns DEF Orderly, At, Step
    <3>4. \A d \in Client : ~At(d, "set")
      BY <3>1, <3>3 DEF At
    <3>5. \A r \in 1..runs : RunContext(r) \in ended
      BY <3>1, <3>4 DEF OneRun
    <3>6. CASE line[n] # {}
      <4>1. PICK v \in Owner : /\ AddedTo(n, v)
                               /\ v = Server => \E r \in 1..runs : line[n] = {n, RunContext(r)}
        BY <1>0, <3>6 DEF Lines
      <4>2. v = Server
        BY <2>1, <3>2, <4>1 DEF AddedTo
      <4> QED
        BY <3>1, <3>5, <4>1, <4>2 DEF Cancelled
    <3>7. CASE line[n] = {}
      <4>1. ASSUME NEW d \in Client, At(d, "start")', job'[d].target = n PROVE FALSE
        <5>1. d # c
          BY Zenon, <2>4, <4>1, Turns DEF Step, Insert, RunClean, At
        <5>2. At(d, "start") /\ job[d].target = n /\ job[d].node # Server
          BY <3>3, <4>1, <5>1 DEF At
        <5>3. AddedTo(n, job[d].node)
          BY <5>2 DEF Lines
        <5> QED
          BY <2>1, <3>2, <5>2, <5>3 DEF AddedTo
      <4> QED
        BY <3>1, <3>7, <4>1 DEF NeverStarts, At
    <3> QED
      BY <3>6, <3>7
  <2>5. ASSUME NEW c \in Client, RemoveDelete(c), kids'[u][x] # n
        PROVE  Cancelled(n)'
    <3> DEFINE s == job[c].stack
               m == Len(s)
               f == Top(c)
               y == Last(fullName[f.kid])
    <3>1. /\ f.at = "delete" /\ job[c].at = "removing" /\ UNCHANGED <<ended, line>>
          /\ kids' = kids \/ kids' = [kids EXCEPT ![f.node][y] = NoTopic]
      BY <2>5 DEF RemoveDelete, At
    <3>2. f = s[m] /\ m \in 1..m /\ FrameOK(f, fullName, ended) /\ f \in FrameType
      BY <1>0, <3>1, TopFacts
    <3>3. u = f.node /\ x = y
      <4>1. kids \in [Owner -> [Name -> Created \cup {NoTopic}]]
        BY <1>0 DEF TypedVars
      <4>2. PICK v, z : v = f.node /\ z = y
        OBVIOUS
      <4>3. kids' = [kids EXCEPT ![v][z] = NoTopic]
        BY <2>1, <2>5, <3>1, <4>2
      <4>4. u = v /\ x = z
        BY ONLY Zenon, <2>1, <2>5, <4>1, <4>3
      <4> QED
        BY <4>2, <4>4
    <3>4. kids[f.node][y] \in {f.kid, NoTopic}
      BY Zenon, <3>1, <3>2 DEF EntriesHeld, Holds
    <3>5. n = f.kid /\ n \in ended
      BY Zenon, <1>0, <2>1, <3>1, <3>2, <3>3, <3>4 DEF FrameOK
    <3>6. line[n] # {}
      BY <1>0, <3>5 DEF Lines
    <3>7. n \in line[n]
      BY <1>0, <3>6, OwnLine
    <3> QED
      BY <3>1, <3>5, <3>7 DEF Cancelled
  <2>6. ASSUME kids' = kids PROVE kids'[u][x] = n
    BY <2>1, <2>6
  <2>7. ASSUME NEW c \in Client, \/ RunSet(c) \/ StartTopic(c) \/ RemoveCancel(c)
                                 \/ SubscribeOne(c) \/ Unsubscribe(c)
        PROVE  kids' = kids
    BY <2>7 DEF RunSet, StartTopic, RemoveCancel, SubscribeOne, Unsubscribe, Panic, topics
  <2>8. ASSUME NEW r, Cancel(r) \/ StopperFires(r) \/ LoopEnds(r) PROVE kids' = kids
    BY <2>8 DEF Cancel, StopperFires, LoopEnds, topics
  <2>9. UNCHANGED <<server, topics>> => kids' = kids
    BY DEF topics
  <2>10. CASE kids'[u][x] # n
    <3>1. \E c \in Client : RunClean(c) \/ RemoveDelete(c)
      BY <2>3, <2>6, <2>7, <2>8, <2>9, <2>10, Quiet
    <3> QED
      BY <2>4, <2>5, <2>10, <3>1
  <2> QED
    BY <2>2, <2>10
<1> QED
  BY <1>1, <1>2, <1>3 DEF NoneLost

LEMMA NoneLostStays ==
  ASSUME Typed, Entries, Later, Lines, EntriesHeld, OneRun, NoneLost, Orderly, [Next]_vars
  PROVE  NoneLost'
<1> SUFFICES ASSUME NEW n \in Created' PROVE (Attached(n) \/ Cancelled(n) \/ NeverStarts(n))'
  BY DEF NoneLost
<1>1. CASE n \in Created
  BY <1>1, LostStays
<1>2. CASE n \notin Created
  <2>1. PICK c \in Client : Insert(c)
    <3> SUFFICES ASSUME \A c \in Client : ~Insert(c) PROVE FALSE
      OBVIOUS
    <3> QED
      BY <1>2, EntriesOnlyLost DEF Created
  <2>2. /\ n = Cardinality(Created) + 1 /\ job[c].node \in Owner /\ Last(job[c].path) \in Name
        /\ kids'[job[c].node][Last(job[c].path)] = Cardinality(Created) + 1
    <3> PICK new, u, y : /\ new = Cardinality(Created) + 1 /\ u = job[c].node
                         /\ y = Last(job[c].path)
      OBVIOUS
    <3>1. /\ Created' = Created \cup {new} /\ u \in Owner /\ y \in Name
          /\ \A v \in Owner, x \in Name : kids'[v][x] = IF v = u /\ x = y THEN new ELSE kids[v][x]
      BY <2>1, InsertFacts
    <3> QED
      BY <1>2, <3>1
  <2> QED
    BY <2>2 DEF Attached
<1> QED
  BY <1>1, <1>2

\* The invariant of the runs whose calls are orderly.
OrderlyInv == Typed /\ Entries /\ Lines /\ EntriesHeld /\ OneRun /\ NoneLost

LEMMA OrderlyInvFrom == Init => OrderlyInv
BY TypesFrom, EntriesFrom, LinesFrom, EntriesHeldFrom, OneRunFrom, NoneLostFrom DEF OrderlyInv

LEMMA OrderlyInvStays == OrderlyInv /\ Orderly /\ [Next]_vars => OrderlyInv'
<1> SUFFICES ASSUME OrderlyInv, Orderly, [Next]_vars PROVE OrderlyInv'
  OBVIOUS
<1>1. Typed' /\ Entries' /\ Later
  BY TypedStep DEF OrderlyInv
<1> QED
  BY <1>1, LinesStay, EntriesHeldStay, OneRunStays, NoneLostStays DEF OrderlyInv

\* What was started and has not been cancelled can be found.
LEMMA StartedInTree ==
  ASSUME OrderlyInv, NEW m \in Topic, line[m] # {}, ~Cancelled(m)
  PROVE  m \in InTree
<1> USE Constants
<1> DEFINE T == {n \in Topic : line[n] # {} /\ ~Cancelled(n) /\ n \notin InTree}
<1>0. Typed /\ Entries /\ Lines /\ NoneLost
  BY DEF OrderlyInv
<1>1. ASSUME NEW n \in Topic, line[n] # {}, ~Cancelled(n), n \notin InTree,
             \A k \in T : n <= k
      PROVE  FALSE
  <2>1. PICK u \in Owner :
          /\ AddedTo(n, u)
          /\ u # Server => u < n /\ line[u] # {} /\ line[n] = {n} \cup line[u]
    BY <1>0, <1>1 DEF Lines
  <2>2. n \in Created
    BY <2>1 DEF AddedTo
  <2>3. Attached(n)
    BY <1>0, <1>1, <2>2 DEF NoneLost, NeverStarts
  <2>4. PICK x \in Name : kids[u][x] = n
    BY <2>1, <2>3 DEF Attached, AddedTo
  <2>5. /\ fullName[n] = Append(Place(fullName, u), x)
        /\ Front(fullName[n]) = Place(fullName, u) /\ Last(fullName[n]) = x
    BY <1>0, <1>1, <2>4, EntryFacts
  <2>6. NodeAt(Place(fullName, u)) = u
    <3>1. CASE u = Server
      BY <1>0, <3>1, NodeFacts DEF Place
    <3>2. CASE u # Server
      <4>1. u \in Topic /\ ~Cancelled(u) /\ line[u] # {}
        BY <1>1, <2>1, <3>2 DEF Cancelled
      <4>3. u \in Nat /\ n \in Nat /\ u < n
        BY <2>1, <3>2, <4>1
      <4>2. u \in InTree
        BY <1>1, <4>1, <4>3
      <4> QED
        BY <1>0, <3>2, <4>2, InTreeFacts DEF Place
    <3> QED
      BY <3>1, <3>2
  <2>7. fullName[n] \in Path
    BY <1>0, <2>2, PlaceFacts
  <2>8. NodeAt(fullName[n]) = kids[u][x]
    BY <1>0, <2>5, <2>6, <2>7, NodeFacts
  <2> QED
    BY <1>0, <1>1, <2>2, <2>4, <2>8, InTreeFacts
<1>2. T = {}
  <2> SUFFICES ASSUME T # {} PROVE FALSE
    OBVIOUS
  <2>1. T \subseteq Nat
    OBVIOUS
  <2>2. PICK n \in T : \A k \in T : n <= k
    <3> HIDE DEF T
    <3> QED
      BY <2>1, LeastNumber
  <2> QED
    BY <1>1, <2>2
<1> QED
  BY <1>2

LEMMA OrderlyInvLeaks == OrderlyInv => NothingLeaks
<1> SUFFICES ASSUME OrderlyInv, NEW n \in live PROVE Cancelled(n) \/ n \in InTree
  BY DEF NothingLeaks
<1>1. n \in Topic /\ line[n] # {}
  BY DEF OrderlyInv, Typed, TypedVars, Created
<1> QED
  BY <1>1, StartedInTree

\* While callers keep the calls apart that write the same entry, and the Runs, a
\* topic that is served and not cancelled can be found in the tree, at every
\* step of every call: no topic is leaked (es/es.go AddTopic, RemoveTopic and
\* Run; es/topic.go addSubtopic, removeSubtopics and run).
THEOREM Leaks == Spec /\ []Orderly => []NothingLeaks
<1>1. Init => OrderlyInv
  BY OrderlyInvFrom
<1>2. OrderlyInv /\ Orderly /\ [Next]_vars => OrderlyInv'
  BY OrderlyInvStays
<1>3. OrderlyInv => NothingLeaks
  BY OrderlyInvLeaks
<1> QED
  BY <1>1, <1>2, <1>3, PTL DEF Spec

\* And then no two topics that are served have the same name (es/README "there
\* is no way to have two topics `/main` on the server").
THEOREM Twins == Spec /\ []Orderly => []NoTwins
<1>1. Init => OrderlyInv
  BY OrderlyInvFrom
<1>2. OrderlyInv /\ Orderly /\ [Next]_vars => OrderlyInv'
  BY OrderlyInvStays
<1>3. OrderlyInv => NoTwins
  <2> SUFFICES ASSUME OrderlyInv, NEW m \in live, NEW n \in live,
                      ~Cancelled(m), ~Cancelled(n), fullName[m] = fullName[n]
               PROVE  m = n
    BY DEF NoTwins
  <2>1. m \in InTree /\ n \in InTree
    BY OrderlyInvLeaks DEF NothingLeaks
  <2> QED
    BY <2>1, InTreeFacts DEF OrderlyInv
<1> QED
  BY <1>1, <1>2, <1>3, PTL DEF Spec

-----------------------------------------------------------------------------
(* What a call of Subscribe covers.                                        *)

LEMMA BeginsFront ==
  ASSUME NEW p \in Seq(Name), NEW q \in Seq(Name), q # <<>>, Begins(p, q)
  PROVE  /\ p = q \/ Begins(p, Front(q))
         /\ Len(p) = Len(q) => p = q
         /\ Len(p) = Len(q) - 1 => p = Front(q)
         /\ Len(q) = Len(p) \/ Len(p) < Len(q)
<1>1. /\ Len(q) \in Nat /\ Len(q) >= 1 /\ Front(q) \in Seq(Name) /\ Len(Front(q)) = Len(q) - 1
      /\ \A i \in 1..(Len(q) - 1) : Front(q)[i] = q[i]
  BY FrontFacts
<1>2. Len(p) \in Nat /\ Len(p) <= Len(q) /\ \A i \in 1..Len(p) : p[i] = q[i]
  BY LenProperties DEF Begins
<1>3. Len(p) = Len(q) => p = q
  BY <1>2, SeqEqual
<1>4. Len(p) = Len(q) - 1 => p = Front(q)
  <2> SUFFICES ASSUME Len(p) = Len(q) - 1 PROVE p = Front(q)
    OBVIOUS
  <2>1. Len(p) = Len(Front(q)) /\ \A i \in 1..Len(p) : p[i] = Front(q)[i]
    BY <1>1, <1>2
  <2> QED
    BY <1>1, <2>1, SeqEqual
<1>5. Len(p) # Len(q) => Begins(p, Front(q))
  BY <1>1, <1>2 DEF Begins
<1> QED
  BY <1>1, <1>2, <1>3, <1>4, <1>5

\* Where there is a topic there are topics above it.
LEMMA Branch ==
  ASSUME Typed, Entries
  PROVE  \A q \in Path : NodeAt(q) # NoTopic =>
           \A p \in Seq(Name) : Begins(p, q) =>
             /\ NodeAt(p) \in Created \cup {Server}
             /\ Len(p) < Len(q) => /\ q[Len(p) + 1] \in Name
                                   /\ kids[NodeAt(p)][q[Len(p) + 1]] # NoTopic
<1> USE Constants
<1> DEFINE Good(p, q) == /\ NodeAt(p) \in Created \cup {Server}
                         /\ Len(p) < Len(q) => /\ q[Len(p) + 1] \in Name
                                               /\ kids[NodeAt(p)][q[Len(p) + 1]] # NoTopic
           S == {q \in Path : NodeAt(q) # NoTopic =>
                   \A p \in Seq(Name) : Begins(p, q) => Good(p, q)}
<1>1. ASSUME NEW q \in Path, Len(q) > 1 => Front(q) \in S PROVE q \in S
  <2> SUFFICES ASSUME NodeAt(q) # NoTopic, NEW p \in Seq(Name), Begins(p, q) PROVE Good(p, q)
    OBVIOUS
  <2>1. /\ q \in Seq(Name) /\ q # <<>> /\ Len(q) \in Nat /\ Len(q) >= 1
        /\ Front(q) \in Seq(Name) /\ Len(Front(q)) = Len(q) - 1
        /\ Last(q) \in Name /\ Last(q) = q[Len(q)]
        /\ Len(q) > 1 => Front(q) \in Path
        /\ Len(q) = 1 => Front(q) = <<>>
    BY PathFacts DEF Last
  <2>2. /\ NodeAt(q) \in Created
        /\ NodeAt(Front(q)) \in Created \cup {Server} /\ NodeAt(Front(q)) # NoTopic
        /\ kids[NodeAt(Front(q))][Last(q)] # NoTopic
    BY NodeFacts
  <2>3. CASE p = q
    BY <2>2, <2>3
  <2>4. CASE Len(p) = Len(q) - 1
    <3>1. p = Front(q) /\ Len(p) + 1 = Len(q)
      BY <2>1, <2>4, BeginsFront
    <3> QED
      BY <2>1, <2>2, <3>1
  <2>5. CASE p # q /\ Len(p) # Len(q) - 1
    <3>1. /\ Len(p) \in Nat /\ Begins(p, Front(q)) /\ Len(p) < Len(q) - 1
      <4>1. Len(p) < Len(q) /\ Begins(p, Front(q))
        BY <2>1, <2>5, BeginsFront
      <4> QED
        BY <2>1, <2>5, <4>1, LenProperties
    <3>2. Front(q) \in S /\ Front(q) \in Path
      BY <1>1, <2>1, <3>1
    <3>3. Good(p, Front(q))
      BY <2>2, <3>1, <3>2
    <3>4. Front(q)[Len(p) + 1] = q[Len(p) + 1]
      <4>1. \A i \in 1..(Len(q) - 1) : Front(q)[i] = q[i]
        BY <2>1, FrontFacts
      <4> QED
        BY <2>1, <3>1, <4>1
    <3> QED
      BY <2>1, <3>1, <3>3, <3>4
  <2> QED
    BY <2>3, <2>4, <2>5
<1>2. Path \subseteq S
  <2> HIDE DEF S
  <2> QED
    BY <1>1, PathInduction
<1> QED
  BY <1>2

\* NodeFacts, of the state a step leads to as well.
LEMMA NodesNamed ==
  Typed /\ Entries =>
    \A p \in Path : /\ NodeAt(p) \in Created \cup {NoTopic}
                    /\ NodeAt(p) # NoTopic => fullName[NodeAt(p)] = p
BY NodeFacts

LEMMA NextNodes ==
  ASSUME Typed', Entries'
  PROVE  \A p \in Path :
           /\ Reach(kids', p) \in Created' \cup {NoTopic}
           /\ Reach(kids', p) # NoTopic => fullName'[Reach(kids', p)] = p
<1>1. (Typed /\ Entries =>
         \A p \in Path : /\ NodeAt(p) \in Created \cup {NoTopic}
                         /\ NodeAt(p) # NoTopic => fullName[NodeAt(p)] = p)'
  BY NodesNamed, PTL
<1>2. \A p \in Path : (NodeAt(p))' = Reach(kids', p)
  BY NodeAtReach
<1> QED
  BY <1>1, <1>2

\* No topic that was created comes back into the tree, or to another place.
LEMMA TreeShrinks ==
  ASSUME Typed, Entries, Later, [Next]_vars
  PROVE  \A q \in Path : Reach(kids', q) \in Created =>
           \A p \in Seq(Name) : Begins(p, q) => Reach(kids', p) = Reach(kids, p)
<1> USE Constants
<1> DEFINE S == {q \in Path : Reach(kids', q) \in Created =>
                   \A p \in Seq(Name) : Begins(p, q) => Reach(kids', p) = Reach(kids, p)}
<1>0. Typed' /\ Entries'
  BY TypedStep
<1>1. ASSUME NEW q \in Path, Len(q) > 1 => Front(q) \in S PROVE q \in S
  <2> SUFFICES ASSUME Reach(kids', q) \in Created, NEW p \in Seq(Name), Begins(p, q)
               PROVE  Reach(kids', p) = Reach(kids, p)
    OBVIOUS
  <2>1. /\ q \in Seq(Name) /\ q # <<>> /\ Len(q) \in Nat /\ Len(q) >= 1
        /\ Front(q) \in Seq(Name) /\ Len(Front(q)) = Len(q) - 1 /\ Last(q) \in Name
        /\ Len(q) > 1 => Front(q) \in Path
        /\ Len(q) = 1 => Front(q) = <<>>
    BY PathFacts
  <2>0. PICK u, x, m : u = Reach(kids', Front(q)) /\ x = Last(q) /\ m = Reach(kids', q)
    OBVIOUS
  <2>2. u # NoTopic /\ m = kids'[u][x] /\ m # NoTopic /\ m \in Topic
    BY <2>0, ReachStep DEF Created
  <2>3. u \in Owner /\ (Len(q) > 1 => u # Server)
    <3>1. CASE Len(q) = 1
      BY <2>0, <2>1, <3>1, ReachEmpty
    <3>2. CASE Len(q) # 1
      <4>1. Front(q) \in Path
        BY <2>1, <3>2
      <4>2. Reach(kids', Front(q)) \in Created' \cup {NoTopic}
        BY <1>0, <4>1, NextNodes
      <4> QED
        BY <2>0, <2>2, <4>2 DEF Created
    <3> QED
      BY <3>1, <3>2
  <2>4. kids[u][x] = m
    BY <2>0, <2>1, <2>2, <2>3, OldEntries
  <2>5. u \in Created \cup {Server}
    BY <2>0, <2>1, <2>2, <2>3, <2>4 DEF Entries
  <2>6. u = Reach(kids, Front(q))
    <3>1. CASE Len(q) = 1
      BY <2>0, <2>1, <3>1, ReachEmpty
    <3>2. CASE Len(q) # 1
      <4>1. Front(q) \in S /\ u \in Created
        BY <1>1, <2>1, <2>3, <2>5, <3>2
      <4>2. Begins(Front(q), Front(q))
        BY <2>1 DEF Begins
      <4> QED
        BY <2>0, <2>1, <4>1, <4>2
    <3> QED
      BY <3>1, <3>2
  <2>7. CASE p = q
    <3>1. Reach(kids, q) = kids[u][x]
      BY <2>0, <2>2, <2>6, ReachStep
    <3> QED
      BY <2>0, <2>4, <2>7, <3>1
  <2>8. CASE p # q
    <3>1. Begins(p, Front(q))
      BY <2>1, <2>8, BeginsFront
    <3>2. CASE Len(q) = 1
      <4>1. p = <<>>
        BY <2>1, <3>1, <3>2, EmptySeq, LenProperties DEF Begins
      <4> QED
        BY <4>1, ReachEmpty
    <3>3. CASE Len(q) # 1
      <4>1. Front(q) \in S /\ u \in Created
        BY <1>1, <2>1, <2>3, <2>5, <3>3
      <4> QED
        BY <2>0, <3>1, <4>1
    <3> QED
      BY <3>2, <3>3
  <2> QED
    BY <2>7, <2>8
<1>2. Path \subseteq S
  <2> HIDE DEF S
  <2> QED
    BY <1>1, PathInduction
<1> QED
  BY <1>2

\* So what is in the tree after a step and was created before was there before.
LEMMA InTreeBefore ==
  ASSUME Typed, Entries, Later, [Next]_vars, NEW n \in Created, n \in InTree'
  PROVE  /\ n \in InTree /\ n \in Topic /\ fullName'[n] = fullName[n] /\ fullName[n] \in Path
         /\ \A p \in Seq(Name) : Begins(p, fullName[n]) => Reach(kids', p) = Reach(kids, p)
<1> USE Constants
<1>1. n \in Topic /\ fullName'[n] = fullName[n] /\ fullName[n] \in Path /\ n # NoTopic
  BY OldEntries, PlaceFacts DEF Created
<1>2. Reach(kids', fullName[n]) = n
  <2>1. PICK p \in Path : n = Reach(kids', p)
    <3>1. \A p \in Path : (NodeAt(p))' = Reach(kids', p)
      BY NodeAtReach
    <3> QED
      BY <3>1 DEF InTree
  <2>2. fullName'[n] = p
    <3>1. Typed' /\ Entries'
      BY TypedStep
    <3> QED
      BY <1>1, <2>1, <3>1, NextNodes
  <2> QED
    BY <1>1, <2>1, <2>2
<1>3. \A p \in Seq(Name) : Begins(p, fullName[n]) => Reach(kids', p) = Reach(kids, p)
  BY <1>1, <1>2, TreeShrinks
<1>4. NodeAt(fullName[n]) = n
  <2>1. fullName[n] \in Seq(Name) /\ Begins(fullName[n], fullName[n])
    BY <1>1, PathFacts DEF Begins
  <2> QED
    BY <1>2, <1>3, <2>1, NodeAtReach
<1> QED
  BY <1>1, <1>3, <1>4, InTreeFacts

\* What lies ahead of an activation stays ahead of it while it is in the tree.
LEMMA AheadStays ==
  ASSUME Typed, Entries, Later, [Next]_vars, NEW n \in Created, n \in InTree',
         NEW f, f.node \in Created \cup {Server}, Ahead(f, n)
  PROVE  Ahead(f, n)'
<1>1. /\ fullName'[n] = fullName[n]
      /\ \A p \in Seq(Name) : Begins(p, fullName[n]) => Reach(kids', p) = Reach(kids, p)
  BY InTreeBefore
<1>2. PICK p : p = Place(fullName, f.node)
  OBVIOUS
<1>3. p \in Seq(Name) /\ Place(fullName', f.node) = p
  <2>1. Place(fullName', f.node) = p
    BY <1>2, OldEntries
  <2> QED
    BY <1>2, <2>1, PlaceFacts
<1>4. /\ NodeAt(p) = f.node /\ Begins(p, fullName[n])
      /\ f.at = "check" \/ ( /\ Len(p) < Len(fullName[n])
                            /\ fullName[n][Len(p) + 1] \in f.names \cap f.must )
  BY <1>2 DEF Ahead
<1>5. Reach(kids', p) = f.node
  BY <1>1, <1>3, <1>4, NodeAtReach
<1>6. (NodeAt(Place(fullName, f.node)))' = f.node
  BY <1>3, <1>5, NodeAtReach
<1> QED
  BY <1>1, <1>3, <1>4, <1>6 DEF Ahead

\* Subscriptions go only when their client unsubscribes.
LEMMA SubsStay ==
  ASSUME Typed, Entries, Later, [Next]_vars, NEW c \in Client, ~Unsubscribe(c), NEW n \in Topic,
         c \in subs[n]
  PROVE  c \in subs'[n]
<1>1. subs \in [Topic -> SUBSET Client]
  BY DEF Typed, TypedVars
<1>2. ASSUME NEW d \in Client, Unsubscribe(d) PROVE c \in subs'[n]
  <2>1. d # c
    BY <1>2
  <2>2. subs' = [subs EXCEPT ![job[d].node] = IF job[d].node \in live THEN @ \ {d} ELSE @]
    BY <1>2 DEF Unsubscribe
  <2> QED
    BY <1>1, <2>1, <2>2
<1>3. ASSUME NEW d \in Client, SubscribeOne(d) PROVE c \in subs'[n]
  <2>1. subs' = subs \/ subs' = [subs EXCEPT ![Top(d).node] = @ \cup {d}]
    BY <1>3 DEF SubscribeOne
  <2> QED
    BY <1>1, <2>1
<1>4. CASE UNCHANGED subs
  BY <1>4
<1>5. ASSUME NEW d \in Client, \/ RunClean(d) \/ RunSet(d) \/ Insert(d) \/ StartTopic(d)
              \/ RemoveCancel(d) \/ RemoveDelete(d)
      PROVE  UNCHANGED subs
  BY <1>5 DEF RunClean, RunSet, Insert, StartTopic, RemoveCancel, RemoveDelete, Panic, topics
<1>6. ASSUME NEW r, Cancel(r) \/ StopperFires(r) \/ LoopEnds(r) PROVE UNCHANGED subs
  BY <1>6 DEF Cancel, StopperFires, LoopEnds, topics
<1>7. UNCHANGED <<server, topics>> => UNCHANGED subs
  BY DEF topics
<1> QED
  BY <1>2, <1>3, <1>4, <1>5, <1>6, <1>7, Quiet

\* Owners stay where they are.
LEMMA OldPlaces ==
  ASSUME Later, NEW u \in Created \cup {Server}
  PROVE  u \in Created' \cup {Server} /\ Place(fullName', u) = Place(fullName, u)
BY DEF Later, Grows, Created, Place

\* What holds of a call while others take steps.
LEMMA CoverByOthers ==
  ASSUME Typed, Entries, Later, [Next]_vars, NEW c \in Client, Cover(c),
         job'[c] = job[c], ~Unsubscribe(c)
  PROVE  Cover(c)'
<1> PICK j : j = job[c]
  OBVIOUS
<1>1. j \in JobType /\ JobOK(j, fullName, ended) /\ job'[c] = j
  BY DEF Typed, TypedJobs
<1>2. \A n \in j.must : n \in Created /\ n \in Topic /\ fullName'[n] = fullName[n]
  BY <1>1, OldEntries DEF JobOK, Known, Created
<1>3. \A n \in j.must : /\ c \in subs[n] => c \in subs'[n]
                        /\ n \in InTree' => n \in InTree
  BY <1>2, SubsStay, InTreeBefore
<1>4. \A i \in 1..Len(j.stack) : j.stack[i].node \in Created \cup {Server}
  BY <1>1 DEF JobOK, FrameOK, Known, Created
<1>5. \A i \in 1..Len(j.stack) :
        Place(fullName', j.stack[i].node) = Place(fullName, j.stack[i].node)
  BY <1>4, OldPlaces
<1>6. ASSUME NEW n \in j.must, n \in InTree', NEW i \in 1..Len(j.stack), Ahead(j.stack[i], n)
      PROVE  Ahead(j.stack[i], n)'
  BY <1>2, <1>4, <1>6, AheadStays
<1>7. /\ j.at \notin {"subscribing", "ok"} => j.must = {}
      /\ j.at = "ok" => \A n \in j.must : n \in InTree => c \in subs[n]
      /\ j.at = "subscribing" =>
            \A i \in 1..Len(j.stack) :
              /\ j.stack[i].at = "check" => j.stack[i].names = Name
              /\ Len(Place(fullName, j.stack[i].node)) = Len(j.path) + i - 1
              /\ j.stack[i].at \in {"check", "range"}
      /\ j.at = "subscribing" =>
            \A n \in j.must :
              /\ Len(fullName[n]) <= Len(j.path) + j.call.depth
              /\ n \in InTree => \/ c \in subs[n]
                                 \/ \E i \in 1..Len(j.stack) : Ahead(j.stack[i], n)
  BY DEF Cover, At
<1>8. j.at = "ok" => \A n \in j.must : n \in InTree' => c \in subs'[n]
  BY <1>3, <1>7
<1>9. j.at = "subscribing" =>
            \A i \in 1..Len(j.stack) :
              /\ j.stack[i].at = "check" => j.stack[i].names = Name
              /\ Len(Place(fullName', j.stack[i].node)) = Len(j.path) + i - 1
              /\ j.stack[i].at \in {"check", "range"}
  BY <1>5, <1>7
<1>10. j.at = "subscribing" =>
            \A n \in j.must :
              /\ Len(fullName'[n]) <= Len(j.path) + j.call.depth
              /\ n \in InTree' => \/ c \in subs'[n]
                                  \/ \E i \in 1..Len(j.stack) : Ahead(j.stack[i], n)'
  BY <1>2, <1>3, <1>6, <1>7
<1> QED
  BY <1>1, <1>7, <1>8, <1>9, <1>10 DEF Cover, At

\* What a step of the call itself does to Cover, when the tree stays as it is.
LEMMA CoverByStack ==
  ASSUME Typed, NEW c \in Client, Cover(c), At(c, "subscribing"),
         UNCHANGED <<kids, fullName>>,
         \A n \in Topic : c \in subs[n] => c \in subs'[n],
         NEW r \in Seq(FrameType), job'[c] = [job[c] EXCEPT !.stack = r],
         \A i \in 1..Len(r) : /\ r[i].at = "check" => r[i].names = Name
                              /\ Len(Place(fullName, r[i].node)) = Len(job[c].path) + i - 1
                              /\ r[i].at \in {"check", "range"},
         \A n \in job[c].must, i \in 1..Len(job[c].stack) :
            n \in InTree /\ Ahead(job[c].stack[i], n)
              => c \in subs'[n] \/ \E k \in 1..Len(r) : Ahead(r[k], n)
  PROVE  Cover(c)'
<1> PICK j : j = job[c]
  OBVIOUS
<1> PICK q : q = r
  OBVIOUS
<1>1. /\ j \in JobType /\ job'[c] = [j EXCEPT !.stack = q] /\ j.at = "subscribing"
      /\ JobOK(j, fullName, ended)
  BY DEF Typed, TypedJobs, At
<1>2. /\ job'[c].at = "subscribing" /\ job'[c].stack = q /\ job'[c].must = j.must
      /\ job'[c].path = j.path /\ job'[c].call = j.call
  BY <1>1 DEF JobType
<1>3. \A n : (NodeAt(n))' = NodeAt(n') /\ (n \in InTree' <=> n \in InTree)
  <2>1. \A p : (NodeAt(p))' = Reach(kids', p') /\ NodeAt(p) = Reach(kids, p)
    BY NodeAtReach
  <2>2. \A p \in Path : (NodeAt(p))' = NodeAt(p)
    BY <2>1
  <2> QED
    BY <2>1, <2>2, NodeAtReach DEF InTree
<1>4. ASSUME NEW f, NEW n, Ahead(f, n) PROVE Ahead(f, n)'
  <2>1. Place(fullName', f.node) = Place(fullName, f.node)
    OBVIOUS
  <2>2. (NodeAt(Place(fullName, f.node)))' = NodeAt(Place(fullName, f.node))
    BY <2>1, NodeAtReach
  <2> QED
    BY <1>4, <2>1, <2>2 DEF Ahead
<1>5. j.must \subseteq Topic
  BY <1>1 DEF JobType
<1>6. \A n \in j.must :
         /\ Len(fullName[n]) <= Len(j.path) + j.call.depth
         /\ n \in InTree => \/ c \in subs[n]
                            \/ \E i \in 1..Len(j.stack) : Ahead(j.stack[i], n)
  BY DEF Cover
<1>7. \A n \in j.must :
         /\ Len(fullName'[n]) <= Len(j.path) + j.call.depth
         /\ n \in InTree' => \/ c \in subs'[n]
                             \/ \E k \in 1..Len(q) : Ahead(q[k], n)'
  <2> SUFFICES ASSUME NEW n \in j.must
               PROVE  /\ Len(fullName'[n]) <= Len(j.path) + j.call.depth
                      /\ n \in InTree' => \/ c \in subs'[n]
                                          \/ \E k \in 1..Len(q) : Ahead(q[k], n)'
    OBVIOUS
  <2>1. n \in InTree => c \in subs'[n] \/ \E k \in 1..Len(q) : Ahead(q[k], n)
    BY <1>5, <1>6
  <2> QED
    BY <1>3, <1>4, <1>6, <2>1
<1>8. \A i \in 1..Len(q) : /\ q[i].at = "check" => q[i].names = Name
                           /\ Len(Place(fullName', q[i].node)) = Len(j.path) + i - 1
                           /\ q[i].at \in {"check", "range"}
  OBVIOUS
<1> QED
  BY <1>2, <1>7, <1>8 DEF Cover, At

LEMMA CoverByEnd ==
  ASSUME Typed, NEW c \in Client, Cover(c), NEW answer \in {"ok", "err"}, Ends(c, answer),
         UNCHANGED <<kids, fullName>>,
         answer = "ok" => \A n \in job[c].must : n \in InTree => c \in subs'[n]
  PROVE  Cover(c)'
<1> PICK j : j = job[c]
  OBVIOUS
<1>1. j \in JobType /\ job \in [Client -> JobType]
  BY DEF Typed, TypedJobs
<1>2. /\ Over(j, answer).at = answer
      /\ Over(j, answer).must = IF answer = "ok" THEN j.must ELSE {}
  BY <1>1 DEF Over, JobType
<1>3. job'[c] = Over(j, answer)
  BY <1>1 DEF Ends, Goes
<1>4. InTree' = InTree
  <2>1. \A p \in Path : (NodeAt(p))' = NodeAt(p)
    BY NodeAtReach
  <2> QED
    BY <2>1 DEF InTree
<1>5. job'[c].at = answer /\ job'[c].must = IF answer = "ok" THEN j.must ELSE {}
  BY <1>2, <1>3
<1> QED
  BY <1>4, <1>5 DEF Cover, At

LEMMA CoverByPop ==
  ASSUME Typed, NEW c \in Client, Cover(c), At(c, "subscribing"), Pop(c),
         UNCHANGED <<kids, fullName>>,
         \A n \in Topic : c \in subs[n] => c \in subs'[n],
         \A n \in job[c].must : n \in InTree /\ Ahead(Top(c), n) => c \in subs'[n]
  PROVE  Cover(c)'
<1> DEFINE s == job[c].stack
<1>1. /\ job[c] \in JobType /\ s \in Seq(FrameType) /\ s # <<>>
      /\ Len(s) \in Nat /\ Len(s) >= 1 /\ Top(c) = s[Len(s)] /\ job \in [Client -> JobType]
      /\ job[c].must \subseteq Topic
  BY TopFacts DEF Typed, TypedJobs, At, JobType
<1>2. \A n \in job[c].must : n \in InTree => \/ c \in subs[n]
                                            \/ \E i \in 1..Len(s) : Ahead(s[i], n)
  BY DEF Cover
<1>3. CASE Len(s) = 1
  <2>1. Ends(c, "ok")
    BY <1>3 DEF Pop
  <2>2. \A n \in job[c].must : n \in InTree => c \in subs'[n]
    <3> SUFFICES ASSUME NEW n \in job[c].must, n \in InTree PROVE c \in subs'[n]
      OBVIOUS
    <3>1. c \in subs[n] \/ \E i \in 1..1 : Ahead(s[i], n)
      BY <1>2, <1>3
    <3>2. CASE \E i \in 1..1 : Ahead(s[i], n)
      <4>1. Ahead(s[1], n)
        BY <3>2
      <4>2. Top(c) = s[1]
        BY <1>1, <1>3
      <4> QED
        BY <4>1, <4>2
    <3> QED
      BY <1>1, <3>1, <3>2
  <2> QED
    BY <2>1, <2>2, CoverByEnd
<1>4. CASE Len(s) # 1
  <2> DEFINE r == Front(s)
  <2>1. /\ r \in Seq(FrameType) /\ Len(r) = Len(s) - 1
        /\ \A i \in 1..(Len(s) - 1) : r[i] = s[i]
    BY <1>1, FrontFacts
  <2>2. job'[c] = [job[c] EXCEPT !.stack = r]
    BY <1>1, <1>4 DEF Pop, Goes, JobType
  <2> HIDE DEF r
  <2>3. \A i \in 1..Len(r) : i \in 1..Len(s) /\ r[i] = s[i]
    BY <1>1, <2>1
  <2>4. \A i \in 1..Len(r) :
          /\ r[i].at = "check" => r[i].names = Name
          /\ Len(Place(fullName, r[i].node)) = Len(job[c].path) + i - 1
          /\ r[i].at \in {"check", "range"}
    BY <2>3 DEF Cover
  <2>5. ASSUME NEW n \in job[c].must, NEW i \in 1..Len(s), n \in InTree, Ahead(s[i], n)
        PROVE  c \in subs'[n] \/ \E k \in 1..Len(r) : Ahead(r[k], n)
    <3>1. CASE i = Len(s)
      BY <1>1, <2>5, <3>1
    <3>2. CASE i # Len(s)
      <4>1. i \in 1..Len(r) /\ r[i] = s[i]
        BY <1>1, <2>1, <3>2
      <4> QED
        BY <2>5, <4>1
    <3> QED
      BY <3>1, <3>2
  <2> QED
    BY <2>1, <2>2, <2>4, <2>5, CoverByStack
<1> QED
  BY <1>3, <1>4

\* What lies ahead of an activation is its topic or below a subtopic of it.
LEMMA AheadOf ==
  ASSUME Typed, Entries, NEW n, n \in InTree, NEW f, f.node \in Created \cup {Server}, Ahead(f, n)
  PROVE  LET p == Place(fullName, f.node)
             x == fullName[n][Len(p) + 1]
         IN
         /\ Len(p) \in Nat /\ Len(fullName[n]) \in Nat
         /\ n = f.node \/ Len(p) < Len(fullName[n])
         /\ Len(fullName[n]) <= Len(p) => n = f.node
         /\ Len(p) < Len(fullName[n]) => x \in Kids(f.node)
<1> USE Constants
<1> DEFINE p == Place(fullName, f.node)
           q == fullName[n]
           x == q[Len(p) + 1]
<1>1. /\ p \in Seq(Name) /\ q \in Path /\ q \in Seq(Name) /\ q # <<>> /\ NodeAt(q) = n
      /\ Len(p) \in Nat /\ Len(q) \in Nat /\ n # NoTopic
  <2>1. n \in Created /\ NodeAt(q) = n
    BY InTreeFacts
  <2>2. q \in Path /\ n # NoTopic
    BY <2>1, PlaceFacts DEF Created
  <2>3. p \in Seq(Name)
    BY PlaceFacts
  <2> QED
    BY <2>1, <2>2, <2>3, PathFacts, LenProperties
<1>2. NodeAt(p) = f.node /\ Begins(p, q)
  BY DEF Ahead
<1> HIDE DEF p, q
<1>3. (Len(q) = Len(p) \/ Len(p) < Len(q)) /\ (Len(p) = Len(q) => p = q)
  BY <1>1, <1>2, BeginsFront
<1>4. p = q => n = f.node
  BY <1>1, <1>2
<1>5. Len(p) < Len(q) => x \in Name /\ kids[f.node][x] # NoTopic
  BY <1>1, <1>2, Branch
<1>6. Len(p) < Len(q) => x \in Kids(f.node)
  BY <1>5 DEF Kids
<1>7. Len(q) <= Len(p) => Len(p) = Len(q)
  BY <1>1, <1>3
<1> QED
  BY <1>1, <1>3, <1>4, <1>6, <1>7 DEF p, q

\* What Cover says of the top of the stack.
LEMMA CoverTop ==
  ASSUME Typed, NEW c \in Client, Cover(c), At(c, "subscribing")
  PROVE  /\ job[c] \in JobType /\ job \in [Client -> JobType]
         /\ job[c].stack \in Seq(FrameType) /\ job[c].stack # <<>>
         /\ Len(job[c].stack) \in Nat /\ Len(job[c].stack) >= 1
         /\ Top(c) = job[c].stack[Len(job[c].stack)] /\ Top(c) \in FrameType
         /\ Top(c).node \in Created \cup {Server} /\ Top(c).node \in Owner
         /\ Top(c).at = "check" => Top(c).names = Name
         /\ Len(Place(fullName, Top(c).node)) = Len(job[c].path) + Len(job[c].stack) - 1
         /\ Top(c).at \in {"check", "range"}
         /\ Len(job[c].path) \in Nat /\ job[c].call.depth \in Nat
         /\ job[c].must \subseteq Topic
<1> DEFINE s == job[c].stack
<1>1. /\ job[c] \in JobType /\ s \in Seq(FrameType) /\ s # <<>> /\ job \in [Client -> JobType]
      /\ Len(s) \in Nat /\ Len(s) >= 1 /\ Top(c) = s[Len(s)] /\ Top(c) \in FrameType
      /\ FrameOK(Top(c), fullName, ended) /\ JobOK(job[c], fullName, ended)
  BY TopFacts DEF Typed, TypedJobs, At
<1>2. Top(c).node \in Created \cup {Server} /\ Top(c).node \in Owner
  BY <1>1 DEF FrameOK, Known, Created, FrameType
<1>3. Len(s) \in 1..Len(s)
  BY <1>1
<1>4. /\ Top(c).at = "check" => Top(c).names = Name
      /\ Len(Place(fullName, Top(c).node)) = Len(job[c].path) + Len(s) - 1
      /\ Top(c).at \in {"check", "range"}
  BY <1>1, <1>3 DEF Cover
<1>5. job[c].path \in Seq(Name)
  BY <1>1, PathFacts, EmptySeq DEF JobType
<1>6. Len(job[c].path) \in Nat
  BY <1>5, LenProperties
<1>7. job[c].call.depth \in Nat /\ job[c].must \subseteq Topic
  BY <1>1 DEF JobType, Request
<1> QED
  BY <1>1, <1>2, <1>4, <1>6, <1>7

\* The top of the stack is replaced.
LEMMA CoverByReplace ==
  ASSUME Typed, NEW c \in Client, Cover(c), At(c, "subscribing"),
         UNCHANGED <<kids, fullName>>,
         \A n \in Topic : c \in subs[n] => c \in subs'[n],
         NEW t \in FrameType, t.node = Top(c).node, t.at = "range",
         Replace(c, t),
         \A n \in job[c].must :
            n \in InTree /\ Ahead(Top(c), n) => c \in subs'[n] \/ Ahead(t, n)
  PROVE  Cover(c)'
<1> DEFINE s == job[c].stack
           r == Append(Front(s), t)
<1>1. /\ job[c] \in JobType /\ s \in Seq(FrameType) /\ s # <<>> /\ job \in [Client -> JobType]
      /\ Len(s) \in Nat /\ Len(s) >= 1 /\ Top(c) = s[Len(s)]
      /\ Len(Place(fullName, Top(c).node)) = Len(job[c].path) + Len(s) - 1
      /\ Len(job[c].path) \in Nat
  BY CoverTop
<1>2. \A i \in 1..Len(s) :
        /\ s[i].at = "check" => s[i].names = Name
        /\ Len(Place(fullName, s[i].node)) = Len(job[c].path) + i - 1
        /\ s[i].at \in {"check", "range"}
  BY DEF Cover
<1>3. /\ r \in Seq(FrameType) /\ Len(r) = Len(s)
      /\ \A k \in 1..Len(r) : r[k] = IF k = Len(s) THEN t ELSE s[k]
  BY <1>1, StackFacts
<1>4. job'[c] = [job[c] EXCEPT !.stack = r]
  BY <1>1 DEF Replace, Goes, JobType
<1> HIDE DEF r
<1>5. \A i \in 1..Len(r) :
        /\ r[i].at = "check" => r[i].names = Name
        /\ Len(Place(fullName, r[i].node)) = Len(job[c].path) + i - 1
        /\ r[i].at \in {"check", "range"}
  BY <1>1, <1>2, <1>3
<1>6. ASSUME NEW n \in job[c].must, NEW i \in 1..Len(s), n \in InTree, Ahead(s[i], n)
      PROVE  c \in subs'[n] \/ \E k \in 1..Len(r) : Ahead(r[k], n)
  <2>1. CASE i = Len(s)
    BY <1>1, <1>3, <1>6, <2>1
  <2>2. CASE i # Len(s)
    BY <1>1, <1>3, <1>6, <2>2
  <2> QED
    BY <2>1, <2>2
<1> QED
  BY <1>1, <1>3, <1>4, <1>5, <1>6, CoverByStack

\* The top of the stack is replaced and an activation put on it.
LEMMA CoverByPush ==
  ASSUME Typed, NEW c \in Client, Cover(c), At(c, "subscribing"),
         UNCHANGED <<kids, fullName>>,
         \A n \in Topic : c \in subs[n] => c \in subs'[n],
         NEW t \in FrameType, t.node = Top(c).node, t.at = "range",
         NEW g \in FrameType, g.at = "check", g.names = Name,
         Len(Place(fullName, g.node)) = Len(Place(fullName, t.node)) + 1,
         Push(c, t, g),
         \A n \in job[c].must :
            n \in InTree /\ Ahead(Top(c), n) => Ahead(t, n) \/ Ahead(g, n)
  PROVE  Cover(c)'
<1> DEFINE s == job[c].stack
           r == Append(Append(Front(s), t), g)
<1>1. /\ job[c] \in JobType /\ s \in Seq(FrameType) /\ s # <<>> /\ job \in [Client -> JobType]
      /\ Len(s) \in Nat /\ Len(s) >= 1 /\ Top(c) = s[Len(s)]
      /\ Len(Place(fullName, Top(c).node)) = Len(job[c].path) + Len(s) - 1
      /\ Len(job[c].path) \in Nat
  BY CoverTop
<1>2. \A i \in 1..Len(s) :
        /\ s[i].at = "check" => s[i].names = Name
        /\ Len(Place(fullName, s[i].node)) = Len(job[c].path) + i - 1
        /\ s[i].at \in {"check", "range"}
  BY DEF Cover
<1>3. /\ r \in Seq(FrameType) /\ Len(r) = Len(s) + 1
      /\ \A k \in 1..Len(r) : r[k] = IF k = Len(s) + 1 THEN g
                                     ELSE IF k = Len(s) THEN t ELSE s[k]
  BY <1>1, StackFacts
<1>4. job'[c] = [job[c] EXCEPT !.stack = r]
  BY <1>1 DEF Push, Goes, JobType
<1> HIDE DEF r
<1>5. /\ r[Len(s) + 1] = g /\ r[Len(s)] = t
      /\ Len(s) \in 1..Len(r) /\ Len(s) + 1 \in 1..Len(r)
      /\ \A i \in 1..Len(r) : i = Len(s) + 1 \/ i = Len(s) \/ (i \in 1..Len(s) /\ r[i] = s[i])
  <2>1. /\ Len(s) \in 1..Len(r) /\ Len(s) + 1 \in 1..Len(r) /\ Len(s) # Len(s) + 1
        /\ \A i \in 1..Len(r) : i = Len(s) + 1 \/ i = Len(s) \/ i \in 1..Len(s)
    BY <1>1, <1>3
  <2>2. r[Len(s) + 1] = g /\ r[Len(s)] = t
    BY <1>3, <2>1
  <2>3. \A i \in 1..Len(r) : i # Len(s) + 1 /\ i # Len(s) => r[i] = s[i]
    BY <1>3
  <2> QED
    BY <2>1, <2>2, <2>3
<1>6. /\ Len(Place(fullName, t.node)) = Len(job[c].path) + Len(s) - 1
      /\ Len(Place(fullName, g.node)) = Len(job[c].path) + (Len(s) + 1) - 1
  BY <1>1
<1>7. \A i \in 1..Len(r) :
        /\ r[i].at = "check" => r[i].names = Name
        /\ Len(Place(fullName, r[i].node)) = Len(job[c].path) + i - 1
        /\ r[i].at \in {"check", "range"}
  <2> SUFFICES ASSUME NEW i \in 1..Len(r)
               PROVE  /\ r[i].at = "check" => r[i].names = Name
                      /\ Len(Place(fullName, r[i].node)) = Len(job[c].path) + i - 1
                      /\ r[i].at \in {"check", "range"}
    OBVIOUS
  <2>1. CASE i = Len(s) + 1
    BY <1>5, <1>6, <2>1
  <2>2. CASE i = Len(s)
    <3>1. r[i] = t /\ t.at = "range" /\ t.at # "check"
      BY <1>5, <2>2
    <3> QED
      BY <1>6, <2>2, <3>1
  <2>3. CASE i \in 1..Len(s) /\ r[i] = s[i]
    BY <1>2, <2>3
  <2> QED
    BY <1>5, <2>1, <2>2, <2>3
<1>8. ASSUME NEW n \in job[c].must, NEW i \in 1..Len(s), n \in InTree, Ahead(s[i], n)
      PROVE  c \in subs'[n] \/ \E k \in 1..Len(r) : Ahead(r[k], n)
  <2>1. CASE i = Len(s)
    <3>1. Ahead(t, n) \/ Ahead(g, n)
      BY <1>1, <1>8, <2>1
    <3> QED
      BY <1>5, <3>1
  <2>2. CASE i # Len(s)
    <3>1. i \in 1..Len(r) /\ r[i] = s[i]
      BY <1>1, <1>3, <2>2
    <3> QED
      BY <1>8, <3>1
  <2> QED
    BY <2>1, <2>2
<1> QED
  BY <1>1, <1>3, <1>4, <1>7, <1>8, CoverByStack

\* A step of Subscribe covers its topic, or what lies ahead of it still lies
\* ahead of it or of the activation on top of it.
LEMMA CoverBySubscribe ==
  ASSUME Typed, Entries, Later, [Next]_vars, NEW c \in Client, Cover(c),
         SubscribeOne(c) \/ SubscribeDescend(c) \/ SubscribeReturns(c)
  PROVE  Cover(c)'
<1> USE Constants
<1> DEFINE f == Top(c)
           s == job[c].stack
<1>1. At(c, "subscribing") /\ UNCHANGED <<kids, fullName>>
  BY DEF SubscribeOne, SubscribeDescend, SubscribeReturns, topics
<1>2. \A n \in Topic : c \in subs[n] => c \in subs'[n]
  <2>1. ~Unsubscribe(c)
    BY <1>1 DEF Unsubscribe, Arrived, At
  <2> QED
    BY <2>1, SubsStay
<1>3. /\ job[c] \in JobType /\ f \in FrameType /\ Len(s) \in Nat
      /\ f.node \in Created \cup {Server} /\ f.node \in Owner
      /\ f.at = "check" => f.names = Name
      /\ Len(Place(fullName, f.node)) = Len(job[c].path) + Len(s) - 1
      /\ Len(job[c].path) \in Nat /\ job[c].call.depth \in Nat
      /\ job[c].must \subseteq Topic
  BY <1>1, CoverTop
<1>4. ASSUME NEW n \in job[c].must, n \in InTree, Ahead(f, n)
      PROVE  LET p == Place(fullName, f.node)
                 x == fullName[n][Len(p) + 1]
             IN
             /\ Len(p) \in Nat /\ Len(fullName[n]) \in Nat
             /\ n = f.node \/ Len(p) < Len(fullName[n])
             /\ Len(fullName[n]) <= Len(p) => n = f.node
             /\ Len(p) < Len(fullName[n]) => x \in Kids(f.node)
             /\ Len(fullName[n]) <= Len(job[c].path) + job[c].call.depth
  <2>1. Len(fullName[n]) <= Len(job[c].path) + job[c].call.depth
    BY <1>1 DEF Cover
  <2> QED
    BY <1>3, <1>4, <2>1, AheadOf
<1>5. CASE SubscribeOne(c)
  <2>1. CASE f.node \notin live
    BY <1>1, <1>5, <2>1, CoverByEnd DEF SubscribeOne
  <2>2. CASE f.node \in live
    <3>1. /\ f.at = "check" /\ subs' = [subs EXCEPT ![f.node] = @ \cup {c}]
          /\ IF Deeper(c) THEN Replace(c, [f EXCEPT !.at = "range", !.must = Kids(f.node)])
             ELSE Pop(c)
      BY <1>5, <2>2 DEF SubscribeOne
    <3>2. f.node \in Topic /\ c \in subs'[f.node]
      <4>1. TypedVars
        BY DEF Typed
      <4>2. f.node \in Topic /\ subs \in [Topic -> SUBSET Client]
        BY <2>2, <4>1 DEF TypedVars, Created
      <4> QED
        BY <3>1, <4>2
    <3>3. CASE Deeper(c)
      <4> DEFINE must == Kids(f.node)
                 t == [f EXCEPT !.at = "range", !.must = must]
      <4>1. must \in SUBSET Name
        BY DEF Kids
      <4>2. Replace(c, t)
        BY <3>1, <3>3
      <4> HIDE DEF must
      <4>3. /\ t \in FrameType /\ t.node = f.node /\ t.at = "range" /\ t.must = must
            /\ t.names = f.names
        BY <1>3, <4>1 DEF FrameType, Stage
      <4> HIDE DEF t
      <4>4. ASSUME NEW n \in job[c].must, n \in InTree, Ahead(f, n)
            PROVE  c \in subs'[n] \/ Ahead(t, n)
        <5>1. CASE n = f.node
          BY <3>2, <5>1
        <5>2. CASE n # f.node
          <6> DEFINE p == Place(fullName, f.node)
                     x == fullName[n][Len(p) + 1]
          <6>1. Len(p) < Len(fullName[n]) /\ x \in must /\ x \in Name
            BY <1>4, <4>1, <4>4, <5>2 DEF must
          <6>2. x \in t.names \cap t.must
            BY <1>3, <3>1, <4>3, <6>1
          <6>3. NodeAt(p) = f.node /\ Begins(p, fullName[n])
            BY <4>4 DEF Ahead
          <6> QED
            BY <4>3, <6>1, <6>2, <6>3 DEF Ahead
        <5> QED
          BY <5>1, <5>2
      <4> QED
        BY <1>1, <1>2, <4>2, <4>3, <4>4, CoverByReplace
    <3>4. CASE ~Deeper(c)
      <4>1. ~(Len(s) <= job[c].call.depth)
        BY <3>4 DEF Deeper
      <4>2. \A n \in job[c].must : n \in InTree /\ Ahead(f, n) => c \in subs'[n]
        <5> SUFFICES ASSUME NEW n \in job[c].must, n \in InTree, Ahead(f, n) PROVE c \in subs'[n]
          OBVIOUS
        <5>1. /\ Len(fullName[n]) <= Len(job[c].path) + job[c].call.depth
              /\ Len(fullName[n]) \in Nat
              /\ Len(fullName[n]) <= Len(Place(fullName, f.node)) => n = f.node
          BY <1>4
        <5>2. n = f.node
          <6> PICK a, b, d, e, h : /\ a = Len(fullName[n]) /\ b = Len(job[c].path)
                                   /\ d = job[c].call.depth /\ e = Len(s)
                                   /\ h = Len(Place(fullName, f.node))
            OBVIOUS
          <6>1. /\ a \in Nat /\ b \in Nat /\ d \in Nat /\ e \in Nat
                /\ a <= b + d /\ h = b + e - 1 /\ ~(e <= d)
            BY <1>3, <4>1, <5>1
          <6>2. a <= h
            BY ONLY <6>1
          <6> QED
            BY <5>1, <6>2
        <5> QED
          BY <3>2, <5>2
      <4>3. Pop(c)
        BY <3>1, <3>4
      <4> QED
        BY <1>1, <1>2, <4>2, <4>3, CoverByPop
    <3> QED
      BY <3>3, <3>4
  <2> QED
    BY <2>1, <2>2
<1>6. CASE SubscribeDescend(c)
  <2>1. PICK x \in f.names \cap Kids(f.node) :
          Push(c, [f EXCEPT !.names = @ \ {x}], Frame(kids[f.node][x], Name, "check"))
    BY <1>6 DEF SubscribeDescend
  <2> DEFINE k == kids[f.node][x]
             names == f.names \ {x}
             t == [f EXCEPT !.names = names]
             g == Frame(k, Name, "check")
             p == Place(fullName, f.node)
  <2>2. f.at = "range" /\ x \in Name /\ k # NoTopic
    BY <1>6, <2>1 DEF SubscribeDescend, Kids
  <2>3. k \in Created /\ k \in Topic /\ fullName[k] = Append(p, x)
    BY <1>3, <2>2, EntryFacts
  <2>4. names \in SUBSET Name /\ Push(c, t, g)
    BY <1>3, <2>1 DEF FrameType
  <2>5. p \in Seq(Name) /\ Len(p) \in Nat
    BY <1>3, PlaceFacts, LenProperties
  <2>6. Append(p, x) \in Path /\ Place(fullName, k) = Append(p, x)
    BY <2>3, PlaceFacts
  <2>7. /\ Append(p, x) \in Seq(Name) /\ Len(Append(p, x)) = Len(p) + 1
        /\ Append(p, x)[Len(p) + 1] = x /\ \A i \in 1..Len(p) : Append(p, x)[i] = p[i]
        /\ Front(Append(p, x)) = p /\ Last(Append(p, x)) = x
    <3> HIDE DEF p
    <3> QED
      BY <2>2, <2>5, AppendProperties, FrontAppend
  <2>8. NodeAt(p) = f.node => NodeAt(Append(p, x)) = k
    <3>1. NodeAt(Append(p, x)) = IF NodeAt(p) = NoTopic THEN NoTopic ELSE kids[NodeAt(p)][x]
      BY <2>6, <2>7, NodeFacts
    <3> QED
      BY <1>3, <3>1
  <2> HIDE DEF k, names
  <2>9. t \in FrameType /\ t.node = f.node /\ t.at = "range" /\ t.must = f.must /\ t.names = names
    BY <1>3, <2>2, <2>4 DEF FrameType, Stage
  <2>10. g \in FrameType /\ g.node = k /\ g.at = "check" /\ g.names = Name
    BY <2>3 DEF FrameType, Stage, Frame
  <2> HIDE DEF t, g
  <2>11. ASSUME NEW n \in job[c].must, n \in InTree, Ahead(f, n)
         PROVE  Ahead(t, n) \/ Ahead(g, n)
    <3>1. /\ NodeAt(p) = f.node /\ Begins(p, fullName[n]) /\ Len(p) < Len(fullName[n])
          /\ fullName[n][Len(p) + 1] \in f.names \cap f.must
      BY <2>2, <2>11 DEF Ahead
    <3>2. CASE fullName[n][Len(p) + 1] # x
      <4>1. fullName[n][Len(p) + 1] \in t.names \cap t.must
        BY <2>9, <3>1, <3>2 DEF names
      <4> QED
        BY <2>9, <3>1, <4>1 DEF Ahead
    <3>3. CASE fullName[n][Len(p) + 1] = x
      <4>0. Len(fullName[n]) \in Nat
        BY <1>4, <2>11
      <4>1. Begins(Append(p, x), fullName[n])
        <5> PICK a, q : a = Append(p, x) /\ q = fullName[n]
          OBVIOUS
        <5>1. /\ Len(a) = Len(p) + 1 /\ a[Len(p) + 1] = x /\ \A i \in 1..Len(p) : a[i] = p[i]
              /\ Len(p) < Len(q) /\ Len(q) \in Nat /\ q[Len(p) + 1] = x
              /\ \A i \in 1..Len(p) : p[i] = q[i]
          BY <2>7, <3>1, <3>3, <4>0 DEF Begins
        <5> HIDE DEF p
        <5>2. \A i \in 1..Len(a) : i \in 1..Len(p) \/ i = Len(p) + 1
          BY <2>5, <5>1
        <5>3. Len(a) <= Len(q) /\ \A i \in 1..Len(a) : a[i] = q[i]
          BY <2>5, <5>1, <5>2
        <5> QED
          BY <5>3 DEF Begins
      <4> QED
        BY <2>6, <2>8, <2>10, <3>1, <4>1 DEF Ahead
    <3> QED
      BY <3>2, <3>3
  <2>12. Len(Place(fullName, g.node)) = Len(Place(fullName, t.node)) + 1
    BY <2>6, <2>7, <2>9, <2>10
  <2> QED
    BY <1>1, <1>2, <2>4, <2>9, <2>10, <2>11, <2>12, CoverByPush
<1>7. CASE SubscribeReturns(c)
  <2>1. Pop(c) /\ f.at = "range" /\ f.must \cap f.names \cap Kids(f.node) = {}
    BY <1>7 DEF SubscribeReturns
  <2>2. \A n \in job[c].must : n \in InTree /\ Ahead(f, n) => c \in subs'[n]
    <3> SUFFICES ASSUME NEW n \in job[c].must, n \in InTree, Ahead(f, n) PROVE FALSE
      OBVIOUS
    <3>1. /\ Len(Place(fullName, f.node)) < Len(fullName[n])
          /\ fullName[n][Len(Place(fullName, f.node)) + 1] \in f.names \cap f.must
      BY <2>1 DEF Ahead
    <3> QED
      BY <1>4, <2>1, <3>1
  <2> QED
    BY <1>1, <1>2, <2>1, <2>2, CoverByPop
<1> QED
  BY <1>5, <1>6, <1>7

LEMMA CoverNothing ==
  ASSUME NEW c \in Client, job'[c].must = {}, job'[c].at # "subscribing"
  PROVE  Cover(c)'
BY DEF Cover, At

\* The lookup of Subscribe found its topic: all that is to cover lies ahead.
LEMMA CoverByWalk ==
  ASSUME Typed, Entries, Later, [Next]_vars, NEW c \in Client, Cover(c), Walk(c)
  PROVE  Cover(c)'
<1> USE Constants
<1> DEFINE j == job[c]
           k == kids[j.node][Head(j.way)]
           o == [j EXCEPT !.node = k, !.way = Tail(@)]
<1>1. /\ j \in JobType /\ job \in [Client -> JobType] /\ JobOK(j, fullName, ended)
      /\ j.at \in {"branch", "parent", "target", "owner"} /\ j.must = {}
      /\ UNCHANGED <<kids, fullName, subs>>
  BY DEF Typed, TypedJobs, Walk, Cover, topics
<1>2. CASE k = NoTopic
  <2>1. Ends(c, "err")
    BY <1>2 DEF Walk
  <2> QED
    BY <1>1, <2>1, CoverByEnd
<1>3. CASE k # NoTopic
  <2>1. /\ k \in Created /\ k \in Topic /\ Goes(c, Found(o)) /\ o \in JobType /\ o.at = j.at
        /\ o.node = k /\ o.way = Tail(j.way) /\ o.path = j.path /\ o.must = {} /\ o.call = j.call
        /\ Place(fullName, k) \o o.way = Place(fullName, j.node) \o j.way
    BY Zenon, <1>1, <1>3, WalkFacts
  <2> HIDE DEF o
  <2>2. job'[c] = Found(o)
    BY Zenon, <1>1, <2>1 DEF Goes
  <2>3. CASE o.way = <<>> /\ o.at = "target" /\ o.call.op = "subscribe"
    <3>0. PICK m, p, depth, must, f, t :
            /\ m = k /\ p = Place(fullName, m) /\ depth = o.call.depth
            /\ must = IF NodeAt(o.path) # o.node THEN {}
                      ELSE {NodeAt(q) : q \in Within(o.path, depth)} \ {NoTopic}
            /\ f = Frame(m, Name, "check") /\ t = <<f>>
      OBVIOUS
    <3> HIDE DEF k
    <3>1. o.path = p /\ p \in Seq(Name) /\ Len(p) \in Nat
      <4>1. p \in Seq(Name)
        BY <2>1, <3>0, PlaceFacts
      <4>2. p \o <<>> = j.path
        BY <1>1, <2>1, <2>3, <3>0 DEF JobOK
      <4>3. p \o <<>> = p /\ Len(p) \in Nat
        BY <4>1, ConcatEmptySeq, LenProperties
      <4> QED
        BY <2>1, <4>1, <4>2, <4>3
    <3>2. Found(o) = [o EXCEPT !.at = "subscribing", !.stack = t, !.must = must]
      BY <2>1, <2>3, <3>0 DEF Found
    <3>3. /\ Found(o).at = "subscribing" /\ Found(o).stack = t /\ Found(o).must = must
          /\ Found(o).path = o.path /\ Found(o).call = o.call
      BY <2>1, <3>2 DEF JobType
    <3>4. /\ f.at = "check" /\ f.names = Name /\ f.node = m
          /\ Len(t) = 1 /\ t[1] = f
      BY <3>0 DEF Frame
    <3>5. ASSUME NEW n \in must
          PROVE  /\ Len(fullName[n]) <= Len(p) + depth
                 /\ NodeAt(p) = m /\ Begins(p, fullName[n])
      <4>1. PICK q \in Within(p, depth) : n = NodeAt(q) /\ n # NoTopic /\ NodeAt(p) = m
        BY <2>1, <3>0, <3>1, <3>5
      <4>2. q \in Path /\ Len(q) \in Len(p)..(Len(p) + depth) /\ SubSeq(q, 1, Len(p)) = p
        BY <4>1 DEF Within
      <4>3. fullName[n] = q /\ q \in Seq(Name)
        BY <4>1, <4>2, NodesNamed, PathFacts
      <4>4. depth \in Nat
        BY <2>1, <3>0 DEF JobType, Request
      <4>5. Len(p) <= Len(q) /\ Len(q) <= Len(p) + depth
        BY <3>1, <4>2, <4>4
      <4>6. \A i \in 1..Len(p) : SubSeq(q, 1, Len(p))[i] = q[i]
        BY <3>1, <4>3, <4>5
      <4>7. Begins(p, q)
        BY <4>2, <4>5, <4>6 DEF Begins
      <4> QED
        BY <4>1, <4>3, <4>5, <4>7
    <3>6. \A q \in Path : (NodeAt(q))' = NodeAt(q)
      BY <1>1, NodeAtReach
    <3>7. (Place(fullName, m))' = p /\ (NodeAt(Place(fullName, m)))' = NodeAt(p)
      <4>1. Place(fullName', m) = p
        BY <1>1, <3>0
      <4> QED
        BY <1>1, <4>1, NodeAtReach
    <3>8. \A n \in must : Len(fullName'[n]) <= Len(p) + depth /\ Ahead(f, n)'
      BY <1>1, <3>4, <3>5, <3>7 DEF Ahead
    <3>9. \A i \in 1..Len(t) :
            /\ t[i].at = "check" => t[i].names = Name
            /\ Len(Place(fullName', t[i].node)) = Len(p) + i - 1
            /\ t[i].at \in {"check", "range"}
      <4>1. \A i \in 1..Len(t) : i = 1
        BY <3>4
      <4>2. Len(Place(fullName', m)) = Len(p) + 1 - 1
        BY <3>1, <3>7
      <4> QED
        BY <3>4, <4>1, <4>2
    <3>10. \A n \in must : /\ Len(fullName'[n]) <= Len(p) + depth
                           /\ \E i \in 1..Len(t) : Ahead(t[i], n)'
      <4>1. 1 \in 1..Len(t)
        BY <3>4
      <4> QED
        BY <3>4, <3>8, <4>1
    <3>11. /\ job'[c].at = "subscribing" /\ job'[c].stack = t /\ job'[c].must = must
           /\ job'[c].path = p /\ job'[c].call.depth = depth
      BY Zenon, <2>2, <3>0, <3>1, <3>3
    <3> QED
      BY <3>9, <3>10, <3>11 DEF Cover, At
  <2>4. CASE ~(o.way = <<>> /\ o.at = "target" /\ o.call.op = "subscribe")
    <3>1. Found(o).must = {} /\ Found(o).at \in {o.at, "removing", "owner"}
      BY Zenon, <2>1, <2>4 DEF Found, RemoveFrom, JobType
    <3> QED
      BY Zenon, <1>1, <2>1, <2>2, <3>1, CoverNothing
  <2> QED
    BY Zenon, <2>3, <2>4
<1> QED
  BY <1>2, <1>3

\* The other steps have nothing to cover.
LEMMA CoverByRest ==
  ASSUME Typed, Entries, Later, [Next]_vars, NEW c \in Client, Cover(c), Step(c), ~Walk(c),
         ~SubscribeOne(c), ~SubscribeDescend(c), ~SubscribeReturns(c)
  PROVE  Cover(c)'
<1>1. job \in [Client -> JobType] /\ job[c] \in JobType
  BY Zenon DEF Typed, TypedJobs
<1>2. job[c].at \notin {"subscribing", "ok"}
  BY Zenon DEF Step, RunClean, RunSet, NextInQueue, AddCheck, Insert, StartTopic, RemoveCheck,
     RemoveDescend, RemoveReturns, RemoveCancel, RemoveDelete, Unsubscribe, Arrived, At
<1>3. job[c].must = {}
  BY <1>2 DEF Cover
<1>4. ASSUME NEW j, Goes(c, j), j.must = {} PROVE job'[c].must = {}
  BY <1>1, <1>4 DEF Goes
<1>5. ASSUME NEW answer, Ends(c, answer) PROVE job'[c].must = {}
  <2>1. Over(job[c], answer).must = {}
    BY <1>1, <1>3 DEF Over, JobType
  <2> QED
    BY <1>4, <1>5, <2>1 DEF Ends
<1>6. \A s : [job[c] EXCEPT !.stack = s].must = {}
  BY <1>1, <1>3 DEF JobType
<1>7. ASSUME NEW t, NEW f, Replace(c, t) \/ Push(c, t, f) \/ Pop(c) PROVE job'[c].must = {}
  BY <1>4, <1>5, <1>6, <1>7 DEF Replace, Push, Pop
<1>8. ASSUME RunClean(c) \/ RunSet(c) PROVE job'[c].must = {}
  <2> DEFINE o == [job[c] EXCEPT !.at = "set", !.run = runs + 1]
             q == [job[c] EXCEPT !.at = "branch", !.rest = <<Default>>, !.run = 0]
  <2>1. o.must = {} /\ q.must = {}
    BY <1>1, <1>3 DEF JobType
  <2>2. Goes(c, o) \/ Goes(c, q)
    BY <1>8 DEF RunClean, RunSet
  <2> HIDE DEF o, q
  <2> QED
    BY <1>4, <2>1, <2>2
<1>9. ASSUME NextInQueue(c) PROVE job'[c].must = {}
  <2> DEFINE path == Append(job[c].path, Head(job[c].rest))
             o == [job[c] EXCEPT !.at = "parent", !.path = path, !.way = Front(path),
                                 !.rest = Tail(@), !.node = Server]
  <2>1. o.must = {}
    BY <1>1, <1>3 DEF JobType
  <2>2. Ends(c, "err") \/ Goes(c, o)
    BY <1>9 DEF NextInQueue
  <2> HIDE DEF o
  <2> QED
    BY <1>4, <1>5, <2>1, <2>2
<1>10. ASSUME AddCheck(c) PROVE job'[c].must = {}
  <2>1. [job[c] EXCEPT !.at = "insert"].must = {}
    BY <1>1, <1>3 DEF JobType
  <2> QED
    BY <1>4, <1>5, <1>10, <2>1 DEF AddCheck, Moves
<1>11. Added(c).must = {}
  <2>1. /\ Over(job[c], "ok").must = {}
        /\ [job[c] EXCEPT !.at = "branch", !.way = <<>>].must = {}
    BY <1>1, <1>3 DEF Over, JobType
  <2> QED
    BY <2>1 DEF Added
<1>12. ASSUME Insert(c) \/ StartTopic(c) PROVE job'[c].must = {}
  <2>1. \A n : [job[c] EXCEPT !.at = "start", !.target = n].must = {}
    BY <1>1, <1>3 DEF JobType
  <2> QED
    BY <1>4, <1>11, <1>12, <2>1 DEF Insert, StartTopic
<1>13. ASSUME \/ RemoveCheck(c) \/ RemoveDescend(c) \/ RemoveReturns(c)
              \/ RemoveCancel(c) \/ RemoveDelete(c)
       PROVE  job'[c].must = {}
  <2>1. job'[c].must = {} \/ UNCHANGED job
    BY Zenon, <1>5, <1>7, <1>13 DEF RemoveCheck, RemoveDescend, RemoveReturns, RemoveCancel,
       RemoveDelete, Panic
  <2> QED
    BY <1>3, <2>1
<1>14. ASSUME Unsubscribe(c) PROVE job'[c].must = {}
  BY <1>5, <1>14 DEF Unsubscribe
<1>15. job'[c].must = {}
  BY <1>8, <1>9, <1>10, <1>12, <1>13, <1>14 DEF Step
<1>16. job'[c].at # "subscribing"
  BY Turns
<1> QED
  BY <1>15, <1>16, CoverNothing

LEMMA CoverAheadFrom == Init => CoverAhead
<1> SUFFICES ASSUME Init, NEW c \in Client PROVE Cover(c)
  BY DEF CoverAhead
<1> QED
  BY DEF Init, Cover, At

LEMMA CoverAheadStays == Typed /\ Entries /\ CoverAhead /\ [Next]_vars => CoverAhead'
<1> SUFFICES ASSUME Typed, Entries, CoverAhead, [Next]_vars, NEW c \in Client PROVE Cover(c)'
  BY DEF CoverAhead
<1>1. Cover(c) /\ Later
  BY TypedStep DEF CoverAhead
<1>2. CASE job'[c] = job[c]
  <2>1. ~Unsubscribe(c)
    <3> SUFFICES ASSUME Unsubscribe(c) PROVE FALSE
      OBVIOUS
    <3>1. job \in [Client -> JobType] /\ job[c].at = "target"
      BY DEF Typed, TypedJobs, Unsubscribe, Arrived, At
    <3>2. \A answer : Over(job[c], answer).at = answer
      BY <3>1 DEF Over, JobType
    <3>3. job'[c].at \in {"ok", "err"}
      BY <3>1, <3>2 DEF Unsubscribe, Ends, Goes
    <3> QED
      BY <1>2, <3>1, <3>3
  <2> QED
    BY <1>1, <1>2, <2>1, CoverByOthers
<1>3. CASE Step(c)
  BY <1>1, <1>3, CoverByWalk, CoverBySubscribe, CoverByRest
<1>4. CASE \E call : Begin(c, call)
  <2>1. job'[c].must = {} /\ job'[c].at # "subscribing"
    BY <1>4, Starts
  <2> QED
    BY <2>1, CoverNothing
<1> QED
  BY <1>1, <1>2, <1>3, <1>4, OwnSteps

\* A Subscribe that succeeded covers every topic that was in the tree within
\* its depth when it found its own topic and is in the tree still, whatever
\* other calls did to the branch in the meantime (es/topic.go subscribe, which
\* ranges over the maps of subtopics while they change).
THEOREM Covers == Spec => []SubscribeCovers
<1>1. Init => Typed /\ Entries /\ CoverAhead
  BY TypesFrom, EntriesFrom, CoverAheadFrom
<1>2. Typed /\ Entries /\ CoverAhead /\ [Next]_vars => Typed' /\ Entries' /\ CoverAhead'
  BY TypedStep, CoverAheadStays
<1>3. CoverAhead => SubscribeCovers
  BY DEF CoverAhead, Cover, SubscribeCovers, Finished
<1> QED
  BY <1>1, <1>2, <1>3, PTL DEF Spec

-----------------------------------------------------------------------------
(* The tree implements the registry.                                       *)

\* What a caller finds where the topic n is, given the lines and what has ended.
Stat(n, ln, en) ==
    IF n = NoTopic THEN "free"
    ELSE IF ln[n] = {} THEN "idle"
    ELSE IF ln[n] \cap en # {} THEN "cancelled" ELSE "served"

LEMMA StatusIs ==
  /\ \A p \in Path : StatusAt(p) = Stat(NodeAt(p), line, ended)
  /\ [p \in Path |-> StatusAt(p)]' = [p \in Path |-> Stat(Reach(kids', p), line', ended')]
<1>1. ASSUME NEW p \in Path PROVE StatusAt(p) = Stat(NodeAt(p), line, ended)
  BY DEF StatusAt, Stat, Cancelled
<1>2. ASSUME NEW p \in Path PROVE (StatusAt(p))' = Stat(Reach(kids', p), line', ended')
  <2>1. (NodeAt(p))' = Reach(kids', p)
    BY NodeAtReach
  <2> QED
    BY <2>1 DEF StatusAt, Stat, Cancelled
<1> QED
  BY <1>1, <1>2

LEMMA StatusRange ==
  \A n, ln, en : /\ Stat(n, ln, en) = "free" <=> n = NoTopic
                 /\ Stat(n, ln, en) = "idle" <=> n # NoTopic /\ ln[n] = {}
                 /\ Stat(n, ln, en) = "served" <=> n # NoTopic /\ ln[n] # {} /\ ln[n] \cap en = {}
                 /\ Stat(n, ln, en) = "cancelled" <=> n # NoTopic /\ ln[n] \cap en # {}
BY DEF Stat

\* A run's context is in every line.
LEMMA RunInLine ==
  ASSUME Typed, Lines, NEW m \in Topic, line[m] # {}
  PROVE  \E r \in 1..runs : RunContext(r) \in line[m]
<1> USE Constants
<1> DEFINE T == {n \in Topic : line[n] # {} /\ ~ \E r \in 1..runs : RunContext(r) \in line[n]}
<1>1. ASSUME NEW n \in T, \A k \in T : n <= k PROVE FALSE
  <2>1. PICK u \in Owner :
          /\ AddedTo(n, u)
          /\ u = Server => \E r \in 1..runs : line[n] = {n, RunContext(r)}
          /\ u # Server => u < n /\ line[u] # {} /\ line[n] = {n} \cup line[u]
    BY <1>1 DEF Lines
  <2>2. u # Server
    BY <1>1, <2>1
  <2>3. u \in Topic /\ u \in Nat /\ n \in Nat /\ u < n
    BY <1>1, <2>1, <2>2
  <2>4. u \notin T
    BY <1>1, <2>3
  <2> QED
    BY <1>1, <2>1, <2>2, <2>3, <2>4
<1>2. T = {}
  <2> SUFFICES ASSUME T # {} PROVE FALSE
    OBVIOUS
  <2>1. T \subseteq Nat
    OBVIOUS
  <2>2. PICK n \in T : \A k \in T : n <= k
    <3> HIDE DEF T
    <3> QED
      BY <2>1, LeastNumber
  <2> QED
    BY <1>1, <2>2
<1> QED
  BY <1>2

\* Above a topic in the tree is the one it was added to.
LEMMA AboveInTree ==
  ASSUME Typed, Entries, NEW n, n \in InTree, NEW u \in Owner, AddedTo(n, u)
  PROVE  LET q == fullName[n] IN
         /\ n \in Topic /\ q \in Path /\ NodeAt(q) = n
         /\ NodeAt(Front(q)) = u /\ kids[u][Last(q)] = n /\ Place(fullName, u) = Front(q)
         /\ u # Server => u \in InTree /\ fullName[u] = Front(q)
         /\ Len(q) > 1 <=> u # Server
<1> USE Constants
<1> PICK q : q = fullName[n]
  OBVIOUS
<1>1. n \in Topic /\ q \in Path /\ NodeAt(q) = n /\ n # NoTopic
  BY InTreeFacts, PlaceFacts DEF Created
<1>2. /\ NodeAt(Front(q)) \in Created \cup {Server, NoTopic}
      /\ NodeAt(q) = IF NodeAt(Front(q)) = NoTopic THEN NoTopic ELSE kids[NodeAt(Front(q))][Last(q)]
  BY Zenon, <1>1, NodeFacts
<1>3. NodeAt(Front(q)) \in Owner /\ kids[NodeAt(Front(q))][Last(q)] = n /\ Last(q) \in Name
  BY <1>1, <1>2, PathFacts DEF Created
<1>4. NodeAt(Front(q)) = u /\ Front(q) = Place(fullName, u)
  BY <1>3 DEF AddedTo
<1>5. u # Server => u \in Created /\ u \in Topic /\ fullName[u] = Front(q) /\ fullName[u] \in Path
  BY <1>4, PlaceFacts DEF AddedTo
<1>6. u # Server => u \in InTree
  BY <1>4, <1>5, InTreeFacts
<1>7. u = Server => Front(q) = <<>>
  BY <1>4 DEF Place
<1>8. Len(q) > 1 <=> u # Server
  <2> PICK a, b : a = Len(q) /\ b = Len(Front(q))
    OBVIOUS
  <2>1. a \in Nat /\ b = a - 1 /\ a >= 1
    BY <1>1, PathFacts
  <2>2. u # Server => b >= 1
    BY <1>5, PathFacts
  <2>3. u = Server => b = 0
    BY <1>7, EmptySeq
  <2>4. CASE u = Server
    <3>1. ~(a > 1)
      BY ONLY <2>1, <2>3, <2>4
    <3> QED
      BY <2>4, <3>1
  <2>5. CASE u # Server
    <3>1. a > 1
      BY ONLY <2>1, <2>2, <2>5
    <3> QED
      BY <2>5, <3>1
  <2> QED
    BY <2>4, <2>5
<1> QED
  BY <1>1, <1>3, <1>4, <1>5, <1>6, <1>8

\* The line of a topic in the tree has the topics at and above its place.
LEMMA LineOfPlace ==
  ASSUME Typed, Entries, Lines, NEW m, m \in InTree, NEW z, z \in InTree, line[z] # {},
         Begins(fullName[m], fullName[z])
  PROVE  m \in line[z]
<1> USE Constants
<1> DEFINE T == {n \in Topic : /\ n \in InTree /\ line[n] # {}
                               /\ Begins(fullName[m], fullName[n]) /\ m \notin line[n]}
<1>0. m \in Created /\ NodeAt(fullName[m]) = m /\ fullName[m] \in Path /\ z \in Topic
  BY InTreeFacts, PlaceFacts DEF Created
<1>1. ASSUME NEW n \in T, \A k \in T : n <= k PROVE FALSE
  <2>1. PICK u \in Owner :
          /\ AddedTo(n, u)
          /\ u # Server => u < n /\ line[u] # {} /\ line[n] = {n} \cup line[u]
    BY <1>1 DEF Lines
  <2>2. /\ fullName[n] \in Path /\ NodeAt(fullName[n]) = n
        /\ NodeAt(Front(fullName[n])) = u
        /\ u # Server => u \in InTree /\ fullName[u] = Front(fullName[n])
        /\ Len(fullName[n]) > 1 <=> u # Server
    BY <1>1, <2>1, AboveInTree
  <2>3. fullName[m] # fullName[n]
    <3>1. n \in line[n]
      BY <1>1, OwnLine
    <3> QED
      BY <1>0, <1>1, <2>2, <3>1
  <2>4. /\ fullName[m] \in Seq(Name) /\ fullName[n] \in Seq(Name) /\ fullName[n] # <<>>
        /\ Len(fullName[m]) >= 1 /\ Len(fullName[m]) \in Nat /\ Len(fullName[n]) \in Nat
    BY <1>0, <2>2, PathFacts
  <2>5. /\ Begins(fullName[m], Front(fullName[n]))
        /\ Len(fullName[m]) = Len(fullName[n]) \/ Len(fullName[m]) < Len(fullName[n])
        /\ Len(fullName[m]) = Len(fullName[n]) => fullName[m] = fullName[n]
    BY <1>1, <2>3, <2>4, BeginsFront
  <2>6. u # Server
    BY <2>2, <2>3, <2>4, <2>5
  <2>7. u \in Topic /\ u \in Nat /\ n \in Nat /\ u < n
    BY <1>1, <2>1, <2>6
  <2>8. u \notin T
    BY <1>1, <2>7
  <2> QED
    BY <1>1, <2>1, <2>2, <2>5, <2>6, <2>7, <2>8
<1>2. T = {}
  <2> SUFFICES ASSUME T # {} PROVE FALSE
    OBVIOUS
  <2>1. T \subseteq Nat
    OBVIOUS
  <2>2. PICK n \in T : \A k \in T : n <= k
    <3> HIDE DEF T
    <3> QED
      BY <2>1, LeastNumber
  <2> QED
    BY <1>1, <2>2
<1> QED
  BY <1>0, <1>2

\* A topic in a line is above, and has a part of the line as its own.
LEMMA PlaceOfLine ==
  ASSUME Typed, Entries, Lines, NEW m \in Topic, NEW z, z \in InTree, m \in line[z]
  PROVE  m \in InTree /\ Begins(fullName[m], fullName[z]) /\ line[m] \subseteq line[z]
<1> USE Constants
<1> DEFINE T == {n \in Topic : /\ n \in InTree /\ m \in line[n]
                               /\ ~(m \in InTree /\ Begins(fullName[m], fullName[n])
                                    /\ line[m] \subseteq line[n])}
<1>0. z \in Topic
  BY InTreeFacts DEF Created
<1>1. ASSUME NEW n \in T, \A k \in T : n <= k PROVE FALSE
  <2>1. PICK u \in Owner :
          /\ AddedTo(n, u)
          /\ u = Server => \E r \in 1..runs : line[n] = {n, RunContext(r)}
          /\ u # Server => u < n /\ line[u] # {} /\ line[n] = {n} \cup line[u]
    BY <1>1 DEF Lines
  <2>2. /\ fullName[n] \in Path /\ NodeAt(fullName[n]) = n
        /\ u # Server => u \in InTree /\ fullName[u] = Front(fullName[n])
    BY <1>1, <2>1, AboveInTree
  <2>3. /\ fullName[n] \in Seq(Name) /\ Len(fullName[n]) \in Nat /\ Len(fullName[n]) >= 1
        /\ Front(fullName[n]) \in Seq(Name) /\ Len(Front(fullName[n])) = Len(fullName[n]) - 1
        /\ \A i \in 1..(Len(fullName[n]) - 1) : Front(fullName[n])[i] = fullName[n][i]
    BY <2>2, PathFacts, FrontFacts
  <2>4. m # n
    <3>1. Begins(fullName[n], fullName[n])
      BY <2>3 DEF Begins
    <3> QED
      BY <1>1, <3>1
  <2>5. u # Server /\ m \in line[u]
    <3>1. CASE u = Server
      <4>1. PICK r \in 1..runs : line[n] = {n, RunContext(r)}
        BY <2>1, <3>1
      <4>2. runs \in 0..MaxRuns
        BY DEF Typed, TypedVars
      <4>3. runs \in Nat
        BY <4>2
      <4>4. RunContext(r) \notin Topic
        BY <4>3 DEF RunContext, Topic
      <4> QED
        BY <1>1, <2>4, <4>1, <4>4
    <3> QED
      BY <1>1, <2>1, <2>4, <3>1
  <2>6. u \in Topic /\ u \in Nat /\ n \in Nat /\ u < n
    BY <1>1, <2>1, <2>5
  <2>7. u \notin T
    BY <1>1, <2>6
  <2>8. m \in InTree /\ Begins(fullName[m], Front(fullName[n])) /\ line[m] \subseteq line[u]
    BY <2>2, <2>5, <2>6, <2>7
  <2>9. Begins(fullName[m], fullName[n])
    <3>1. Len(fullName[m]) \in Nat
      <4>1. fullName[m] \in Path
        BY <2>8, InTreeFacts, PlaceFacts DEF Created
      <4> QED
        BY <4>1, PathFacts
    <3> QED
      BY <2>3, <2>8, <3>1 DEF Begins
  <2> QED
    BY <1>1, <2>1, <2>5, <2>8, <2>9
<1>2. T = {}
  <2> SUFFICES ASSUME T # {} PROVE FALSE
    OBVIOUS
  <2>1. T \subseteq Nat
    OBVIOUS
  <2>2. PICK n \in T : \A k \in T : n <= k
    <3> HIDE DEF T
    <3> QED
      BY <2>1, LeastNumber
  <2> QED
    BY <1>1, <2>2
<1> QED
  BY <1>0, <1>2

\* A change of one entry matters to what is found through it only.
LEMMA OtherPaths ==
  ASSUME Typed, Entries, NEW kk, NEW u \in Created \cup {Server}, NEW x \in Name,
         \A v \in Owner, y \in Name : v # u \/ y # x => kk[v][y] = kids[v][y],
         NEW z \in Path,
         ~(NodeAt(Place(fullName, u)) = u /\ Begins(Append(Place(fullName, u), x), z))
  PROVE  Reach(kk, z) = NodeAt(z)
<1> USE Constants
<1> DEFINE p == Append(Place(fullName, u), x)
           C(q) == NodeAt(Place(fullName, u)) = u /\ Begins(p, q)
           S == {q \in Path : ~C(q) => Reach(kk, q) = NodeAt(q)}
<1>0. /\ Place(fullName, u) \in Seq(Name) /\ p \in Seq(Name) /\ Len(p) \in Nat
  <2>1. Place(fullName, u) \in Seq(Name)
    BY PlaceFacts
  <2>2. Append(Place(fullName, u), x) \in Seq(Name)
    BY <2>1, AppendProperties
  <2> QED
    BY <2>1, <2>2, LenProperties
<1> HIDE DEF p
<1>1. ASSUME NEW q \in Path, Len(q) > 1 => Front(q) \in S PROVE q \in S
  <2> SUFFICES ASSUME ~C(q) PROVE Reach(kk, q) = NodeAt(q)
    OBVIOUS
  <2>1. /\ q \in Seq(Name) /\ q # <<>> /\ Len(q) \in Nat /\ Len(q) >= 1
        /\ Front(q) \in Seq(Name) /\ Len(Front(q)) = Len(q) - 1 /\ Last(q) \in Name
        /\ Len(q) > 1 => Front(q) \in Path
        /\ Len(q) = 1 => Front(q) = <<>>
        /\ \A i \in 1..(Len(q) - 1) : Front(q)[i] = q[i]
        /\ q = Append(Front(q), Last(q))
    BY PathFacts, FrontFacts
  <2>2. Begins(p, Front(q)) => Begins(p, q)
    BY <1>0, <2>1 DEF Begins
  <2>3. PICK v : v = NodeAt(Front(q))
    OBVIOUS
  <2>4. Reach(kk, Front(q)) = v
    <3>1. CASE Len(q) = 1
      BY <2>1, <2>3, <3>1, ReachEmpty, NodeAtReach
    <3>2. CASE Len(q) # 1
      <4>1. Front(q) \in S /\ Front(q) \in Path
        BY <1>1, <2>1, <3>2
      <4> QED
        BY <2>2, <2>3, <4>1
    <3> QED
      BY <3>1, <3>2
  <2>5. /\ v \in Created \cup {Server, NoTopic}
        /\ NodeAt(q) = IF v = NoTopic THEN NoTopic ELSE kids[v][Last(q)]
    BY <2>3, NodeFacts
  <2>6. Reach(kk, q) = IF v = NoTopic THEN NoTopic ELSE kk[v][Last(q)]
    BY <2>4, ReachStep
  <2>7. v # u \/ Last(q) # x
    <3> SUFFICES ASSUME v = u, Last(q) = x PROVE FALSE
      OBVIOUS
    <3>1. Place(fullName, u) = Front(q)
      <4>1. CASE Len(q) = 1
        <5>1. NodeAt(<<>>) = Server
          BY NodeFacts
        <5> QED
          BY <2>1, <2>3, <4>1, <5>1 DEF Place
      <4>2. CASE Len(q) # 1
        <5>1. Front(q) \in Path
          BY <2>1, <4>2
        <5>2. u \in Created /\ u # NoTopic /\ u # Server
          BY <2>3, <5>1, NodesNamed DEF Created
        <5> QED
          BY <2>3, <5>1, <5>2, NodesNamed DEF Place
      <4> QED
        BY <4>1, <4>2
    <3>2. p = q
      BY <2>1, <3>1 DEF p
    <3>3. Begins(p, q)
      BY <1>0, <3>2 DEF Begins
    <3> QED
      BY <2>3, <3>1, <3>3
  <2>8. v # NoTopic => v \in Owner
    BY <2>5 DEF Created
  <2> QED
    BY <2>1, <2>5, <2>6, <2>7, <2>8
<1>2. Path \subseteq S
  <2> HIDE DEF S
  <2> QED
    BY <1>1, PathInduction
<1> QED
  BY <1>2 DEF p

\* The path of the entry x of u.
EntryPath(u, x) == Append(Place(fullName, u), x)

LEMMA OtherEntries ==
  ASSUME Typed, Entries, NEW u \in Created \cup {Server}, NEW x \in Name,
         \A v \in Owner, y \in Name : v # u \/ y # x => kids'[v][y] = kids[v][y]
  PROVE  \A q \in Path : \/ NodeAt(Place(fullName, u)) = u /\ Begins(EntryPath(u, x), q)
                         \/ Reach(kids', q) = NodeAt(q)
<1> SUFFICES ASSUME NEW q \in Path,
                    ~(NodeAt(Place(fullName, u)) = u /\ Begins(EntryPath(u, x), q))
             PROVE  Reach(kids', q) = NodeAt(q)
  OBVIOUS
<1>1. PICK kk : kk = kids'
  OBVIOUS
<1>2. \A v \in Owner, y \in Name : v # u \/ y # x => kk[v][y] = kids[v][y]
  BY <1>1
<1>3. ~(NodeAt(Place(fullName, u)) = u /\ Begins(Append(Place(fullName, u), x), q))
  BY DEF EntryPath
<1>4. Reach(kk, q) = NodeAt(q)
  BY <1>2, <1>3, OtherPaths
<1> QED
  BY <1>1, <1>4

-----------------------------------------------------------------------------
(* The steps of the registry.                                              *)

LEMMA ByStutter ==
  ASSUME \A p \in Path : Stat(Reach(kids', p), line', ended') = Stat(NodeAt(p), line, ended)
  PROVE  [Registry!Next]_[p \in Path |-> StatusAt(p)]
<1>1. [p \in Path |-> StatusAt(p)]' = [p \in Path |-> StatusAt(p)]
  BY StatusIs
<1> QED
  BY <1>1

LEMMA ByAdd ==
  ASSUME NEW s, NEW t, s = [q \in Path |-> StatusAt(q)], t = [q \in Path |-> StatusAt(q)]',
         NEW p \in Path, s[p] = "free", Len(p) > 1 => s[Front(p)] # "free",
         t = [s EXCEPT ![p] = "idle"]
  PROVE  [Registry!Next]_[q \in Path |-> StatusAt(q)]
<1>1. Registry!Add(p)
  BY DEF Registry!Add, Registry!Above, Front
<1> QED
  BY <1>1 DEF Registry!Next

LEMMA ByStart ==
  ASSUME NEW s, NEW t, s = [q \in Path |-> StatusAt(q)], t = [q \in Path |-> StatusAt(q)]',
         NEW p \in Path, s[p] = "idle", NEW w \in {"served", "cancelled"},
         t = [s EXCEPT ![p] = w],
         Len(p) > 1 /\ w = "served" => s[Front(p)] = "served"
  PROVE  [Registry!Next]_[q \in Path |-> StatusAt(q)]
<1>1. t[p] = w
  OBVIOUS
<1>2. Registry!Start(p)
  BY <1>1 DEF Registry!Start, Registry!Above, Front
<1> QED
  BY <1>2 DEF Registry!Next

LEMMA ByCancel ==
  ASSUME NEW s, NEW t, s = [q \in Path |-> StatusAt(q)], t = [q \in Path |-> StatusAt(q)]',
         NEW p \in Path, s[p] = "served",
         \A q \in Path : t[q] = IF q \in Registry!Below(p) /\ s[q] = "served"
                                THEN "cancelled" ELSE s[q]
  PROVE  [Registry!Next]_[q \in Path |-> StatusAt(q)]
<1>1. t = [q \in Path |-> IF q \in Registry!Below(p) /\ s[q] = "served"
                          THEN "cancelled" ELSE s[q]]
  OBVIOUS
<1>2. Registry!Cancel(p)
  BY <1>1 DEF Registry!Cancel, Registry!Cut
<1> QED
  BY <1>2 DEF Registry!Next

LEMMA ByCancelAll ==
  ASSUME NEW s, NEW t, s = [q \in Path |-> StatusAt(q)], t = [q \in Path |-> StatusAt(q)]',
         \A q \in Path : t[q] = IF s[q] = "served" THEN "cancelled" ELSE s[q]
  PROVE  [Registry!Next]_[q \in Path |-> StatusAt(q)]
<1>1. t = [q \in Path |-> IF s[q] = "served" THEN "cancelled" ELSE s[q]]
  OBVIOUS
<1>2. CASE \E p \in Path : s[p] = "served"
  <2>1. Registry!CancelAll
    BY <1>1, <1>2 DEF Registry!CancelAll
  <2> QED
    BY <2>1 DEF Registry!Next
<1>3. CASE ~ \E p \in Path : s[p] = "served"
  <2>1. t = s
    BY <1>1, <1>3
  <2> QED
    BY <2>1
<1> QED
  BY <1>2, <1>3

LEMMA ByRemove ==
  ASSUME NEW s, NEW t, s = [q \in Path |-> StatusAt(q)], t = [q \in Path |-> StatusAt(q)]',
         NEW p \in Path, s[p] = "cancelled",
         \A q \in Registry!Below(p) : s[q] # "served",
         \A q \in Path : t[q] = IF q \in Registry!Below(p) THEN "free" ELSE s[q]
  PROVE  [Registry!Next]_[q \in Path |-> StatusAt(q)]
<1>1. t = [q \in Path |-> IF q \in Registry!Below(p) THEN "free" ELSE s[q]]
  OBVIOUS
<1>2. \A q \in Registry!Below(p) : q \in Path
  BY DEF Registry!Below
<1>3. Registry!Remove(p)
  BY <1>1, <1>2 DEF Registry!Remove
<1> QED
  BY <1>3 DEF Registry!Next

LEMMA ByClear ==
  ASSUME NEW s, NEW t, s = [q \in Path |-> StatusAt(q)], t = [q \in Path |-> StatusAt(q)]',
         \A q \in Path : s[q] # "served" /\ t[q] = "free"
  PROVE  [Registry!Next]_[q \in Path |-> StatusAt(q)]
<1>1. t = [q \in Path |-> "free"]
  OBVIOUS
<1>2. Registry!Clear
  BY <1>1 DEF Registry!Clear
<1> QED
  BY <1>2 DEF Registry!Next

LEMMA BelowBegins ==
  ASSUME NEW p \in Path, NEW q \in Path
  PROVE  q \in Registry!Below(p) <=> Begins(p, q)
<1>1. p \in Seq(Name) /\ q \in Seq(Name) /\ Len(p) \in Nat /\ Len(q) \in Nat /\ Len(p) >= 1
  BY PathFacts
<1>2. ASSUME Len(p) <= Len(q)
      PROVE  /\ SubSeq(q, 1, Len(p)) \in Seq(Name) /\ Len(SubSeq(q, 1, Len(p))) = Len(p)
             /\ \A i \in 1..Len(p) : SubSeq(q, 1, Len(p))[i] = q[i]
  <2>1. \A i \in 1..Len(p) : q[i] \in Name
    BY <1>1, <1>2, ElementOfSeq
  <2> PICK n : n = Len(p)
    OBVIOUS
  <2>2. /\ SubSeq(q, 1, n) \in Seq(Name)
        /\ Len(SubSeq(q, 1, n)) = IF 1 <= n THEN n - 1 + 1 ELSE 0
        /\ \A i \in 1..(n - 1 + 1) : SubSeq(q, 1, n)[i] = q[1 + i - 1]
    BY <1>1, <2>1, SubSeqProperties, 1 \in Int
  <2>3. \A i \in 1..n : i \in 1..(n - 1 + 1) /\ 1 + i - 1 = i
    BY <1>1
  <2>4. Len(SubSeq(q, 1, n)) = n
    BY <1>1, <2>2
  <2>5. \A i \in 1..n : SubSeq(q, 1, n)[i] = q[i]
    BY <2>2, <2>3
  <2> QED
    BY <2>2, <2>4, <2>5
<1>3. ASSUME Begins(p, q) PROVE Len(q) >= Len(p) /\ SubSeq(q, 1, Len(p)) = p
  <2>1. Len(p) <= Len(q) /\ \A i \in 1..Len(p) : p[i] = q[i]
    BY <1>3 DEF Begins
  <2>2. \A i \in 1..Len(SubSeq(q, 1, Len(p))) : SubSeq(q, 1, Len(p))[i] = p[i]
    BY <1>2, <2>1
  <2>3. SubSeq(q, 1, Len(p)) = p
    BY <1>1, <1>2, <2>1, <2>2, SeqEqual
  <2> QED
    BY <1>1, <2>1, <2>3
<1>4. ASSUME Len(q) >= Len(p), SubSeq(q, 1, Len(p)) = p PROVE Begins(p, q)
  <2>1. Len(p) <= Len(q)
    BY <1>1, <1>4
  <2> QED
    BY <1>2, <1>4, <2>1 DEF Begins
<1> QED
  BY <1>3, <1>4 DEF Registry!Below

-----------------------------------------------------------------------------
(* The steps of the tree.                                                  *)

LEMMA Stati ==
  ASSUME NEW s, NEW t, s = [q \in Path |-> StatusAt(q)], t = [q \in Path |-> StatusAt(q)]'
  PROVE  /\ DOMAIN s = Path /\ DOMAIN t = Path
         /\ s = [q \in Path |-> s[q]] /\ t = [q \in Path |-> t[q]]
         /\ \A q \in Path : s[q] = Stat(NodeAt(q), line, ended)
         /\ \A q \in Path : t[q] = Stat(Reach(kids', q), line', ended')
BY StatusIs

LEMMA SameTree ==
  ASSUME UNCHANGED kids
  PROVE  \A q : NodeAt(q) = Reach(kids', q)
BY NodeAtReach

LEMMA SameStatus ==
  ASSUME UNCHANGED <<kids, line, ended>>
  PROVE  [Registry!Next]_[q \in Path |-> StatusAt(q)]
<1>1. \A q \in Path : Stat(Reach(kids', q), line', ended') = Stat(NodeAt(q), line, ended)
  BY SameTree
<1> QED
  BY <1>1, ByStutter

LEMMA CleanMaps ==
  ASSUME OrderlyInv, Orderly, [Next]_vars, NEW c \in Client, RunClean(c)
  PROVE  [Registry!Next]_[q \in Path |-> StatusAt(q)]
<1> USE Constants
<1>1. /\ Typed /\ Entries /\ Lines /\ OneRun
      /\ At(c, "clean") /\ UNCHANGED <<line, ended, fullName>>
      /\ kids' = IF job[c].call.clean
                 THEN [kids EXCEPT ![Server] = [x \in Name |-> NoTopic]] ELSE kids
  BY DEF OrderlyInv, RunClean
<1>2. CASE kids' = kids
  BY <1>1, <1>2, SameStatus
<1>3. CASE kids' = [kids EXCEPT ![Server] = [x \in Name |-> NoTopic]]
  <2> PICK s, t : s = [q \in Path |-> StatusAt(q)] /\ t = [q \in Path |-> StatusAt(q)]'
    OBVIOUS
  <2>1. \A x \in Name : kids'[Server][x] = NoTopic
    <3>1. DOMAIN kids = Owner
      BY <1>1 DEF Typed, TypedVars
    <3> QED
      BY <1>3, <3>1
  <2> DEFINE S == {q \in Path : Reach(kids', q) = NoTopic}
  <2>2. ASSUME NEW q \in Path, Len(q) > 1 => Front(q) \in S PROVE q \in S
    <3>1. /\ Len(q) \in Nat /\ Len(q) >= 1 /\ Last(q) \in Name
          /\ Len(q) = 1 => Front(q) = <<>>
      BY PathFacts
    <3>2. Reach(kids', q) = IF Reach(kids', Front(q)) = NoTopic THEN NoTopic
                            ELSE kids'[Reach(kids', Front(q))][Last(q)]
      BY ReachStep
    <3>3. CASE Len(q) = 1
      BY <2>1, <3>1, <3>2, <3>3, ReachEmpty
    <3>4. CASE Len(q) # 1
      <4>1. Len(q) > 1
        <5>1. \A i \in Nat : i >= 1 /\ i # 1 => i > 1
          OBVIOUS
        <5> QED
          BY ONLY <3>1, <3>4, <5>1
      <4>2. Reach(kids', Front(q)) = NoTopic
        BY <2>2, <4>1
      <4> QED
        BY <3>2, <4>2
    <3> QED
      BY <3>3, <3>4
  <2>3. \A q \in Path : Reach(kids', q) = NoTopic
    <3>1. Path \subseteq S
      <4> HIDE DEF S
      <4> QED
        BY <2>2, PathInduction
    <3> QED
      BY <3>1
  <2>4. ~runned /\ \A d \in Client : ~At(d, "set")
    BY <1>1 DEF OneRun, Orderly, At
  <2>5. \A r \in 1..runs : RunContext(r) \in ended
    BY <1>1, <2>4 DEF OneRun
  <2>6. ASSUME NEW q \in Path PROVE s[q] # "served" /\ t[q] = "free"
    <3>1. s[q] = Stat(NodeAt(q), line, ended) /\ t[q] = Stat(NoTopic, line', ended')
      BY <2>3, Stati
    <3>2. NodeAt(q) # NoTopic => NodeAt(q) \in Topic
      BY <1>1, NodesNamed DEF Created
    <3>3. NodeAt(q) # NoTopic /\ line[NodeAt(q)] # {} => line[NodeAt(q)] \cap ended # {}
      BY <1>1, <2>5, <3>2, RunInLine
    <3> QED
      BY <3>1, <3>3, StatusRange
  <2> QED
    BY <2>6, ByClear
<1> QED
  BY <1>1, <1>2, <1>3

LEMMA CancelMaps ==
  ASSUME OrderlyInv, [Next]_vars, NEW r, Cancel(r)
  PROVE  [Registry!Next]_[q \in Path |-> StatusAt(q)]
<1> USE Constants
<1>1. /\ Typed /\ Entries /\ Lines /\ OneRun
      /\ r \in 1..runs /\ RunContext(r) \notin ended /\ ended' = ended \cup {RunContext(r)}
      /\ UNCHANGED <<kids, line>>
  BY DEF OrderlyInv, Cancel
<1> PICK s, t : s = [q \in Path |-> StatusAt(q)] /\ t = [q \in Path |-> StatusAt(q)]'
  OBVIOUS
<1>2. ASSUME NEW q \in Path PROVE t[q] = IF s[q] = "served" THEN "cancelled" ELSE s[q]
  <2> PICK n : n = NodeAt(q)
    OBVIOUS
  <2>1. s[q] = Stat(n, line, ended) /\ t[q] = Stat(n, line, ended')
    <3>1. Reach(kids', q) = n
      BY <1>1, SameTree
    <3>2. s[q] = Stat(NodeAt(q), line, ended) /\ t[q] = Stat(Reach(kids', q), line', ended')
      BY Stati
    <3>3. line' = line
      BY <1>1
    <3> QED
      BY <3>1, <3>2, <3>3
  <2>2. n # NoTopic => n \in Topic
    BY <1>1, NodesNamed DEF Created
  <2>3. n # NoTopic /\ line[n] # {} => line[n] \cap ended' # {}
    <3> SUFFICES ASSUME n # NoTopic, line[n] # {} PROVE line[n] \cap ended' # {}
      OBVIOUS
    <3>1. PICK k \in 1..runs : RunContext(k) \in line[n]
      BY <1>1, <2>2, RunInLine
    <3>2. k = r \/ RunContext(k) \in ended
      BY <1>1 DEF OneRun
    <3> QED
      BY <1>1, <3>1, <3>2
  <2> QED
    BY <2>1, <2>3 DEF Stat
<1> QED
  BY <1>2, ByCancelAll

LEMMA InsertMaps ==
  ASSUME OrderlyInv, [Next]_vars, NEW c \in Client, Insert(c)
  PROVE  [Registry!Next]_[q \in Path |-> StatusAt(q)]
<1> USE Constants
<1>0. Typed /\ Entries /\ Lines /\ EntriesHeld
  BY DEF OrderlyInv
<1>1. Typed' /\ Entries' /\ Later
  BY <1>0, TypedStep
<1> PICK n, up, p, x, s, t :
      /\ n = Cardinality(Created) + 1 /\ up = job[c].node /\ p = job[c].path /\ x = Last(p)
      /\ s = [q \in Path |-> StatusAt(q)] /\ t = [q \in Path |-> StatusAt(q)]'
  OBVIOUS
<1>2. /\ n \in Topic /\ n \notin Created /\ Created' = Created \cup {n}
      /\ up \in Created \cup {Server} /\ up \in Owner
      /\ p \in Path /\ x \in Name /\ Front(p) = Place(fullName, up)
      /\ p = Append(Place(fullName, up), x)
      /\ fullName'[n] = p
      /\ \A u \in Owner, y \in Name : kids'[u][y] = IF u = up /\ y = x THEN n ELSE kids[u][y]
      /\ At(c, "insert") /\ UNCHANGED <<ended, line>>
  BY SMTT(30), <1>0, InsertFacts
<1>3. kids[up][x] = NoTopic
  BY ZenonT(30), <1>0, <1>2 DEF EntriesHeld
<1>4. ASSUME NEW q \in Path, ~(NodeAt(Front(p)) = up /\ Begins(p, q))
      PROVE  Reach(kids', q) = NodeAt(q)
  <2>1. \A v \in Owner, y \in Name : v # up \/ y # x => kids'[v][y] = kids[v][y]
    BY <1>2
  <2> QED
    <3>1. /\ up \in Created \cup {Server} /\ x \in Name
          /\ p = EntryPath(up, x) /\ Front(p) = Place(fullName, up)
      BY <1>2 DEF EntryPath
    <3>2. q \in Path /\ ~(NodeAt(Front(p)) = up /\ Begins(p, q))
      BY <1>4
    <3> QED
      BY ONLY <1>0, <2>1, <3>1, <3>2, OtherEntries
<1>5. CASE NodeAt(Front(p)) # up
  <2>1. \A q \in Path : Stat(Reach(kids', q), line', ended') = Stat(NodeAt(q), line, ended)
    BY <1>2, <1>4, <1>5
  <2> QED
    BY <2>1, ByStutter
<1>6. CASE NodeAt(Front(p)) = up
  <2>1. /\ p \in Seq(Name) /\ p # <<>> /\ Len(p) \in Nat /\ Front(p) \in Seq(Name)
        /\ Len(Front(p)) = Len(p) - 1 /\ Len(p) >= 1
        /\ Len(p) > 1 => Front(p) \in Path
        /\ Len(p) = 1 => Front(p) = <<>>
    BY <1>2, PathFacts
  <2>2. Reach(kids', Front(p)) = up
    <3>1. CASE Len(p) = 1
      BY <1>6, <2>1, <3>1, ReachEmpty, NodeAtReach
    <3>2. CASE Len(p) # 1
      <4>1. ~Begins(p, Front(p))
        BY <2>1 DEF Begins
      <4> QED
        BY <1>4, <1>6, <2>1, <3>2, <4>1
    <3> QED
      BY <3>1, <3>2
  <2>3. Reach(kids', p) = n /\ NodeAt(p) = NoTopic /\ up # NoTopic
    <3>1. up # NoTopic
      BY <1>2 DEF Created
    <3>2. Reach(kids', p) = n
      BY <1>2, <2>2, <3>1, ReachStep
    <3>3. NodeAt(p) = NoTopic
      BY <1>0, <1>2, <1>3, <1>6, <3>1, NodeFacts
    <3> QED
      BY <3>1, <3>2, <3>3
  <2>4. ASSUME NEW q \in Path, q # p, Begins(p, q)
        PROVE  Reach(kids', q) = NoTopic /\ NodeAt(q) = NoTopic
    <3>1. NodeAt(q) = NoTopic
      <4>1. NodeAt(q) # NoTopic => NodeAt(p) \in Created \cup {Server}
        BY <1>0, <2>1, <2>4, Branch
      <4> QED
        BY <2>3, <4>1 DEF Created
    <3>2. ASSUME Reach(kids', q) # NoTopic PROVE FALSE
      <4>1. Reach(kids', q) \in Created' /\ fullName'[Reach(kids', q)] = q
        BY <1>1, <3>2, NextNodes
      <4>2. Reach(kids', q) \in Created
        BY <1>2, <2>4, <4>1
      <4>3. Reach(kids', p) = Reach(kids, p)
        BY <1>0, <1>1, <2>1, <2>4, <4>2, TreeShrinks
      <4> QED
        BY <1>2, <2>3, <4>3, NodeAtReach
    <3> QED
      BY <3>1, <3>2
  <2>5. line[n] = {}
    BY <1>0, <1>2 DEF Lines, AddedTo
  <2>6. s[p] = "free" /\ t[p] = "idle"
    <3>1. s[p] = Stat(NodeAt(p), line, ended) /\ t[p] = Stat(Reach(kids', p), line', ended')
      BY <1>2, Stati
    <3>2. s[p] = Stat(NoTopic, line, ended) /\ t[p] = Stat(n, line, ended) /\ n # NoTopic
      BY <1>2, <2>3, <3>1
    <3> QED
      BY <2>5, <3>2, StatusRange
  <2>7. \A q \in Path : q # p => t[q] = s[q]
    <3> SUFFICES ASSUME NEW q \in Path, q # p PROVE t[q] = s[q]
      OBVIOUS
    <3>1. Reach(kids', q) = NodeAt(q)
      BY <1>4, <2>4
    <3> QED
      BY <1>2, <3>1, Stati
  <2>8. t = [s EXCEPT ![p] = "idle"]
    BY <1>2, <2>6, <2>7, Stati
  <2>9. Len(p) > 1 => s[Front(p)] # "free"
    BY <1>6, <2>1, <2>3, Stati DEF Stat
  <2>10. p \in Path
    BY <1>2
  <2> QED
    BY <2>6, <2>8, <2>9, <2>10, ByAdd
<1> QED
  BY <1>5, <1>6

LEMMA StartMaps ==
  ASSUME OrderlyInv, [Next]_vars, NEW c \in Client, StartTopic(c)
  PROVE  [Registry!Next]_[q \in Path |-> StatusAt(q)]
<1> USE Constants
<1>0. Typed /\ Entries /\ Lines
  BY DEF OrderlyInv
<1> PICK n, up, s, t :
      /\ n = job[c].target /\ up = job[c].node
      /\ s = [q \in Path |-> StatusAt(q)] /\ t = [q \in Path |-> StatusAt(q)]'
  OBVIOUS
<1>1. /\ At(c, "start") /\ UNCHANGED <<kids, ended>>
      /\ line' = IF up # Server \/ runned
                 THEN [line EXCEPT ![n] =
                         {n} \cup IF up = Server THEN {RunContext(ctx)} ELSE line[up]]
                 ELSE line
  BY DEF StartTopic
<1>2. /\ line[n] = {} /\ AddedTo(n, up) /\ (up # Server => line[up] # {})
      /\ n \in Created /\ up \in Owner
  <2>1. line[n] = {} /\ AddedTo(n, up) /\ (up # Server => line[up] # {})
    BY <1>0, <1>1 DEF Lines
  <2> QED
    BY <2>1 DEF AddedTo, Created
<1>3. n \in Topic /\ n # NoTopic /\ DOMAIN line = Topic
  BY <1>0, <1>2 DEF Created, Typed, TypedVars
<1>4. \A q \in Path : NodeAt(q) = Reach(kids', q)
  BY <1>1, SameTree
<1>5. CASE line' = line
  BY <1>1, <1>5, SameStatus
<1>6. CASE /\ up # Server \/ runned
           /\ line' = [line EXCEPT ![n] =
                         {n} \cup IF up = Server THEN {RunContext(ctx)} ELSE line[up]]
  <2>1. /\ \A m : m # n => line'[m] = line[m]
        /\ line'[n] # {}
        /\ up # Server => line[up] \subseteq line'[n]
    BY <1>3, <1>6
  <2>2. ASSUME NEW q \in Path, NodeAt(q) # n PROVE t[q] = s[q]
    <3> PICK m : m = NodeAt(q)
      OBVIOUS
    <3>1. s[q] = Stat(m, line, ended) /\ t[q] = Stat(m, line', ended')
      BY <1>4, Stati
    <3>2. line'[m] = line[m] /\ ended' = ended
      BY <1>1, <2>1, <2>2
    <3> QED
      BY <3>1, <3>2 DEF Stat
  <2>3. CASE n \notin InTree
    <3>1. \A q \in Path : NodeAt(q) # n
      BY <1>3, <2>3 DEF InTree
    <3>2. t = s
      BY <2>2, <3>1, Stati
    <3> QED
      BY <3>2
  <2>4. CASE n \in InTree
    <3> PICK p : p = fullName[n]
      OBVIOUS
    <3>1. /\ p \in Path /\ NodeAt(p) = n /\ NodeAt(Front(p)) = up
          /\ Len(p) > 1 <=> up # Server
      BY <1>0, <1>2, <2>4, AboveInTree
    <3>2. \A q \in Path : q # p => NodeAt(q) # n
      BY <1>0, <1>3, NodesNamed
    <3>3. s[p] = Stat(n, line, ended) /\ t[p] = Stat(n, line', ended')
      BY <1>4, <3>1, Stati
    <3>4. s[p] = "idle"
      BY <1>2, <1>3, <3>3 DEF Stat
    <3>5. t[p] \in {"served", "cancelled"}
      BY <1>3, <2>1, <3>3 DEF Stat
    <3>6. t = [s EXCEPT ![p] = t[p]]
      BY <2>2, <3>1, <3>2, Stati
    <3>7. Len(p) > 1 /\ t[p] = "served" => s[Front(p)] = "served"
      <4> SUFFICES ASSUME Len(p) > 1, t[p] = "served" PROVE s[Front(p)] = "served"
        OBVIOUS
      <4>1. Front(p) \in Path /\ up # Server /\ up # NoTopic
        BY <1>2, <3>1, PathFacts
      <4>2. s[Front(p)] = Stat(up, line, ended)
        BY <3>1, <4>1, Stati
      <4>3. line'[n] \cap ended' = {}
        BY <3>3, StatusRange
      <4>4. line[up] # {} /\ line[up] \cap ended = {}
        BY <1>1, <1>2, <2>1, <4>1, <4>3
      <4> QED
        BY <4>1, <4>2, <4>4 DEF Stat
    <3> QED
      BY <3>1, <3>4, <3>5, <3>6, <3>7, ByStart
  <2> QED
    BY <2>3, <2>4
<1> QED
  BY <1>1, <1>5, <1>6

LEMMA RemoveCancelMaps ==
  ASSUME OrderlyInv, [Next]_vars, NEW c \in Client, RemoveCancel(c)
  PROVE  [Registry!Next]_[q \in Path |-> StatusAt(q)]
<1> USE Constants
<1>0. Typed /\ Entries /\ Lines
  BY DEF OrderlyInv
<1> PICK k, s, t :
      /\ k = Top(c).kid
      /\ s = [q \in Path |-> StatusAt(q)] /\ t = [q \in Path |-> StatusAt(q)]'
  OBVIOUS
<1>1. CASE line[k] = {}
  <2>1. UNCHANGED <<kids, line, ended>>
    BY <1>1 DEF RemoveCancel, Panic, topics
  <2> QED
    BY <2>1, SameStatus
<1>2. CASE line[k] # {}
  <2>1. /\ Top(c).at = "cancel" /\ At(c, "removing")
        /\ ended' = ended \cup {k} /\ UNCHANGED <<kids, line>>
    BY <1>2 DEF RemoveCancel
  <2>2. k \in Created /\ k \in Topic /\ fullName[k] \in Path
    <3>1. FrameOK(Top(c), fullName, ended)
      BY <1>0, <2>1, TopFacts DEF Typed, TypedJobs, At
    <3>2. k \in Created
      BY <2>1, <3>1 DEF FrameOK, Holds, Known, Created
    <3> QED
      BY <1>0, <3>2, PlaceFacts DEF Created
  <2>3. ASSUME NEW q \in Path
        PROVE  LET n == NodeAt(q) IN
               /\ s[q] = Stat(n, line, ended) /\ t[q] = Stat(n, line, ended')
               /\ n # NoTopic => n \in InTree /\ n \in Topic /\ fullName[n] = q
               /\ k \notin line[n] => t[q] = s[q]
    <3> PICK n : n = NodeAt(q)
      OBVIOUS
    <3>1. Reach(kids', q) = n /\ line' = line
      BY <2>1, SameTree
    <3>2. s[q] = Stat(n, line, ended) /\ t[q] = Stat(n, line, ended')
      <4>1. s[q] = Stat(NodeAt(q), line, ended) /\ t[q] = Stat(Reach(kids', q), line', ended')
        BY Stati
      <4> QED
        BY <3>1, <4>1
    <3>3. n # NoTopic => n \in InTree /\ n \in Topic /\ fullName[n] = q
      BY <1>0, NodesNamed DEF InTree, Created
    <3>4. k \notin line[n] => line[n] \cap ended' = line[n] \cap ended
      BY <2>1
    <3>5. k \notin line[n] => t[q] = s[q]
      BY <3>2, <3>4 DEF Stat
    <3> QED
      BY <3>2, <3>3, <3>5
  <2>4. CASE k \notin InTree
    <3>1. \A q \in Path : t[q] = s[q]
      <4> SUFFICES ASSUME NEW q \in Path PROVE t[q] = s[q]
        OBVIOUS
      <4> PICK n : n = NodeAt(q)
        OBVIOUS
      <4>1. CASE n = NoTopic
        BY <2>3, <4>1 DEF Stat
      <4>2. CASE n # NoTopic
        <5>1. k \notin line[n]
          BY <1>0, <2>2, <2>3, <2>4, <4>2, PlaceOfLine
        <5> QED
          BY <2>3, <5>1
      <4> QED
        BY <4>1, <4>2
    <3>2. t = s
      BY <3>1, Stati
    <3> QED
      BY <3>2
  <2>5. CASE k \in InTree /\ line[k] \cap ended # {}
    <3>1. \A q \in Path : t[q] = s[q]
      <4> SUFFICES ASSUME NEW q \in Path PROVE t[q] = s[q]
        OBVIOUS
      <4> PICK n : n = NodeAt(q)
        OBVIOUS
      <4>1. CASE n = NoTopic
        BY <2>3, <4>1 DEF Stat
      <4>2. CASE n # NoTopic /\ k \notin line[n]
        BY <2>3, <4>2
      <4>3. CASE n # NoTopic /\ k \in line[n]
        <5>1. line[k] \subseteq line[n]
          BY <1>0, <2>2, <2>3, <4>3, PlaceOfLine
        <5>2. line[n] # {} /\ line[n] \cap ended # {} /\ line[n] \cap ended' # {}
          BY <2>1, <2>5, <5>1
        <5>3. s[q] = Stat(n, line, ended) /\ t[q] = Stat(n, line, ended')
          BY <2>3
        <5> QED
          BY <4>3, <5>2, <5>3 DEF Stat
      <4> QED
        BY <4>1, <4>2, <4>3
    <3>2. t = s
      BY <3>1, Stati
    <3> QED
      BY <3>2
  <2>6. CASE k \in InTree /\ line[k] \cap ended = {}
    <3> PICK p : p = fullName[k]
      OBVIOUS
    <3>1. p \in Path /\ NodeAt(p) = k /\ k # NoTopic
      BY <1>0, <2>2, <2>6, InTreeFacts
    <3>2. s[p] = "served"
      <4>1. s[p] = Stat(k, line, ended)
        BY <2>3, <3>1
      <4> QED
        BY <1>2, <2>6, <3>1, <4>1 DEF Stat
    <3>3. ASSUME NEW q \in Path
          PROVE  t[q] = IF q \in Registry!Below(p) /\ s[q] = "served" THEN "cancelled" ELSE s[q]
      <4> PICK n : n = NodeAt(q)
        OBVIOUS
      <4>1. /\ s[q] = Stat(n, line, ended) /\ t[q] = Stat(n, line, ended')
            /\ n # NoTopic => n \in InTree /\ n \in Topic /\ fullName[n] = q
            /\ k \notin line[n] => t[q] = s[q]
        BY <2>3
      <4>2. q \in Registry!Below(p) <=> Begins(p, q)
        BY <3>1, BelowBegins
      <4>3. CASE n = NoTopic \/ line[n] = {}
        BY <4>1, <4>3 DEF Stat
      <4>4. CASE n # NoTopic /\ line[n] # {} /\ Begins(p, q)
        <5>1. k \in line[n]
          BY <1>0, <2>6, <4>1, <4>4, LineOfPlace
        <5>2. k \in line[n] \cap ended'
          BY <2>1, <5>1
        <5>3. t[q] = "cancelled" /\ s[q] \in {"served", "cancelled"}
          BY <4>1, <4>4, <5>2 DEF Stat
        <5> QED
          BY <4>2, <4>4, <5>3
      <4>5. CASE n # NoTopic /\ line[n] # {} /\ ~Begins(p, q)
        <5>1. k \notin line[n]
          BY <1>0, <2>2, <4>1, <4>5, PlaceOfLine
        <5> QED
          BY <4>1, <4>2, <4>5, <5>1
      <4> QED
        BY <4>3, <4>4, <4>5
    <3> QED
      BY <3>1, <3>2, <3>3, ByCancel
  <2> QED
    BY <2>4, <2>5, <2>6
<1> QED
  BY <1>1, <1>2

LEMMA RemoveDeleteMaps ==
  ASSUME OrderlyInv, [Next]_vars, NEW c \in Client, RemoveDelete(c)
  PROVE  [Registry!Next]_[q \in Path |-> StatusAt(q)]
<1> USE Constants
<1>0. Typed /\ Entries /\ Lines /\ EntriesHeld
  BY DEF OrderlyInv
<1>00. Later
  BY <1>0, TypedStep
<1> PICK f, u, k, x, s, t :
      /\ f = Top(c) /\ u = f.node /\ k = f.kid /\ x = Last(fullName[k])
      /\ s = [q \in Path |-> StatusAt(q)] /\ t = [q \in Path |-> StatusAt(q)]'
  OBVIOUS
<1>1. /\ At(c, "removing") /\ f.at = "delete" /\ UNCHANGED <<ended, line, fullName>>
      /\ \/ kids' = kids
         \/ kids' = [kids EXCEPT ![u][x] = NoTopic]
  BY DEF RemoveDelete
<1>2. /\ k \in Created /\ k \in Topic /\ k # NoTopic /\ u \in Created \cup {Server} /\ u \in Owner
      /\ fullName[k] \in Path /\ Front(fullName[k]) = Place(fullName, u)
      /\ x \in Name /\ k \in ended
      /\ kids[u][x] \in {k, NoTopic}
  <2>1. FrameOK(f, fullName, ended) /\ \E i \in 1..Len(job[c].stack) : f = job[c].stack[i]
    <3>1. /\ FrameOK(f, fullName, ended) /\ f = job[c].stack[Len(job[c].stack)]
          /\ Len(job[c].stack) \in Nat /\ Len(job[c].stack) >= 1
      BY <1>0, <1>1, TopFacts DEF Typed, TypedJobs, At
    <3>2. Len(job[c].stack) \in 1..Len(job[c].stack)
      BY SMTT(30), <3>1
    <3> QED
      BY <3>1, <3>2
  <2>2. /\ k \in Created /\ u \in Created \cup {Server} /\ k \in ended
        /\ Front(fullName[k]) = Place(fullName, u) /\ Holds(f)
    BY <1>1, <2>1 DEF FrameOK, Holds, Known, Created
  <2>3. k \in Topic /\ k # NoTopic /\ fullName[k] \in Path /\ u \in Owner
    BY <1>0, <2>2, PlaceFacts DEF Created
  <2>4. x \in Name
    BY Zenon, <2>3, PathFacts
  <2>5. kids[u][x] \in {k, NoTopic}
    BY Zenon, <1>0, <2>1, <2>2 DEF EntriesHeld
  <2> QED
    BY <2>2, <2>3, <2>4, <2>5
<1>3. CASE kids' = kids
  BY <1>1, <1>3, SameStatus
<1>4. CASE kids' = [kids EXCEPT ![u][x] = NoTopic]
  <2> PICK p : p = fullName[k]
    OBVIOUS
  <2>0. /\ kids'[u][x] = NoTopic
        /\ \A v \in Owner, y \in Name : v # u \/ y # x => kids'[v][y] = kids[v][y]
    BY <1>0, <1>2, <1>4 DEF Typed, TypedVars
  <2>1. /\ p \in Path /\ p \in Seq(Name) /\ p # <<>> /\ Len(p) \in Nat /\ Front(p) \in Seq(Name)
        /\ p = Append(Place(fullName, u), x) /\ Front(p) = Place(fullName, u) /\ Last(p) = x
        /\ Len(Front(p)) = Len(p) - 1
    BY <1>2, PathFacts
  <2>2. ASSUME NEW q \in Path, ~(NodeAt(Front(p)) = u /\ Begins(p, q))
        PROVE  Reach(kids', q) = NodeAt(q)
    <3>1. /\ u \in Created \cup {Server} /\ x \in Name
          /\ p = EntryPath(u, x) /\ Front(p) = Place(fullName, u)
      BY <1>2, <2>1 DEF EntryPath
    <3>2. q \in Path /\ ~(NodeAt(Front(p)) = u /\ Begins(p, q))
      BY <2>2
    <3>3. \A v \in Owner, y \in Name : v # u \/ y # x => kids'[v][y] = kids[v][y]
      BY <2>0
    <3>4. Typed /\ Entries
      BY <1>0
    <3> QED
      BY ONLY <3>1, <3>2, <3>3, <3>4, OtherEntries
  <2>3. CASE NodeAt(Front(p)) # u
    <3>1. \A q \in Path : Stat(Reach(kids', q), line', ended') = Stat(NodeAt(q), line, ended)
      BY <1>1, <2>2, <2>3
    <3> QED
      BY <3>1, ByStutter
  <2>4. CASE kids[u][x] = NoTopic
    <3>1. kids' = kids
      <4>1. kids \in [Owner -> [Name -> Created \cup {NoTopic}]]
        BY <1>0 DEF Typed, TypedVars
      <4> QED
        BY <1>2, <1>4, <2>4, <4>1
    <3> QED
      BY <1>1, <3>1, SameStatus
  <2>5. CASE NodeAt(Front(p)) = u /\ kids[u][x] = k
    <3>1. NodeAt(p) = k /\ u # NoTopic /\ k \in InTree
      <4>1. u # NoTopic
        BY <1>2 DEF Created
      <4>2. NodeAt(p) = k
        BY <1>0, <2>1, <2>5, <4>1, NodeFacts
      <4> QED
        BY <1>2, <2>1, <4>1, <4>2 DEF InTree
    <3>2. line[k] # {} /\ k \in line[k] \cap ended
      <4>1. line[k] # {}
        BY <1>0, <1>2 DEF Lines
      <4> QED
        BY <1>0, <1>2, <4>1, OwnLine
    <3>3. ASSUME NEW q \in Path, Begins(p, q) PROVE Reach(kids', q) = NoTopic
      <4> SUFFICES ASSUME Reach(kids', q) # NoTopic PROVE FALSE
        OBVIOUS
      <4>0. Typed' /\ Entries'
        BY <1>0, TypedStep
      <4>1. Reach(kids', q) \in Created
        <5>1. Reach(kids', q) \in Created'
          BY <3>3, <4>0, NextNodes
        <5> QED
          BY <1>1, <5>1 DEF Created
      <4>2. \A r \in Seq(Name) : Begins(r, q) => Reach(kids', r) = Reach(kids, r)
        BY <1>0, <1>00, <4>1, TreeShrinks
      <4>3. Begins(Front(p), q)
        <5>1. \A i \in 1..(Len(p) - 1) : Front(p)[i] = p[i]
          BY <2>1, FrontFacts
        <5>2. q \in Seq(Name) /\ Len(q) \in Nat
          BY PathFacts
        <5> QED
          BY <2>1, <3>3, <5>1, <5>2 DEF Begins
      <4>4. Reach(kids', p) = k /\ Reach(kids', Front(p)) = u
        BY <2>1, <2>5, <3>1, <3>3, <4>2, <4>3, NodeAtReach
      <4>5. Reach(kids', p) = kids'[u][x]
        BY <2>1, <3>1, <4>4, ReachStep
      <4> QED
        BY <1>2, <2>0, <4>4, <4>5
    <3>4. ASSUME NEW q \in Path
          PROVE  /\ t[q] = IF Begins(p, q) THEN "free" ELSE s[q]
                 /\ Begins(p, q) => s[q] # "served"
      <4> PICK n : n = NodeAt(q)
        OBVIOUS
      <4>1. s[q] = Stat(n, line, ended) /\ t[q] = Stat(Reach(kids', q), line, ended)
        <5>1. s[q] = Stat(NodeAt(q), line, ended) /\ t[q] = Stat(Reach(kids', q), line', ended')
          BY Stati
        <5> QED
          BY <1>1, <5>1
      <4>2. CASE ~Begins(p, q)
        BY <2>2, <4>1, <4>2
      <4>3. CASE Begins(p, q)
        <5>1. t[q] = "free"
          BY <3>3, <4>1, <4>3 DEF Stat
        <5>2. s[q] # "served"
          <6>1. n # NoTopic => n \in InTree /\ fullName[n] = q
            BY <1>0, NodesNamed DEF InTree
          <6>2. n # NoTopic /\ line[n] # {} => k \in line[n]
            BY <1>0, <3>1, <4>3, <6>1, LineOfPlace
          <6>3. n # NoTopic /\ line[n] # {} => line[n] \cap ended # {}
            BY <3>2, <6>2
          <6> QED
            BY <4>1, <6>3 DEF Stat
        <5> QED
          BY <4>3, <5>1, <5>2
      <4> QED
        BY <4>2, <4>3
    <3>5. s[p] = "cancelled"
      <4>1. s[p] = Stat(k, line, ended)
        BY <2>1, <3>1, Stati
      <4> QED
        BY <1>2, <3>2, <4>1 DEF Stat
    <3>6. \A q \in Registry!Below(p) : q \in Path
      BY DEF Registry!Below
    <3>7. \A q \in Path : q \in Registry!Below(p) <=> Begins(p, q)
      BY <2>1, BelowBegins
    <3>8. p \in Path
      BY <2>1
    <3>9. \A q \in Registry!Below(p) : s[q] # "served"
      BY <3>4, <3>6, <3>7
    <3>10. \A q \in Path : t[q] = IF q \in Registry!Below(p) THEN "free" ELSE s[q]
      BY <3>4, <3>7
    <3> QED
      BY <3>5, <3>8, <3>9, <3>10, ByRemove
  <2> QED
    BY <1>2, <2>3, <2>4, <2>5
<1> QED
  BY <1>1, <1>3, <1>4

LEMMA RegistryFrom == Init => Registry!Init
<1> USE Constants
<1> SUFFICES ASSUME Init PROVE Registry!Init
  OBVIOUS
<1>1. Typed /\ Entries
  BY TypesFrom, EntriesFrom
<1>2. Created = {}
  BY DEF Init, Created
<1>3. \A p \in Path : NodeAt(p) = NoTopic
  BY <1>1, <1>2, NodesNamed
<1>4. \A p \in Path : StatusAt(p) = "free"
  BY <1>3, StatusIs, StatusRange
<1> QED
  BY <1>4 DEF Registry!Init

LEMMA RegistryStep ==
  OrderlyInv /\ Orderly /\ [Next]_vars => [Registry!Next]_[p \in Path |-> StatusAt(p)]
<1> SUFFICES ASSUME OrderlyInv, Orderly, [Next]_vars
             PROVE  [Registry!Next]_[p \in Path |-> StatusAt(p)]
  OBVIOUS
<1>1. CASE UNCHANGED <<server, topics>>
  BY <1>1, SameStatus DEF topics
<1>2. ASSUME NEW c \in Client, RunSet(c) \/ SubscribeOne(c) \/ Unsubscribe(c)
      PROVE  UNCHANGED <<kids, line, ended>>
  BY <1>2 DEF RunSet, SubscribeOne, Unsubscribe, topics
<1>3. ASSUME NEW r, StopperFires(r) PROVE UNCHANGED <<kids, line, ended>>
  BY <1>3 DEF StopperFires, topics
<1>4. ASSUME NEW n, LoopEnds(n) PROVE UNCHANGED <<kids, line, ended>>
  BY <1>4 DEF LoopEnds
<1> QED
  BY <1>1, <1>2, <1>3, <1>4, Quiet, SameStatus, CleanMaps, CancelMaps, InsertMaps, StartMaps,
     RemoveCancelMaps, RemoveDeleteMaps

\* While callers keep apart the calls that write the same entry, and the Runs,
\* every step of AddTopic, RemoveTopic and Run is a step of TopicRegistry, or
\* none that callers can see: a topic comes below one that is there, and a
\* branch leaves only when nothing in it is served (es/es.go and es/topic.go,
\* whose calls lock for one access at a time).
THEOREM Implements == Spec /\ []Orderly => ImplementsRegistry
<1>1. Init => OrderlyInv
  BY OrderlyInvFrom
<1>2. OrderlyInv /\ Orderly /\ [Next]_vars => OrderlyInv'
  BY OrderlyInvStays
<1>3. OrderlyInv /\ Orderly /\ [Next]_vars => [Registry!Next]_[p \in Path |-> StatusAt(p)]
  BY RegistryStep
<1>4. Init => Registry!Init
  BY RegistryFrom
<1> QED
  BY <1>1, <1>2, <1>3, <1>4, PTL DEF Spec, ImplementsRegistry, Registry!Spec

\* A topic is served only while the one above it is, and can be looked up only
\* through the topics above it, with no hypothesis on the calls (es/topic.go
\* run, which derives the topic's context from that of the one above).
THEOREM FromAbove == Spec => [](Registry!ServedFromAbove /\ Registry!ParentsPresent)
<1> USE Constants
<1>1. Init => Typed /\ Entries /\ Lines
  BY TypesFrom, EntriesFrom, LinesFrom
<1>2. Typed /\ Entries /\ Lines /\ [Next]_vars => Typed' /\ Entries' /\ Lines'
  BY TypedStep, LinesStay
<1>3. ASSUME Typed, Entries, Lines
      PROVE  Registry!ServedFromAbove /\ Registry!ParentsPresent
  <2> PICK s : s = [q \in Path |-> StatusAt(q)]
    OBVIOUS
  <2>1. \A q \in Path : s[q] = Stat(NodeAt(q), line, ended)
    BY StatusIs
  <2>2. ASSUME NEW p \in Path, Len(p) > 1, s[p] # "free"
        PROVE  /\ Front(p) \in Path /\ s[Front(p)] # "free"
               /\ s[p] = "served" => s[Front(p)] = "served"
    <3> PICK n : n = NodeAt(p)
      OBVIOUS
    <3>1. n # NoTopic /\ n \in InTree /\ n \in Topic /\ fullName[n] = p
      BY <1>3, <2>1, <2>2, NodesNamed DEF Stat, InTree, Created
    <3>2. Front(p) \in Path /\ NodeAt(Front(p)) # NoTopic
      BY <1>3, <2>2, <3>1, PathFacts, NodeFacts
    <3>3. s[Front(p)] # "free"
      BY <2>1, <3>2 DEF Stat
    <3>4. ASSUME s[p] = "served" PROVE s[Front(p)] = "served"
      <4>1. line[n] # {} /\ line[n] \cap ended = {}
        BY <2>1, <3>4, StatusRange
      <4>2. PICK u \in Owner :
              /\ AddedTo(n, u)
              /\ u # Server => u < n /\ line[u] # {} /\ line[n] = {n} \cup line[u]
        BY <1>3, <3>1, <4>1 DEF Lines
      <4>3. NodeAt(Front(p)) = u /\ u # Server
        <5>1. /\ NodeAt(Front(fullName[n])) = u
              /\ Len(fullName[n]) > 1 <=> u # Server
          BY <1>3, <3>1, <4>2, AboveInTree
        <5> QED
          BY <2>2, <3>1, <5>1
      <4>4. line[u] # {} /\ line[u] \cap ended = {} /\ u # NoTopic
        BY <4>1, <4>2, <4>3
      <4> QED
        BY <2>1, <3>2, <4>3, <4>4 DEF Stat
    <3> QED
      BY <3>2, <3>3, <3>4
  <2>3. \A p \in Path : Registry!Above(p) = Front(p)
    BY DEF Registry!Above, Front
  <2> QED
    BY <2>2, <2>3 DEF Registry!ServedFromAbove, Registry!ParentsPresent
<1> QED
  BY <1>1, <1>2, <1>3, PTL DEF Spec

=============================================================================
