---------------------------- MODULE CommonLemmas ----------------------------
(***************************************************************************)
(* Facts about the operators that several components' models are built     *)
(* from: sequences, sums over finite sets, bytes and their conversions.    *)
(* The provers have no induction over data; every induction here is a      *)
(* search for a least counterexample.                                      *)
(***************************************************************************)
EXTENDS Hex, Integers, Sequences, FiniteSetsExt, SequencesExt, SequenceTheorems,
        FiniteSetTheorems, WellFoundedInduction, TLAPS

(* CHOOSE finds the least element of a set of natural numbers.             *)
LEMMA MinIsLeast ==
    ASSUME NEW S \in SUBSET Nat, S # {}
    PROVE  Min(S) \in S /\ \A y \in S : Min(S) <= y
<1>1. PICK x \in S : \A y \in S : <<y, x>> \notin OpToRel(<, Nat)
  BY WFMin, NatLessThanWellFounded, Zenon
<1>2. \A y \in S : ~(y < x)
  BY <1>1 DEF OpToRel
<1>3. \A y \in S : x <= y
  BY <1>2
<1> QED BY <1>3 DEF Min

(* A set of counterexamples in which every element has a smaller one is    *)
(* empty.                                                                  *)
LEMMA NoLeast ==
    ASSUME NEW S \in SUBSET Nat, \A x \in S : \E y \in S : y < x
    PROVE  S = {}
<1> SUFFICES ASSUME S # {} PROVE FALSE
  OBVIOUS
<1>1. PICK x \in S : \A y \in S : x <= y
  BY MinIsLeast
<1>2. PICK y \in S : y < x
  OBVIOUS
<1> QED BY <1>1, <1>2

LEMMA Associative ==
    ASSUME NEW S
    PROVE  \A a, b, c \in Seq(S) : (a \o b) \o c = a \o (b \o c)
BY ConcatAssociative

LEMMA ConcatGapAt ==
    ASSUME NEW S, NEW a \in Seq(S), NEW b \in Seq(S), NEW c \in Seq(S)
    PROVE  (a \o <<>>) \o (b \o c) = (a \o b) \o c
<1>1. (a \o b) \o c = a \o (b \o c)
  BY ConcatAssociative
<1>2. a \o <<>> = a
  BY ConcatEmptySeq
<1> QED BY <1>1, <1>2, Zenon

LEMMA ConcatGap ==
    ASSUME NEW S
    PROVE  \A a, b, c \in Seq(S) : (a \o <<>>) \o (b \o c) = (a \o b) \o c
BY ConcatGapAt

LEMMA FirstAndRest ==
    ASSUME NEW S, NEW x \in S, NEW s \in Seq(S)
    PROVE  /\ <<x>> \o s # <<>>
           /\ Head(<<x>> \o s) = x
           /\ Tail(<<x>> \o s) = s
<1> DEFINE c == <<x>> \o s
<1>1. /\ c \in Seq(S) /\ Len(c) = Len(s) + 1 /\ Len(s) \in Nat
      /\ c[1] = x /\ \A i \in 1..Len(s) : c[i + 1] = s[i]
  OBVIOUS
<1> HIDE DEF c
<1>2. c # <<>> /\ Head(c) = x
  BY <1>1
<1>3. /\ Tail(c) \in Seq(S) /\ Len(Tail(c)) = Len(s)
      /\ \A i \in 1..Len(s) : Tail(c)[i] = s[i]
  BY <1>1, <1>2, HeadTailProperties
<1>4. Tail(c) = s
  BY <1>3, SeqEqual
<1> QED BY <1>2, <1>4 DEF c

-----------------------------------------------------------------------------
(* FlattenSeq is the last value of a recursive function on the positions.  *)
Flattening(f, s, n) ==
    f = [i \in 1..n |-> IF i = 1 THEN s[i] ELSE f[i-1] \o s[i]]

LEMMA FlatteningExists ==
    ASSUME NEW s, NEW n \in Nat
    PROVE  \E f : Flattening(f, s, n)
<1> DEFINE Bad == {m \in Nat : ~\E f : Flattening(f, s, m)}
<1>1. ASSUME NEW m \in Bad PROVE \E y \in Bad : y < m
  <2>1. m # 0
    <3>1. Flattening([i \in 1..0 |-> s[i]], s, 0)
      BY DEF Flattening
    <3> QED BY <3>1
  <2>2. SUFFICES ASSUME m - 1 \notin Bad PROVE FALSE
    BY <2>1
  <2>3. PICK f : Flattening(f, s, m - 1)
    BY <2>1, <2>2
  <2> DEFINE g == [i \in 1..m |-> IF i = m THEN (IF m = 1 THEN s[m] ELSE f[m-1] \o s[m])
                                          ELSE f[i]]
  <2>4. ASSUME NEW i \in 1..m
        PROVE  g[i] = IF i = 1 THEN s[i] ELSE g[i-1] \o s[i]
    <3>1. CASE i = m
      BY <2>1, <3>1
    <3>2. CASE i # m
      <4>1. i \in 1..(m - 1) /\ g[i] = f[i]
        BY <3>2
      <4>2. f[i] = IF i = 1 THEN s[i] ELSE f[i-1] \o s[i]
        BY <2>3, <4>1 DEF Flattening
      <4>3. i # 1 => i - 1 \in 1..m /\ i - 1 # m
        BY <4>1
      <4> QED BY <4>1, <4>2, <4>3
    <3> QED BY <3>1, <3>2
  <2>5. g = [i \in 1..m |-> IF i = 1 THEN s[i] ELSE g[i-1] \o s[i]]
    BY <2>4
  <2>6. Flattening(g, s, m)
    BY <2>5 DEF Flattening
  <2> QED BY <2>6
<1>2. Bad = {}
  BY <1>1, NoLeast
<1> QED BY <1>2

LEMMA FlatteningStep ==
    ASSUME NEW f, NEW s, NEW n \in Nat, Flattening(f, s, n), NEW i \in 1..n
    PROVE  f[i] = IF i = 1 THEN s[i] ELSE f[i-1] \o s[i]
BY DEF Flattening

(* Two sequences that begin alike flatten alike as far as that goes.       *)
LEMMA FlatteningAgrees ==
    ASSUME NEW s, NEW t, NEW k \in Nat, NEW n \in Nat, k <= n,
           NEW f, NEW g, Flattening(f, s, k), Flattening(g, t, n),
           \A i \in 1..k : s[i] = t[i]
    PROVE  \A i \in 1..k : f[i] = g[i]
<1> DEFINE Bad == {i \in 1..k : f[i] # g[i]}
<1>1. ASSUME NEW i \in Bad PROVE \E y \in Bad : y < i
  <2>1. /\ f[i] = IF i = 1 THEN s[i] ELSE f[i-1] \o s[i]
        /\ g[i] = IF i = 1 THEN t[i] ELSE g[i-1] \o t[i]
    BY FlatteningStep
  <2>2. i # 1 /\ f[i-1] # g[i-1]
    BY <2>1
  <2>3. i - 1 \in 1..k /\ i - 1 < i
    BY <2>2
  <2> QED BY <2>2, <2>3
<1>2. Bad = {}
  <2>1. Bad \in SUBSET Nat
    OBVIOUS
  <2> HIDE DEF Bad
  <2> QED BY <1>1, <2>1, NoLeast
<1> QED BY <1>2

LEMMA FlatteningType ==
    ASSUME NEW S, NEW s \in Seq(Seq(S)), NEW f, Flattening(f, s, Len(s))
    PROVE  \A i \in 1..Len(s) : f[i] \in Seq(S)
<1> DEFINE Bad == {i \in 1..Len(s) : f[i] \notin Seq(S)}
<1>0. Len(s) \in Nat
  BY LenProperties
<1>1. ASSUME NEW i \in Bad PROVE \E y \in Bad : y < i
  <2>1. f[i] = IF i = 1 THEN s[i] ELSE f[i-1] \o s[i]
    BY <1>0, FlatteningStep
  <2>2. s[i] \in Seq(S)
    BY <1>0, ElementOfSeq
  <2>3. i # 1
    BY <2>1, <2>2
  <2>4. f[i-1] \notin Seq(S)
    <3> SUFFICES ASSUME f[i-1] \in Seq(S) PROVE FALSE
      OBVIOUS
    <3>1. f[i-1] \o s[i] \in Seq(S)
      BY <2>2, ConcatProperties
    <3> QED BY <2>1, <2>3, <3>1
  <2>5. i - 1 \in 1..Len(s) /\ i - 1 < i
    BY <1>0, <2>3
  <2> QED BY <2>4, <2>5
<1>2. Bad = {}
  <2>1. Bad \in SUBSET Nat
    BY <1>0
  <2> QED BY <1>1, <2>1, NoLeast
<1> QED BY <1>2

LEMMA FlattenIsLast ==
    ASSUME NEW S, NEW s \in Seq(S), s # <<>>
    PROVE  \E f : Flattening(f, s, Len(s)) /\ FlattenSeq(s) = f[Len(s)]
<1>1. Len(s) \in Nat /\ Len(s) # 0
  BY EmptySeq, LenProperties
<1> DEFINE f == CHOOSE h : Flattening(h, s, Len(s))
<1>2. Flattening(f, s, Len(s))
  <2>1. \E h : Flattening(h, s, Len(s))
    BY <1>1, FlatteningExists
  <2> QED BY <2>1, Zenon
<1>3. FlattenSeq(s) = f[Len(s)]
  BY <1>1, Zenon DEF FlattenSeq, Flattening
<1> QED BY <1>2, <1>3

LEMMA FlattenEmpty == FlattenSeq(<<>>) = <<>>
BY DEF FlattenSeq

LEMMA FlattenType ==
    ASSUME NEW S, NEW s \in Seq(Seq(S))
    PROVE  FlattenSeq(s) \in Seq(S)
<1>1. CASE s = <<>>
  BY <1>1, FlattenEmpty, EmptySeq
<1>2. CASE s # <<>>
  <2>1. PICK f : Flattening(f, s, Len(s)) /\ FlattenSeq(s) = f[Len(s)]
    BY <1>2, FlattenIsLast
  <2>2. Len(s) \in 1..Len(s)
    <3>1. Len(s) \in Nat \ {0}
      BY <1>2, EmptySeq
    <3> QED BY <3>1
  <2> QED BY <2>1, <2>2, FlatteningType
<1> QED BY <1>1, <1>2

(* One more sequence at the end.                                           *)
LEMMA FlattenAppend ==
    ASSUME NEW S, NEW s \in Seq(Seq(S)), NEW x \in Seq(S)
    PROVE  FlattenSeq(Append(s, x)) = FlattenSeq(s) \o x
<1> DEFINE t == Append(s, x)
<1>1. /\ t \in Seq(Seq(S)) /\ t # <<>> /\ Len(t) = Len(s) + 1 /\ Len(s) \in Nat
      /\ \A i \in 1..Len(s) : t[i] = s[i]
      /\ t[Len(s) + 1] = x
  BY AppendProperties, LenProperties
<1> HIDE DEF t
<1>2. PICK g : Flattening(g, t, Len(t)) /\ FlattenSeq(t) = g[Len(t)]
  BY <1>1, FlattenIsLast
<1>3. FlattenSeq(t) = IF Len(t) = 1 THEN t[Len(t)] ELSE g[Len(t) - 1] \o t[Len(t)]
  <2>1. Len(t) \in Nat /\ Len(t) \in 1..Len(t)
    BY <1>1
  <2>2. g[Len(t)] = IF Len(t) = 1 THEN t[Len(t)] ELSE g[Len(t) - 1] \o t[Len(t)]
    BY <1>2, <2>1, FlatteningStep, Zenon
  <2> QED BY <1>2, <2>2
<1>4. CASE s = <<>>
  <2>1. Len(s) = 0
    BY <1>4
  <2>2. FlattenSeq(t) = x
    BY <1>1, <1>3, <2>1
  <2> QED BY <1>4, <2>2, FlattenEmpty, ConcatEmptySeq DEF t
<1>5. CASE s # <<>>
  <2>1. PICK f : Flattening(f, s, Len(s)) /\ FlattenSeq(s) = f[Len(s)]
    BY <1>5, FlattenIsLast
  <2>2. Len(s) \in Nat \ {0}
    BY <1>5, EmptySeq
  <2>3. \A i \in 1..Len(s) : f[i] = g[i]
    <3>1. \A i \in 1..Len(s) : s[i] = t[i]
      BY <1>1
    <3>2. Len(t) \in Nat /\ Len(s) \in Nat /\ Len(s) <= Len(t)
      BY <1>1
    <3>3. Flattening(f, s, Len(s)) /\ Flattening(g, t, Len(t))
      BY <1>2, <2>1
    <3> DEFINE k == Len(s)   n == Len(t)
    <3>4. /\ Flattening(f, s, k) /\ Flattening(g, t, n) /\ k \in Nat /\ n \in Nat /\ k <= n
          /\ \A i \in 1..k : s[i] = t[i]
      BY <3>1, <3>2, <3>3
    <3> HIDE DEF k, n
    <3>5. \A i \in 1..k : f[i] = g[i]
      BY <3>4, FlatteningAgrees
    <3> QED BY <3>5 DEF k
  <2>4. f[Len(s)] = g[Len(s)]
    BY <2>2, <2>3
  <2>5. Len(t) # 1 /\ Len(t) - 1 = Len(s) /\ t[Len(t)] = x
    BY <1>1, <2>2
  <2>6. FlattenSeq(t) = f[Len(s)] \o x
    BY <1>3, <2>4, <2>5
  <2> QED BY <2>1, <2>6, Zenon DEF t
<1> QED BY <1>4, <1>5

(* Two recursive concatenations that differ in what they begin with only.  *)
Continues(f, x, t, n) == f[1] = x /\ \A k \in 1..n : f[k + 1] = f[k] \o t[k]

Concatenates(g, t, n, S) ==
    \A k \in 1..n :
        /\ g[k] = (IF k = 1 THEN t[k] ELSE g[k-1] \o t[k])
        /\ g[k] \in Seq(S)
        /\ t[k] \in Seq(S)

LEMMA LaterByFirst ==
    ASSUME NEW S, NEW x \in Seq(S), NEW t, NEW f, NEW g, NEW n \in Nat,
           Continues(f, x, t, n), Concatenates(g, t, n, S)
    PROVE  \A k \in 1..n : f[k + 1] = x \o g[k]
<1>0. \A a, b, c \in Seq(S) : (a \o b) \o c = a \o (b \o c)
  BY Associative
<1> DEFINE Bad == {k \in 1..n : f[k + 1] # x \o g[k]}
<1>1. ASSUME NEW k \in Bad PROVE \E y \in Bad : y < k
  <2>1. k \in 1..n /\ f[k + 1] # x \o g[k]
    OBVIOUS
  <2> HIDE DEF Bad
  <2>2. k # 1
    BY <2>1 DEF Continues, Concatenates
  <2>3. k - 1 \in 1..n /\ k - 1 < k /\ (k - 1) + 1 = k
    BY <2>1, <2>2
  <2>4. f[k + 1] = f[k] \o t[k] /\ g[k] = g[k-1] \o t[k]
    BY <2>1, <2>2 DEF Continues, Concatenates
  <2>5. g[k-1] \in Seq(S) /\ t[k] \in Seq(S)
    BY <2>1, <2>3 DEF Concatenates
  <2>6. (x \o g[k-1]) \o t[k] = x \o (g[k-1] \o t[k])
    BY <1>0, <2>5, Zenon
  <2>7. f[k] # x \o g[k-1]
    BY <2>1, <2>4, <2>6
  <2> QED BY <2>3, <2>7 DEF Bad
<1>2. Bad = {}
  <2>1. Bad \in SUBSET Nat
    OBVIOUS
  <2> HIDE DEF Bad
  <2> QED BY <1>1, <2>1, NoLeast
<1> QED BY <1>2

(* The first sequence taken off.                                           *)
LEMMA FlattenTail ==
    ASSUME NEW S, NEW s \in Seq(Seq(S)), s # <<>>
    PROVE  FlattenSeq(s) = Head(s) \o FlattenSeq(Tail(s))
<1> DEFINE t == Tail(s)
<1>1. /\ t \in Seq(Seq(S)) /\ Len(t) = Len(s) - 1 /\ Len(s) \in Nat \ {0}
      /\ \A i \in 1..Len(t) : t[i] = s[i + 1] /\ t[i] \in Seq(S)
      /\ Head(s) = s[1] /\ s[1] \in Seq(S)
  <2>1. Len(s) \in Nat \ {0}
    BY EmptySeq
  <2>2. /\ t \in Seq(Seq(S)) /\ Len(t) = Len(s) - 1
        /\ \A i \in 1..Len(t) : t[i] = s[i + 1]
        /\ Head(s) \in Seq(S)
    BY HeadTailProperties
  <2>3. \A i \in 1..Len(t) : t[i] \in Seq(S)
    BY <2>2, ElementOfSeq
  <2>4. Head(s) = s[1]
    OBVIOUS
  <2> QED BY <2>1, <2>2, <2>3, <2>4
<1>2. PICK f : Flattening(f, s, Len(s)) /\ FlattenSeq(s) = f[Len(s)]
  BY FlattenIsLast
<1> HIDE DEF t
<1>3. CASE t = <<>>
  <2>1. Len(s) = 1
    <3>1. Len(t) = 0
      BY <1>3
    <3> QED BY <1>1, <3>1
  <2>2. FlattenSeq(s) = s[1]
    <3>1. 1 \in 1..Len(s) /\ Len(s) \in Nat
      BY <2>1
    <3> QED BY <1>2, <2>1, <3>1, FlatteningStep
  <2> QED BY <1>1, <1>3, <2>2, FlattenEmpty, ConcatEmptySeq DEF t
<1>4. CASE t # <<>>
  <2>1. PICK g : Flattening(g, t, Len(t)) /\ FlattenSeq(t) = g[Len(t)]
    BY <1>1, <1>4, FlattenIsLast
  <2>2. Len(t) \in Nat \ {0}
    BY <1>1, <1>4, EmptySeq
  <2>3. Concatenates(g, t, Len(t), S)
    <3> SUFFICES ASSUME NEW k \in 1..Len(t)
                 PROVE  /\ g[k] = (IF k = 1 THEN t[k] ELSE g[k-1] \o t[k])
                        /\ g[k] \in Seq(S)
                        /\ t[k] \in Seq(S)
      BY DEF Concatenates
    <3>1. g[k] = IF k = 1 THEN t[k] ELSE g[k-1] \o t[k]
      BY <2>1, <2>2, FlatteningStep
    <3>2. g[k] \in Seq(S)
      BY <1>1, <2>1, FlatteningType
    <3> QED BY <1>1, <3>1, <3>2
  <2>4. Continues(f, s[1], t, Len(t))
    <3>1. f[1] = s[1]
      <4>1. 1 \in 1..Len(s) /\ Len(s) \in Nat
        BY <1>1
      <4> QED BY <1>2, <4>1, FlatteningStep
    <3>2. ASSUME NEW k \in 1..Len(t) PROVE f[k + 1] = f[k] \o t[k]
      <4>1. k + 1 \in 1..Len(s) /\ k + 1 # 1 /\ (k + 1) - 1 = k /\ Len(s) \in Nat
        BY <1>1, <2>2
      <4>2. f[k + 1] = f[(k + 1) - 1] \o s[k + 1]
        BY <1>2, <4>1, FlatteningStep
      <4> QED BY <1>1, <4>1, <4>2
    <3> QED BY <3>1, <3>2 DEF Continues
  <2>5. f[Len(t) + 1] = s[1] \o g[Len(t)]
    <3> DEFINE x == s[1]   n == Len(t)
    <3>1. x \in Seq(S) /\ n \in Nat /\ n \in 1..n
      BY <1>1, <2>2
    <3>2. Continues(f, x, t, n) /\ Concatenates(g, t, n, S)
      BY <2>3, <2>4
    <3> HIDE DEF x, n
    <3>3. \A k \in 1..n : f[k + 1] = x \o g[k]
      BY <3>1, <3>2, LaterByFirst
    <3> QED BY <3>1, <3>3 DEF x, n
  <2>6. Len(t) + 1 = Len(s)
    BY <1>1
  <2> QED BY <1>1, <1>2, <2>1, <2>5, <2>6 DEF t
<1> QED BY <1>3, <1>4
-----------------------------------------------------------------------------
(* The sequences a function gives for the elements, one after the other.   *)
Mapped(F, s) == [i \in DOMAIN s |-> F[s[i]]]

FlattenMap(F, s) == FlattenSeq(Mapped(F, s))

(* F gives each element of S a sequence over T; and what that makes of a   *)
(* sequence of elements.                                                   *)
MapsInto(F, S, T) == F \in [S -> Seq(T)]

IsMapped(m, F, s, T) ==
    /\ m \in Seq(Seq(T))
    /\ Len(m) = Len(s)
    /\ \A i \in 1..Len(s) : m[i] = F[s[i]]

LEMMA MapType ==
    ASSUME NEW S, NEW T, NEW F, NEW s \in Seq(S), MapsInto(F, S, T)
    PROVE  IsMapped(Mapped(F, s), F, s, T)
<1>1. Len(s) \in Nat /\ DOMAIN s = 1..Len(s)
  BY LenProperties
<1> DEFINE U == Seq(T)
<1>2. \A i \in 1..Len(s) : F[s[i]] \in U
  BY ElementOfSeq DEF MapsInto
<1> HIDE DEF U
<1>3. Mapped(F, s) \in Seq(U) /\ Len(Mapped(F, s)) = Len(s)
  BY <1>1, <1>2 DEF Mapped
<1>4. \A i \in 1..Len(s) : Mapped(F, s)[i] = F[s[i]]
  BY <1>1 DEF Mapped
<1> QED BY <1>3, <1>4 DEF U, IsMapped

LEMMA FlattenMapEmpty == \A F : FlattenMap(F, <<>>) = <<>>
<1> SUFFICES ASSUME NEW F PROVE FlattenMap(F, <<>>) = <<>>
  OBVIOUS
<1>1. [i \in DOMAIN <<>> |-> F[<<>>[i]]] = <<>>
  OBVIOUS
<1> QED BY <1>1, FlattenEmpty DEF FlattenMap, Mapped

LEMMA FlattenMapType ==
    ASSUME NEW S, NEW T, NEW F, MapsInto(F, S, T), NEW s \in Seq(S)
    PROVE  FlattenMap(F, s) \in Seq(T)
<1>1. Mapped(F, s) \in Seq(Seq(T))
  BY MapType DEF IsMapped
<1> QED BY <1>1, FlattenType DEF FlattenMap

LEMMA FlattenMapAppend ==
    ASSUME NEW S, NEW T, NEW F, MapsInto(F, S, T), NEW s \in Seq(S), NEW e \in S
    PROVE  FlattenMap(F, Append(s, e)) = FlattenMap(F, s) \o F[e]
<1> DEFINE m == Mapped(F, s)
           t == Append(s, e)
           n == Mapped(F, t)
           a == Append(m, F[e])
<1>1. m \in Seq(Seq(T)) /\ Len(m) = Len(s) /\ \A i \in 1..Len(s) : m[i] = F[s[i]]
  <2>1. IsMapped(m, F, s, T)
    BY MapType
  <2> QED BY <2>1 DEF IsMapped
<1>2. F[e] \in Seq(T)
  BY DEF MapsInto
<1>3. /\ t \in Seq(S) /\ Len(t) = Len(s) + 1 /\ t[Len(s) + 1] = e
      /\ \A i \in 1..Len(s) : t[i] = s[i]
  BY AppendProperties
<1>4. Len(s) \in Nat
  BY LenProperties
<1> HIDE DEF t
<1>5. n \in Seq(Seq(T)) /\ Len(n) = Len(t) /\ \A i \in 1..Len(t) : n[i] = F[t[i]]
  <2>1. IsMapped(n, F, t, T)
    BY <1>3, MapType
  <2> QED BY <2>1 DEF IsMapped
<1> HIDE DEF m, n
<1>8. /\ a \in Seq(Seq(T)) /\ Len(a) = Len(s) + 1 /\ a[Len(s) + 1] = F[e]
      /\ \A i \in 1..Len(s) : a[i] = m[i]
  <2>1. \A U : \A q \in Seq(U), u \in U :
           /\ Append(q, u) \in Seq(U) /\ Len(Append(q, u)) = Len(q) + 1
           /\ Append(q, u)[Len(q) + 1] = u
           /\ \A i \in 1..Len(q) : Append(q, u)[i] = q[i]
    BY AppendProperties
  <2> QED BY <1>1, <1>2, <2>1
<1> HIDE DEF a
<1>9. \A i \in 1..(Len(s) + 1) : n[i] = a[i]
  <2> TAKE i \in 1..(Len(s) + 1)
  <2>1. CASE i \in 1..Len(s)
    BY <1>1, <1>3, <1>4, <1>5, <1>8, <2>1
  <2>2. CASE i = Len(s) + 1
    BY <1>3, <1>4, <1>5, <1>8, <2>2
  <2> QED BY <1>4, <2>1, <2>2
<1>10. n = a
  BY <1>3, <1>4, <1>5, <1>8, <1>9, SeqEqual
<1>11. FlattenSeq(Append(m, F[e])) = FlattenSeq(m) \o F[e]
  BY <1>1, <1>2, FlattenAppend
<1> QED BY <1>10, <1>11, Zenon DEF FlattenMap, m, n, t, a

LEMMA FlattenMapTail ==
    ASSUME NEW S, NEW T, NEW F, MapsInto(F, S, T), NEW s \in Seq(S), s # <<>>
    PROVE  FlattenMap(F, s) = F[Head(s)] \o FlattenMap(F, Tail(s))
<1> DEFINE m == Mapped(F, s)
           t == Tail(s)
           n == Mapped(F, t)
<1>1. /\ Len(s) \in Nat \ {0} /\ Head(s) = s[1]
      /\ t \in Seq(S) /\ Len(t) = Len(s) - 1
      /\ \A i \in 1..Len(t) : t[i] = s[i + 1]
  <2>1. Len(s) \in Nat \ {0}
    BY EmptySeq, LenProperties
  <2>2. /\ t \in Seq(S) /\ Len(t) = Len(s) - 1
        /\ \A i \in 1..Len(t) : t[i] = s[i + 1]
    BY HeadTailProperties
  <2>3. Head(s) = s[1]
    OBVIOUS
  <2> QED BY <2>1, <2>2, <2>3
<1>2. m \in Seq(Seq(T)) /\ Len(m) = Len(s) /\ \A i \in 1..Len(s) : m[i] = F[s[i]]
  <2>1. IsMapped(m, F, s, T)
    BY MapType
  <2> QED BY <2>1 DEF IsMapped
<1> HIDE DEF t
<1>3. n \in Seq(Seq(T)) /\ Len(n) = Len(t) /\ \A i \in 1..Len(t) : n[i] = F[t[i]]
  <2>1. IsMapped(n, F, t, T)
    BY <1>1, MapType
  <2> QED BY <2>1 DEF IsMapped
<1> HIDE DEF m, n
<1>6. m # <<>> /\ Head(m) = F[Head(s)]
  <2>1. m # <<>>
    BY <1>1, <1>2
  <2>2. Head(m) = m[1]
    BY <1>2, <2>1
  <2>3. 1 \in 1..Len(s)
    BY <1>1
  <2> QED BY <1>1, <1>2, <2>1, <2>2, <2>3
<1>7. Tail(m) = n
  <2>1. /\ Tail(m) \in Seq(Seq(T)) /\ Len(Tail(m)) = Len(s) - 1
        /\ \A i \in 1..Len(Tail(m)) : Tail(m)[i] = m[i + 1]
    <3>1. \A U : \A q \in Seq(U) : q # <<>> =>
             /\ Tail(q) \in Seq(U) /\ Len(Tail(q)) = Len(q) - 1
             /\ \A i \in 1..Len(Tail(q)) : Tail(q)[i] = q[i + 1]
      BY HeadTailProperties
    <3> QED BY <1>2, <1>6, <3>1
  <2> DEFINE k == Len(s)
  <2>2. k \in Nat \ {0} /\ Len(n) = k - 1 /\ Len(t) = k - 1
        /\ Len(Tail(m)) = k - 1 /\ Len(m) = k
    BY <1>1, <1>2, <1>3, <2>1
  <2>3. \A i \in 1..(k - 1) : Tail(m)[i] = n[i]
    <3> TAKE i \in 1..(k - 1)
    <3>1. i + 1 \in 1..k
      BY <2>2
    <3>2. Tail(m)[i] = m[i + 1] /\ n[i] = F[t[i]] /\ t[i] = s[i + 1]
      BY <1>1, <1>3, <2>1, <2>2
    <3>3. m[i + 1] = F[s[i + 1]]
      BY <1>2, <3>1
    <3> QED BY <3>2, <3>3
  <2> QED BY <1>3, <2>1, <2>2, <2>3, SeqEqual
<1>8. FlattenSeq(m) = Head(m) \o FlattenSeq(Tail(m))
  BY <1>2, <1>6, FlattenTail
<1> QED BY <1>6, <1>7, <1>8, Zenon DEF FlattenMap, m, n, t

(* A function that gives every element itself changes nothing.             *)
Singles(F, S) == \A e \in S : F[e] = <<e>>

LEMMA FlattenMapSingles ==
    ASSUME NEW S, NEW F, MapsInto(F, S, S), Singles(F, S), NEW s \in Seq(S)
    PROVE  FlattenMap(F, s) = s
<1> DEFINE Bad == {n \in Nat : \E u \in Seq(S) : Len(u) = n /\ FlattenMap(F, u) # u}
<1>1. ASSUME NEW n \in Bad PROVE \E m \in Bad : m < n
  <2>1. PICK u \in Seq(S) : Len(u) = n /\ FlattenMap(F, u) # u
    OBVIOUS
  <2>2. CASE u = <<>>
    BY <2>1, <2>2, FlattenMapEmpty
  <2>3. CASE u # <<>>
    <3>1. PICK v \in Seq(S), e \in S : u = Append(v, e)
      BY <2>3, SequenceEmptyOrAppend
    <3>2. FlattenMap(F, u) = FlattenMap(F, v) \o <<e>>
      <4> HIDE DEF Bad
      <4>1. FlattenMap(F, Append(v, e)) = FlattenMap(F, v) \o F[e]
        BY FlattenMapAppend
      <4> QED BY <3>1, <4>1, Zenon DEF Singles
    <3>3. u = v \o <<e>>
      BY <3>1, AppendIsConcat
    <3>4. FlattenMap(F, v) # v
      BY <2>1, <3>2, <3>3
    <3>5. Len(v) \in Nat /\ Len(v) < n
      BY <2>1, <3>1, AppendProperties, LenProperties
    <3> QED BY <3>4, <3>5
  <2> QED BY <2>2, <2>3
<1>2. Bad = {}
  <2>1. Bad \in SUBSET Nat
    OBVIOUS
  <2> HIDE DEF Bad
  <2> QED BY <1>1, <2>1, NoLeast
<1>3. Len(s) \in Nat
  BY LenProperties
<1> QED BY <1>2, <1>3

(* A sequence cut in two.                                                  *)
LEMMA CutInTwo ==
    ASSUME NEW S, NEW s \in Seq(S), NEW k \in 1..Len(s)
    PROVE  /\ SubSeq(s, 1, k) \in Seq(S)
           /\ SubSeq(s, k + 1, Len(s)) \in Seq(S)
           /\ SubSeq(s, 1, k) \o SubSeq(s, k + 1, Len(s)) = s
           /\ k = Len(s) => SubSeq(s, k + 1, Len(s)) = <<>>
<1>1. Len(s) \in Nat /\ k \in Int /\ k + 1 \in Int /\ \A i \in 1..Len(s) : s[i] \in S
  BY ElementOfSeq, LenProperties
<1>2. SubSeq(s, 1, k) \in Seq(S) /\ SubSeq(s, k + 1, Len(s)) \in Seq(S)
  <2>1. \A i \in 1..k : s[i] \in S
    BY <1>1
  <2>2. \A i \in (k + 1)..Len(s) : s[i] \in S
    BY <1>1
  <2> QED BY <1>1, <2>1, <2>2, SubSeqProperties
<1>3. SubSeq(s, 1, k) \o SubSeq(s, k + 1, Len(s)) = s
  <2>1. SubSeq(s, 1, k) \o SubSeq(s, k + 1, Len(s)) = SubSeq(s, 1, Len(s))
    BY <1>1, ConcatAdjacentSubSeq
  <2> QED BY <2>1, SubSeqFull
<1>4. k = Len(s) => SubSeq(s, k + 1, Len(s)) = <<>>
  BY <1>1, SubSeqEmpty
<1> QED BY <1>2, <1>3, <1>4
-----------------------------------------------------------------------------
(* Sums over a finite set of positions.                                    *)
Total(s, P) == MapThenSumSet(LAMBDA i : s[i], P)

Picked(t) == CHOOSE x \in t : TRUE

Summing(f, s, P) ==
    f = [t \in SUBSET P |-> IF t = {} THEN 0 ELSE s[Picked(t)] + f[t \ {Picked(t)}]]

LEMMA TotalByRecursion ==
    ASSUME NEW s, NEW P
    PROVE  Total(s, P) = (CHOOSE f : Summing(f, s, P))[P]
BY DEF Total, Summing, Picked, MapThenSumSet, MapThenFoldSet

LEMMA SummingStep ==
    ASSUME NEW f, NEW s, NEW P, Summing(f, s, P), NEW t \in SUBSET P
    PROVE  f[t] = IF t = {} THEN 0 ELSE s[Picked(t)] + f[t \ {Picked(t)}]
BY DEF Summing

LEMMA PickedIn == \A t : t # {} => Picked(t) \in t
BY DEF Picked

(* A set with one element less is a smaller set.                           *)
LEMMA OneLess ==
    ASSUME NEW t, IsFiniteSet(t), NEW x \in t
    PROVE  /\ IsFiniteSet(t \ {x}) /\ Cardinality(t \ {x}) \in Nat
           /\ Cardinality(t) \in Nat /\ Cardinality(t \ {x}) < Cardinality(t)
<1>1. IsFiniteSet(t \ {x}) /\ Cardinality(t \ {x}) = Cardinality(t) - 1
  BY FS_RemoveElement
<1>2. Cardinality(t) \in Nat /\ Cardinality(t \ {x}) \in Nat
  BY <1>1, FS_CardinalityType
<1> QED BY <1>1, <1>2

(* Induction over finite sets: of counterexamples there is a smallest.     *)
LEMMA NoSmallest ==
    ASSUME NEW Bad, \A t \in Bad : IsFiniteSet(t),
           \A t \in Bad : \E x \in t : t \ {x} \in Bad
    PROVE  Bad = {}
<1> DEFINE Sizes == {n \in Nat : \E t \in Bad : Cardinality(t) = n}
<1>1. ASSUME NEW n \in Sizes PROVE \E m \in Sizes : m < n
  <2>1. PICK t \in Bad : Cardinality(t) = n
    OBVIOUS
  <2>2. PICK x \in t : t \ {x} \in Bad
    OBVIOUS
  <2>3. Cardinality(t \ {x}) \in Nat /\ Cardinality(t \ {x}) < Cardinality(t)
    BY OneLess
  <2> QED BY <2>1, <2>2, <2>3
<1>2. Sizes = {}
  BY <1>1, NoLeast
<1> QED BY <1>2, FS_CardinalityType

(* The value of a recursion does not depend on the set it is for.          *)
LEMMA SummingAgrees ==
    ASSUME NEW s, NEW P, NEW Q, NEW f, NEW g, Summing(f, s, P), Summing(g, s, Q),
           IsFiniteSet(P), P \subseteq Q
    PROVE  f[P] = g[P]
<1> DEFINE Bad == {t \in SUBSET P : f[t] # g[t]}
<1>1. ASSUME NEW t \in Bad PROVE \E x \in t : t \ {x} \in Bad
  <2>1. t \in SUBSET P /\ t \in SUBSET Q
    OBVIOUS
  <2>2. /\ f[t] = IF t = {} THEN 0 ELSE s[Picked(t)] + f[t \ {Picked(t)}]
        /\ g[t] = IF t = {} THEN 0 ELSE s[Picked(t)] + g[t \ {Picked(t)}]
    BY <2>1, SummingStep
  <2>3. t # {} /\ f[t \ {Picked(t)}] # g[t \ {Picked(t)}]
    BY <2>2
  <2>4. Picked(t) \in t /\ t \ {Picked(t)} \in SUBSET P
    BY <2>1, <2>3, PickedIn
  <2> QED BY <2>3, <2>4
<1>2. \A t \in Bad : IsFiniteSet(t)
  BY FS_Subset
<1>3. Bad = {}
  <2> HIDE DEF Bad
  <2> QED BY <1>1, <1>2, NoSmallest
<1> QED BY <1>3

LEMMA TotalIsValue ==
    ASSUME NEW s, NEW P, NEW Q, NEW g, IsFiniteSet(P), P \subseteq Q, Summing(g, s, Q),
           \E f : Summing(f, s, P)
    PROVE  Total(s, P) = g[P]
<1> DEFINE h == CHOOSE f : Summing(f, s, P)
<1>1. Summing(h, s, P)
  BY Zenon
<1>2. Total(s, P) = h[P]
  BY TotalByRecursion
<1> HIDE DEF h
<1> QED BY <1>1, <1>2, SummingAgrees

LEMMA SummingExists ==
    ASSUME NEW s, NEW P, IsFiniteSet(P)
    PROVE  \E f : Summing(f, s, P)
<1> DEFINE Bad == {t \in SUBSET P : ~\E f : Summing(f, s, t)}
<1>1. ASSUME NEW t \in Bad PROVE \E x \in t : t \ {x} \in Bad
  <2> SUFFICES ASSUME \A x \in t : t \ {x} \notin Bad PROVE FALSE
    OBVIOUS
  <2> DEFINE f == [u \in SUBSET t |-> IF u = {} THEN 0
                                      ELSE s[Picked(u)] + Total(s, u \ {Picked(u)})]
  <2>1. ASSUME NEW x \in t, NEW u, u \subseteq t \ {x}
        PROVE  \E g : Summing(g, s, u)
    <3>1. PICK g : Summing(g, s, t \ {x})
      OBVIOUS
    <3> DEFINE h == [v \in SUBSET u |-> g[v]]
    <3>2. ASSUME NEW v \in SUBSET u
          PROVE  h[v] = IF v = {} THEN 0 ELSE s[Picked(v)] + h[v \ {Picked(v)}]
      <4>1. v \in SUBSET (t \ {x}) /\ v \ {Picked(v)} \in SUBSET u
        BY <2>1
      <4> QED BY <3>1, <4>1, SummingStep
    <3>3. h = [v \in SUBSET u |-> IF v = {} THEN 0 ELSE s[Picked(v)] + h[v \ {Picked(v)}]]
      BY <3>2
    <3>4. Summing(h, s, u)
      BY <3>3, Zenon DEF Summing
    <3> QED BY <3>4
  <2>2. ASSUME NEW u \in SUBSET t, u # {}
        PROVE  Total(s, u \ {Picked(u)}) = f[u \ {Picked(u)}]
    <3> DEFINE v == u \ {Picked(u)}
    <3>1. Picked(u) \in t /\ v \subseteq t \ {Picked(u)} /\ v \in SUBSET t
      BY <2>2, PickedIn
    <3>2. PICK g : Summing(g, s, v)
      BY <2>1, <3>1
    <3>3. IsFiniteSet(v)
      BY <3>1, FS_Subset
    <3>4. Total(s, v) = g[v]
      BY <3>2, <3>3, TotalIsValue
    <3>5. g[v] = IF v = {} THEN 0 ELSE s[Picked(v)] + g[v \ {Picked(v)}]
      BY <3>2, SummingStep
    <3>6. CASE v = {}
      BY <3>1, <3>4, <3>5, <3>6
    <3>7. CASE v # {}
      <4> DEFINE w == v \ {Picked(v)}
      <4>1. w \subseteq v /\ IsFiniteSet(w) /\ w \subseteq t \ {Picked(u)}
        BY <3>1, <3>3, FS_Subset
      <4>2. \E k : Summing(k, s, w)
        BY <2>1, <3>1, <4>1
      <4>3. Total(s, w) = g[w]
        <5> HIDE DEF w, v
        <5> QED BY <3>2, <4>1, <4>2, TotalIsValue
      <4>4. f[v] = s[Picked(v)] + Total(s, w)
        BY <3>1, <3>7
      <4> QED BY <3>4, <3>5, <3>7, <4>3, <4>4
    <3> QED BY <3>6, <3>7
  <2>3. ASSUME NEW u \in SUBSET t
        PROVE  f[u] = IF u = {} THEN 0 ELSE s[Picked(u)] + f[u \ {Picked(u)}]
    BY <2>2
  <2>4. f = [u \in SUBSET t |-> IF u = {} THEN 0 ELSE s[Picked(u)] + f[u \ {Picked(u)}]]
    BY <2>3
  <2>5. Summing(f, s, t)
    BY <2>4, Zenon DEF Summing
  <2> QED BY <2>5
<1>2. \A t \in Bad : IsFiniteSet(t)
  BY FS_Subset
<1>3. Bad = {}
  <2> HIDE DEF Bad
  <2> QED BY <1>1, <1>2, NoSmallest
<1> QED BY <1>3

(* The sum is that of the picked element and of the rest.                  *)
LEMMA TotalStep ==
    ASSUME NEW s, NEW P, IsFiniteSet(P), P # {}
    PROVE  Total(s, P) = s[Picked(P)] + Total(s, P \ {Picked(P)})
<1> DEFINE R == P \ {Picked(P)}
<1>1. PICK g : Summing(g, s, P)
  BY SummingExists
<1>2. IsFiniteSet(R) /\ R \subseteq P
  BY FS_Subset
<1>3. Total(s, R) = g[R]
  <2>1. \E f : Summing(f, s, R)
    BY <1>2, SummingExists
  <2> HIDE DEF R
  <2> QED BY <1>1, <1>2, <2>1, TotalIsValue
<1>4. Total(s, P) = g[P]
  BY <1>1, TotalIsValue
<1>5. g[P] = s[Picked(P)] + g[R]
  BY <1>1, SummingStep
<1> QED BY <1>3, <1>4, <1>5

LEMMA TotalEmpty == \A s : Total(s, {}) = 0
<1> SUFFICES ASSUME NEW s PROVE Total(s, {}) = 0
  OBVIOUS
<1>1. IsFiniteSet({})
  BY FS_EmptySet
<1>2. PICK g : Summing(g, s, {})
  BY <1>1, SummingExists
<1>3. Total(s, {}) = g[{}]
  BY <1>1, <1>2, TotalIsValue
<1> QED BY <1>2, <1>3, SummingStep

LEMMA TotalType ==
    ASSUME NEW s, NEW P, IsFiniteSet(P), \A i \in P : s[i] \in Nat
    PROVE  Total(s, P) \in Nat
<1> DEFINE Bad == {t \in SUBSET P : Total(s, t) \notin Nat}
<1>1. ASSUME NEW t \in Bad PROVE \E x \in t : t \ {x} \in Bad
  <2>1. t # {}
    BY TotalEmpty
  <2>2. IsFiniteSet(t) /\ Picked(t) \in t /\ s[Picked(t)] \in Nat
    BY <2>1, FS_Subset, PickedIn
  <2>3. Total(s, t) = s[Picked(t)] + Total(s, t \ {Picked(t)})
    BY <2>1, <2>2, TotalStep
  <2>4. Total(s, t \ {Picked(t)}) \notin Nat
    BY <2>2, <2>3
  <2> QED BY <2>2, <2>4
<1>2. \A t \in Bad : IsFiniteSet(t)
  BY FS_Subset
<1>3. Bad = {}
  <2> HIDE DEF Bad
  <2> QED BY <1>1, <1>2, NoSmallest
<1> QED BY <1>3

(* Sequences that agree on the positions have the same sum over them.      *)
LEMMA TotalSame ==
    ASSUME NEW s, NEW u, NEW P, IsFiniteSet(P), \A i \in P : s[i] = u[i]
    PROVE  Total(s, P) = Total(u, P)
<1> DEFINE Bad == {t \in SUBSET P : Total(s, t) # Total(u, t)}
<1>1. ASSUME NEW t \in Bad PROVE \E x \in t : t \ {x} \in Bad
  <2>1. t # {}
    BY TotalEmpty
  <2>2. IsFiniteSet(t) /\ Picked(t) \in t /\ s[Picked(t)] = u[Picked(t)]
    BY <2>1, FS_Subset, PickedIn
  <2>3. /\ Total(s, t) = s[Picked(t)] + Total(s, t \ {Picked(t)})
        /\ Total(u, t) = u[Picked(t)] + Total(u, t \ {Picked(t)})
    BY <2>1, <2>2, TotalStep
  <2> QED BY <2>2, <2>3
<1>2. \A t \in Bad : IsFiniteSet(t)
  BY FS_Subset
<1>3. Bad = {}
  <2> HIDE DEF Bad
  <2> QED BY <1>1, <1>2, NoSmallest
<1> QED BY <1>3

(* Any element can be taken out of the sum, not only the picked one.       *)
LEMMA TotalRemove ==
    ASSUME NEW s, NEW P, IsFiniteSet(P), \A i \in P : s[i] \in Nat, NEW m \in P
    PROVE  Total(s, P) = s[m] + Total(s, P \ {m})
<1> DEFINE Bad == {t \in SUBSET P : \E x \in t : Total(s, t) # s[x] + Total(s, t \ {x})}
<1>1. ASSUME NEW t \in Bad PROVE \E x \in t : t \ {x} \in Bad
  <2>1. PICK x \in t : Total(s, t) # s[x] + Total(s, t \ {x})
    OBVIOUS
  <2> DEFINE y == Picked(t)
  <2>2. IsFiniteSet(t) /\ y \in t /\ t # {}
    BY <2>1, FS_Subset, PickedIn
  <2>3. Total(s, t) = s[y] + Total(s, t \ {y})
    BY <2>2, TotalStep
  <2> HIDE DEF y
  <2>4. x # y
    BY <2>1, <2>3
  <2> DEFINE r == (t \ {x}) \ {y}
  <2>5. r = (t \ {y}) \ {x} /\ IsFiniteSet(r) /\ r \in SUBSET P
    BY <2>2, FS_Subset
  <2>6. s[x] \in Nat /\ s[y] \in Nat /\ Total(s, r) \in Nat
    <3>1. \A i \in r : s[i] \in Nat
      BY <2>5
    <3> HIDE DEF r
    <3> QED BY <2>2, <2>5, <3>1, TotalType
  <2>7. t \ {x} \in Bad \/ t \ {y} \in Bad
    <3> SUFFICES ASSUME t \ {x} \notin Bad, t \ {y} \notin Bad PROVE FALSE
      OBVIOUS
    <3>1. Total(s, t \ {x}) = s[y] + Total(s, r)
      BY <2>2, <2>4
    <3>2. Total(s, t \ {y}) = s[x] + Total(s, r)
      BY <2>4, <2>5
    <3> HIDE DEF r
    <3> QED BY <2>1, <2>3, <2>6, <3>1, <3>2
  <2> QED BY <2>2, <2>7
<1>2. \A t \in Bad : IsFiniteSet(t)
  BY FS_Subset
<1>3. Bad = {}
  <2> HIDE DEF Bad
  <2> QED BY <1>1, <1>2, NoSmallest
<1> QED BY <1>3

(* One position more.                                                      *)
LEMMA TotalAdd ==
    ASSUME NEW s, NEW P, IsFiniteSet(P), \A i \in P : s[i] \in Nat,
           NEW m, m \notin P, s[m] \in Nat
    PROVE  Total(s, P \cup {m}) = Total(s, P) + s[m]
<1> DEFINE Q == P \cup {m}
<1>1. IsFiniteSet(Q) /\ Q \ {m} = P /\ m \in Q /\ \A i \in Q : s[i] \in Nat
  BY FS_AddElement
<1>2. Total(s, P) \in Nat
  BY TotalType
<1>3. Total(s, Q) = s[m] + Total(s, Q \ {m})
  <2> HIDE DEF Q
  <2> QED BY <1>1, TotalRemove
<1> QED BY <1>1, <1>2, <1>3

LEMMA TotalNext ==
    ASSUME NEW s, NEW n \in Nat, \A i \in 1..(n + 1) : s[i] \in Nat
    PROVE  Total(s, 1..(n + 1)) = Total(s, 1..n) + s[n + 1]
<1> DEFINE P == 1..n
           m == n + 1
<1>1. IsFiniteSet(P)
  <2>1. 1 \in Int /\ n \in Int
    OBVIOUS
  <2> QED BY <2>1, FS_Interval
<1>2. m \notin P /\ 1..(n + 1) = P \cup {m} /\ s[m] \in Nat
  OBVIOUS
<1>3. \A i \in P : s[i] \in Nat
  OBVIOUS
<1> HIDE DEF P, m
<1>4. Total(s, P \cup {m}) = Total(s, P) + s[m]
  BY <1>1, <1>2, <1>3, TotalAdd
<1> QED BY <1>2, <1>4 DEF P, m
-----------------------------------------------------------------------------
(* An assignment to a char or a uint8_t leaves a byte in it.               *)
LEMMA U8Range ==
    ASSUME NEW x \in Int
    PROVE  U8(x) \in Char
BY DEF U8, Char

LEMMA U8Type ==
    ASSUME NEW x \in Char
    PROVE  /\ U8(x) \in Char
           /\ \A y \in Char : U8(x + y) \in Char
           /\ \A k \in Int : U8(x - k) \in Char
           /\ U8(x * 16) \in Char
<1>1. U8(x) \in Char
  BY U8Range DEF Char
<1>2. ASSUME NEW y \in Char PROVE U8(x + y) \in Char
  <2>1. x + y \in Int
    BY DEF Char
  <2> QED BY <2>1, U8Range
<1>3. ASSUME NEW k \in Int PROVE U8(x - k) \in Char
  <2>1. x - k \in Int
    BY DEF Char
  <2> QED BY <2>1, U8Range
<1>4. U8(x * 16) \in Char
  <2>1. x * 16 \in Int
    BY DEF Char
  <2> QED BY <2>1, U8Range
<1> QED BY <1>1, <1>2, <1>3, <1>4

(* Every byte, whatever it is, decodes to a byte.                          *)
LEMMA NibbleType ==
    ASSUME NEW hex \in Char
    PROVE  char_from_hex_nibble(hex) \in Char
<1> DEFINE digit == U8(hex - 48)
           upper == IF digit > 9 THEN U8(digit - 7) ELSE digit
<1>1. digit \in Char
  BY U8Type
<1> HIDE DEF digit
<1>2. upper \in Char
  BY <1>1, U8Type
<1>3. ASSUME NEW y \in Char PROVE U8(y - 32) \in Char
  BY U8Type
<1> HIDE DEF upper
<1> QED BY <1>2, <1>3 DEF char_from_hex_nibble, digit, upper
=============================================================================
