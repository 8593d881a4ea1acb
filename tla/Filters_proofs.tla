---------------------------- MODULE Filters_proofs -----------------------------
(***************************************************************************)
(* What Kept returns, for every sequence and every set: the lemmas the     *)
(* proofs about the response cache and the quota cite.                     *)
(*                                                                         *)
(* They are by induction on the sequence.  The library states induction    *)
(* for an operator P(_), which the provers here cannot instantiate; here   *)
(* it is stated for a set, the set of what the claim holds of, and follows *)
(* from the least element of its complement.                               *)
(***************************************************************************)
EXTENDS Filters, SequenceTheorems, WellFoundedInduction, TLAPS

--------------------------------------------------------------------------------
(* Induction over a set. *)

\* A set of naturals has a least element.
LEMMA NatSetMin ==
  ASSUME NEW T \in SUBSET Nat, T # {}
  PROVE  \E x \in T : \A y \in T : x <= y
<1>1. IsWellFoundedOn(OpToRel(<,Nat), Nat)
  BY NatLessThanWellFounded
<1>2. PICK x \in T : \A y \in T : ~ (<<y, x>> \in OpToRel(<,Nat))
  BY <1>1, WFMin
<1>3. \A y \in T : ~ (y < x)
  BY <1>2 DEF OpToRel
<1>4. QED BY <1>3

\* A set that holds 0 and the successors of its members holds every natural.
LEMMA SetInduction ==
  ASSUME NEW I, 0 \in I, \A n \in Nat : n \in I => n + 1 \in I
  PROVE  \A n \in Nat : n \in I
<1> DEFINE T == {n \in Nat : n \notin I}
<1>1. SUFFICES ASSUME T # {} PROVE FALSE
  OBVIOUS
<1>2. PICK x \in T : \A y \in T : x <= y
  BY <1>1, NatSetMin
<1>3. x # 0 /\ x \in Nat
  OBVIOUS
<1>4. x - 1 \in Nat /\ x - 1 \notin T
  BY <1>2, <1>3
<1>5. x \in I
  BY <1>3, <1>4
<1>6. QED BY <1>5

--------------------------------------------------------------------------------
(* The recursion of Kept. *)

\* f is the recursive function in Kept, up to n.
Trace(f, s, K, n) ==
  f = [i \in 0..n |-> IF i = 0 THEN <<>>
        ELSE IF s[i] \in K THEN Append(f[i - 1], s[i]) ELSE f[i - 1]]

\* Its values.
LEMMA TraceAt ==
  ASSUME NEW f, NEW s, NEW K, NEW n \in Nat, Trace(f, s, K, n)
  PROVE  /\ f[0] = <<>>
         /\ \A i \in 1..n :
              f[i] = IF s[i] \in K THEN Append(f[i - 1], s[i]) ELSE f[i - 1]
<1>1. f = [i \in 0..n |-> IF i = 0 THEN <<>>
        ELSE IF s[i] \in K THEN Append(f[i - 1], s[i]) ELSE f[i - 1]]
  BY DEF Trace
<1> DEFINE g == [i \in 0..n |-> IF i = 0 THEN <<>>
        ELSE IF s[i] \in K THEN Append(f[i - 1], s[i]) ELSE f[i - 1]]
<1>2. \A i \in 0..n : g[i] = IF i = 0 THEN <<>>
        ELSE IF s[i] \in K THEN Append(f[i - 1], s[i]) ELSE f[i - 1]
  OBVIOUS
<1>3. f = g
  BY <1>1
<1> HIDE DEF g
<1>4. \A i \in 0..n : f[i] = IF i = 0 THEN <<>>
        ELSE IF s[i] \in K THEN Append(f[i - 1], s[i]) ELSE f[i - 1]
  BY <1>2, <1>3
<1>5. QED
  BY <1>4

\* There is one for every n: the recursion is well founded.
LEMMA TraceExists ==
  ASSUME NEW s, NEW K
  PROVE  \A n \in Nat : \E f : Trace(f, s, K, n)
<1> DEFINE I == {n \in Nat : \E f : Trace(f, s, K, n)}
<1>1. 0 \in I
  <2> DEFINE f == [i \in 0..0 |-> <<>>]
  <2>1. Trace(f, s, K, 0)
    BY DEF Trace
  <2>2. QED
    BY <2>1
<1>2. ASSUME NEW n \in Nat, n \in I PROVE n + 1 \in I
  <2>1. PICK f : Trace(f, s, K, n)
    BY <1>2
  <2> DEFINE e == IF s[n+1] \in K THEN Append(f[n], s[n+1]) ELSE f[n]
             g == [i \in 0..(n+1) |-> IF i = n+1 THEN e ELSE f[i]]
             h == [i \in 0..(n+1) |-> IF i = 0 THEN <<>>
                     ELSE IF s[i] \in K THEN Append(g[i - 1], s[i]) ELSE g[i - 1]]
  <2>2. \A i \in 0..n : g[i] = f[i]
    OBVIOUS
  <2>3. g[n+1] = e
    OBVIOUS
  <2>4. h[0] = <<>> /\ \A i \in 1..(n+1) : h[i] = IF s[i] \in K THEN Append(g[i - 1], s[i]) ELSE g[i - 1]
    OBVIOUS
  <2>5. f[0] = <<>> /\ \A i \in 1..n : f[i] = IF s[i] \in K THEN Append(f[i - 1], s[i]) ELSE f[i - 1]
    BY <2>1, TraceAt
  <2>6. \A i \in 0..(n+1) : g[i] = h[i]
    <3> SUFFICES ASSUME NEW i \in 0..(n+1) PROVE g[i] = h[i]
      OBVIOUS
    <3> HIDE DEF g, h
    <3>1. CASE i = 0
      BY <3>1, <2>2, <2>4, <2>5
    <3>2. CASE i \in 1..n
      BY <3>2, <2>2, <2>4, <2>5
    <3>3. CASE i = n + 1
      <4>1. h[n+1] = IF s[n+1] \in K THEN Append(g[n], s[n+1]) ELSE g[n]
        BY <2>4
      <4>2. g[n] = f[n]
        BY <2>2
      <4>3. QED
        BY <3>3, <4>1, <4>2, <2>3
    <3>4. QED
      BY <3>1, <3>2, <3>3
  <2>7. g = h
    <3> HIDE DEF e
    <3>1. DOMAIN g = 0..(n+1) /\ DOMAIN h = 0..(n+1)
      OBVIOUS
    <3>2. g = [i \in 0..(n+1) |-> g[i]] /\ h = [i \in 0..(n+1) |-> h[i]]
      OBVIOUS
    <3> HIDE DEF g, h
    <3>3. QED
      BY <3>2, <2>6
  <2>8. Trace(g, s, K, n+1)
    BY <2>7 DEF Trace
  <2>9. QED
    BY <2>8
<1>3. QED
  <2> HIDE DEF I
  <2>1. \A n \in Nat : n \in I
    BY <1>1, <1>2, SetInduction
  <2>2. QED
    BY <2>1 DEF I

\* So Kept is the last value of one.
LEMMA KeptTrace ==
  ASSUME NEW S, NEW s \in Seq(S), NEW K
  PROVE  \E f : Trace(f, s, K, Len(s)) /\ Kept(s, K) = f[Len(s)]
<1> DEFINE u == CHOOSE f : Trace(f, s, K, Len(s))
<1>1. Len(s) \in Nat
  OBVIOUS
<1>2. Trace(u, s, K, Len(s))
  BY <1>1, TraceExists
<1>3. Kept(s, K) = u[Len(s)]
  BY DEF Kept, Trace
<1>4. QED
  BY <1>2, <1>3

\* A set that holds <<>> and, with a sequence, that with an element appended,
\* holds every sequence.
LEMMA SequenceInduction ==
  ASSUME NEW S, NEW I, <<>> \in I,
         \A s \in Seq(S), e \in S : s \in I => Append(s, e) \in I
  PROVE  \A s \in Seq(S) : s \in I
<1> DEFINE J == {n \in Nat : \A s \in Seq(S) : Len(s) = n => s \in I}
<1>1. 0 \in J
  <2> SUFFICES ASSUME NEW s \in Seq(S), Len(s) = 0 PROVE s \in I
    OBVIOUS
  <2>1. s = <<>>
    BY EmptySeq
  <2>2. QED
    BY <2>1
<1>2. ASSUME NEW n \in Nat, n \in J PROVE n + 1 \in J
  <2> SUFFICES ASSUME NEW s \in Seq(S), Len(s) = n + 1 PROVE s \in I
    OBVIOUS
  <2>1. s # <<>>
    BY EmptySeq
  <2>2. PICK t \in Seq(S), e \in S : s = Append(t, e)
    BY <2>1, SequenceEmptyOrAppend
  <2>3. Len(t) \in Nat /\ Len(s) = Len(t) + 1
    BY <2>2, AppendProperties, LenProperties
  <2> DEFINE m == Len(t)
  <2>4. m \in Nat /\ m + 1 = n + 1
    BY <2>3
  <2> HIDE DEF m
  <2>5. m = n
    BY <2>4
  <2>6. t \in I
    BY <1>2, <2>5 DEF m
  <2>7. QED
    BY <2>2, <2>6
<1>3. \A n \in Nat : n \in J
  <2> HIDE DEF J
  <2>1. QED
    BY <1>1, <1>2, SetInduction
<1>4. QED
  BY <1>3, LenProperties

\* The two equations of Kept: of nothing nothing is kept ...
LEMMA KeptEmpty == ASSUME NEW K PROVE Kept(<<>>, K) = <<>>
<1>1. <<>> \in Seq({}) /\ Len(<<>>) = 0
  BY EmptySeq
<1>2. PICK f : Trace(f, <<>>, K, Len(<<>>)) /\ Kept(<<>>, K) = f[Len(<<>>)]
  BY <1>1, KeptTrace
<1>3. f[0] = <<>>
  BY <1>1, <1>2, TraceAt
<1>4. QED
  BY <1>1, <1>2, <1>3

\* ... and the last element is kept if it is in K.
LEMMA KeptAppend ==
  ASSUME NEW S, NEW s \in Seq(S), NEW e \in S, NEW K
  PROVE  Kept(Append(s, e), K) = IF e \in K THEN Append(Kept(s, K), e) ELSE Kept(s, K)
<1> DEFINE t == Append(s, e)
           n == Len(s)
<1>1. /\ t \in Seq(S) /\ Len(t) = n + 1 /\ n \in Nat
      /\ \A i \in 1..n : t[i] = s[i]
      /\ t[n + 1] = e
  BY AppendProperties, LenProperties
<1>2. PICK f : Trace(f, s, K, n) /\ Kept(s, K) = f[n]
  BY KeptTrace
<1>3. PICK g : Trace(g, t, K, n + 1) /\ Kept(t, K) = g[n + 1]
  BY <1>1, KeptTrace
<1> HIDE DEF t, n
<1>4. /\ f[0] = <<>>
      /\ \A i \in 1..n : f[i] = IF s[i] \in K THEN Append(f[i - 1], s[i]) ELSE f[i - 1]
  BY <1>1, <1>2, TraceAt
<1>5. /\ g[0] = <<>>
      /\ \A i \in 1..(n + 1) :
           g[i] = IF t[i] \in K THEN Append(g[i - 1], t[i]) ELSE g[i - 1]
  <2>1. n + 1 \in Nat
    BY <1>1
  <2>2. QED
    BY <2>1, <1>3, TraceAt
<1> DEFINE I == {i \in Nat : i <= n => f[i] = g[i]}
<1>6. 0 \in I
  BY <1>4, <1>5
<1>7. ASSUME NEW i \in Nat, i \in I PROVE i + 1 \in I
  <2> SUFFICES ASSUME i + 1 <= n PROVE f[i + 1] = g[i + 1]
    OBVIOUS
  <2>1. i + 1 \in 1..n /\ i + 1 \in 1..(n + 1) /\ (i + 1) - 1 = i
    BY <1>1
  <2>2. f[i] = g[i]
    BY <1>7, <1>1
  <2>3. t[i + 1] = s[i + 1]
    BY <1>1, <2>1
  <2> DEFINE j == i + 1
  <2>4. /\ f[j] = IF s[j] \in K THEN Append(f[j - 1], s[j]) ELSE f[j - 1]
        /\ g[j] = IF t[j] \in K THEN Append(g[j - 1], t[j]) ELSE g[j - 1]
    BY <1>4, <1>5, <2>1
  <2>5. QED
    BY <2>1, <2>2, <2>3, <2>4
<1>8. n \in I
  <2> HIDE DEF I
  <2>1. QED
    BY <1>1, <1>6, <1>7, SetInduction
<1>9. f[n] = g[n]
  BY <1>1, <1>8
<1>10. g[n + 1] = IF t[n + 1] \in K THEN Append(g[n], t[n + 1]) ELSE g[n]
  <2> DEFINE j == n + 1
  <2>1. j \in 1..(n + 1) /\ j - 1 = n
    BY <1>1
  <2>2. g[j] = IF t[j] \in K THEN Append(g[j - 1], t[j]) ELSE g[j - 1]
    BY <1>5, <2>1
  <2>3. QED
    BY <2>1, <2>2
<1>11. QED
  BY <1>1, <1>2, <1>3, <1>9, <1>10 DEF t

--------------------------------------------------------------------------------
(* What follows from the equations. *)

\* It is a sequence of the same set, and no longer.
LEMMA KeptType ==
  ASSUME NEW S, NEW K
  PROVE  \A s \in Seq(S) : Kept(s, K) \in Seq(S) /\ Len(Kept(s, K)) <= Len(s)
<1> DEFINE I == {s \in Seq(S) : Kept(s, K) \in Seq(S) /\ Len(Kept(s, K)) <= Len(s)}
<1>1. <<>> \in I
  <2>1. Kept(<<>>, K) = <<>> /\ <<>> \in Seq(S) /\ Len(<<>>) <= Len(<<>>)
    BY KeptEmpty, EmptySeq
  <2>2. QED
    BY <2>1
<1>2. ASSUME NEW s \in Seq(S), NEW e \in S, s \in I PROVE Append(s, e) \in I
  <2> DEFINE k == Kept(s, K)
             l == Kept(Append(s, e), K)
  <2>1. k \in Seq(S) /\ Len(k) <= Len(s) /\ Len(k) \in Nat /\ Len(s) \in Nat
    BY <1>2, LenProperties
  <2>2. l = IF e \in K THEN Append(k, e) ELSE k
    BY KeptAppend
  <2>3. Append(s, e) \in Seq(S) /\ Len(Append(s, e)) = Len(s) + 1
    BY AppendProperties
  <2> HIDE DEF k, l
  <2>4. Append(k, e) \in Seq(S) /\ Len(Append(k, e)) = Len(k) + 1
    BY <2>1, AppendProperties
  <2>5. l \in Seq(S) /\ Len(l) <= Len(Append(s, e))
    BY <2>1, <2>2, <2>3, <2>4
  <2>6. QED
    BY <2>3, <2>5 DEF l
<1>3. \A s \in Seq(S) : s \in I
  <2> HIDE DEF I
  <2>1. QED
    BY <1>1, <1>2, SequenceInduction
<1>4. QED
  BY <1>3

\* What occurs in a sequence with an element appended.
LEMMA InAppend ==
  ASSUME NEW S, NEW s \in Seq(S), NEW e \in S
  PROVE  \A x : Occurs(Append(s, e), x) <=> Occurs(s, x) \/ x = e
<1> DEFINE t == Append(s, e)
           n == Len(s)
<1>1. /\ Len(t) = n + 1 /\ n \in Nat
      /\ \A i \in 1..n : t[i] = s[i]
      /\ t[n + 1] = e
  BY AppendProperties, LenProperties
<1> HIDE DEF t
<1>2. ASSUME NEW x, Occurs(t, x) PROVE Occurs(s, x) \/ x = e
  <2>1. PICK i \in 1..(n + 1) : t[i] = x
    BY <1>1, <1>2 DEF Occurs
  <2>2. CASE i = n + 1
    BY <2>1, <2>2, <1>1
  <2>3. CASE i \in 1..n
    BY <2>1, <2>3, <1>1 DEF Occurs
  <2>4. QED
    BY <2>2, <2>3, <1>1
<1>3. ASSUME NEW x, Occurs(s, x) PROVE Occurs(t, x)
  <2>1. PICK i \in 1..n : s[i] = x
    BY <1>3 DEF Occurs
  <2>2. i \in 1..(n + 1) /\ t[i] = x
    BY <1>1, <2>1
  <2>3. QED
    BY <2>2, <1>1 DEF Occurs
<1>4. Occurs(t, e)
  <2>1. n + 1 \in 1..(n + 1)
    BY <1>1
  <2>2. QED
    BY <2>1, <1>1 DEF Occurs
<1>5. QED
  BY <1>2, <1>3, <1>4 DEF t

\* What is kept is what occurs and is in K.
LEMMA KeptElements ==
  ASSUME NEW S, NEW K
  PROVE  \A s \in Seq(S) : \A x : Occurs(Kept(s, K), x) <=> x \in K /\ Occurs(s, x)
<1> DEFINE P(s) == \A x : Occurs(Kept(s, K), x) <=> x \in K /\ Occurs(s, x)
           I == {s \in Seq(S) : P(s)}
<1>1. <<>> \in I
  <2>1. \A x : ~Occurs(<<>>, x)
    BY EmptySeq DEF Occurs
  <2>2. QED
    BY <2>1, KeptEmpty, EmptySeq
<1>2. ASSUME NEW s \in Seq(S), NEW e \in S, s \in I PROVE Append(s, e) \in I
  <2> DEFINE k == Kept(s, K)
  <2>1. k \in Seq(S)
    BY KeptType
  <2>2. Kept(Append(s, e), K) = IF e \in K THEN Append(k, e) ELSE k
    BY KeptAppend
  <2>3. \A x : Occurs(Append(s, e), x) <=> Occurs(s, x) \/ x = e
    BY InAppend
  <2>4. \A x : Occurs(Append(k, e), x) <=> Occurs(k, x) \/ x = e
    BY <2>1, InAppend
  <2>5. \A x : Occurs(k, x) <=> x \in K /\ Occurs(s, x)
    BY <1>2
  <2>6. Append(s, e) \in Seq(S)
    BY AppendProperties
  <2> HIDE DEF k
  <2>7. P(Append(s, e))
    BY <2>2, <2>3, <2>4, <2>5
  <2>8. QED
    BY <2>6, <2>7
<1>3. \A s \in Seq(S) : s \in I
  <2> HIDE DEF I
  <2>1. QED
    BY <1>1, <1>2, SequenceInduction
<1>4. QED
  BY <1>3

\* When all is in K, nothing is dropped.
LEMMA KeptAll ==
  ASSUME NEW S, NEW K
  PROVE  \A s \in Seq(S) : (\A x : Occurs(s, x) => x \in K) => Kept(s, K) = s
<1> DEFINE I == {s \in Seq(S) : (\A x : Occurs(s, x) => x \in K) => Kept(s, K) = s}
<1>1. <<>> \in I
  BY KeptEmpty, EmptySeq
<1>2. ASSUME NEW s \in Seq(S), NEW e \in S, s \in I PROVE Append(s, e) \in I
  <2>1. Kept(Append(s, e), K) = IF e \in K THEN Append(Kept(s, K), e) ELSE Kept(s, K)
    BY KeptAppend
  <2>2. \A x : Occurs(Append(s, e), x) <=> Occurs(s, x) \/ x = e
    BY InAppend
  <2>3. Append(s, e) \in Seq(S)
    BY AppendProperties
  <2>4. QED
    BY <1>2, <2>1, <2>2, <2>3
<1>3. \A s \in Seq(S) : s \in I
  <2> HIDE DEF I
  <2>1. QED
    BY <1>1, <1>2, SequenceInduction
<1>4. QED
  BY <1>3

\* When something is not, something is dropped.
LEMMA KeptShorter ==
  ASSUME NEW S, NEW K
  PROVE  \A s \in Seq(S) : (\E x : Occurs(s, x) /\ x \notin K) => Len(Kept(s, K)) < Len(s)
<1> DEFINE P(s) == (\E x : Occurs(s, x) /\ x \notin K) => Len(Kept(s, K)) < Len(s)
           I == {s \in Seq(S) : P(s)}
<1>1. <<>> \in I
  <2>1. \A x : ~Occurs(<<>>, x)
    BY EmptySeq DEF Occurs
  <2>2. QED
    BY <2>1, EmptySeq
<1>2. ASSUME NEW s \in Seq(S), NEW e \in S, s \in I PROVE Append(s, e) \in I
  <2> DEFINE k == Kept(s, K)
             l == Kept(Append(s, e), K)
  <2>1. k \in Seq(S) /\ Len(k) \in Nat /\ Len(s) \in Nat /\ Len(k) <= Len(s)
    BY KeptType, LenProperties
  <2>2. l = IF e \in K THEN Append(k, e) ELSE k
    BY KeptAppend
  <2>3. Len(Append(k, e)) = Len(k) + 1 /\ Len(Append(s, e)) = Len(s) + 1
    BY <2>1, AppendProperties
  <2>4. \A x : Occurs(Append(s, e), x) <=> Occurs(s, x) \/ x = e
    BY InAppend
  <2>5. Append(s, e) \in Seq(S)
    BY AppendProperties
  <2>6. P(s)
    BY <1>2
  <2>7. P(Append(s, e))
    <3> SUFFICES ASSUME NEW x, Occurs(s, x) \/ x = e, x \notin K
                 PROVE  Len(l) < Len(s) + 1
      BY <2>3, <2>4
    <3>1. CASE e \in K
      <4>1. Len(k) < Len(s)
        BY <3>1, <2>6
      <4>2. Len(l) = Len(k) + 1
        BY <3>1, <2>2, <2>3
      <4> HIDE DEF k, l
      <4>3. QED
        BY <4>1, <4>2, <2>1
    <3>2. CASE e \notin K
      <4>1. l = k
        BY <3>2, <2>2
      <4> HIDE DEF k, l
      <4>2. QED
        BY <4>1, <2>1
    <3>3. QED
      BY <3>1, <3>2
  <2>8. QED
    BY <2>5, <2>7
<1>3. \A s \in Seq(S) : s \in I
  <2> HIDE DEF I
  <2>1. QED
    BY <1>1, <1>2, SequenceInduction
<1>4. QED
  BY <1>3

\* Dropping twice is dropping once for either reason.
LEMMA KeptKept ==
  ASSUME NEW S, NEW K, NEW L
  PROVE  \A s \in Seq(S) : Kept(Kept(s, K), L) = Kept(s, K \cap L)
<1> DEFINE I == {s \in Seq(S) : Kept(Kept(s, K), L) = Kept(s, K \cap L)}
<1>1. <<>> \in I
  BY KeptEmpty, EmptySeq
<1>2. ASSUME NEW s \in Seq(S), NEW e \in S, s \in I PROVE Append(s, e) \in I
  <2> DEFINE k == Kept(s, K)
  <2>1. k \in Seq(S) /\ Append(s, e) \in Seq(S)
    BY KeptType, AppendProperties
  <2>2. Kept(Append(s, e), K) = IF e \in K THEN Append(k, e) ELSE k
    BY KeptAppend
  <2>3. Kept(Append(k, e), L) = IF e \in L THEN Append(Kept(k, L), e) ELSE Kept(k, L)
    BY <2>1, KeptAppend
  <2>4. Kept(Append(s, e), K \cap L)
          = IF e \in K \cap L THEN Append(Kept(s, K \cap L), e) ELSE Kept(s, K \cap L)
    BY KeptAppend
  <2>5. Kept(k, L) = Kept(s, K \cap L)
    BY <1>2
  <2> HIDE DEF k
  <2> DEFINE M == K \cap L
  <2>6. e \in M <=> e \in K /\ e \in L
    OBVIOUS
  <2> HIDE DEF M
  <2>7. Kept(Kept(Append(s, e), K), L) = Kept(Append(s, e), M)
    <3>1. CASE e \in K
      <4>1. Kept(Append(s, e), K) = Append(k, e)
        BY <3>1, <2>2
      <4>2. CASE e \in L
        BY <3>1, <4>1, <4>2, <2>3, <2>4, <2>5, <2>6 DEF M
      <4>3. CASE e \notin L
        BY <3>1, <4>1, <4>3, <2>3, <2>4, <2>5, <2>6 DEF M
      <4>4. QED
        BY <4>2, <4>3
    <3>2. CASE e \notin K
      BY <3>2, <2>2, <2>4, <2>5, <2>6 DEF M
    <3>3. QED
      BY <3>1, <3>2
  <2>8. QED
    BY <2>1, <2>7 DEF M
<1>3. \A s \in Seq(S) : s \in I
  <2> HIDE DEF I
  <2>1. QED
    BY <1>1, <1>2, SequenceInduction
<1>4. QED
  BY <1>3

\* What occurs in a sequence over S is in S.
LEMMA OccursType ==
  ASSUME NEW S, NEW s \in Seq(S), NEW x, Occurs(s, x)
  PROVE  x \in S
<1>1. PICK i \in 1..Len(s) : s[i] = x
  BY DEF Occurs
<1>2. s[i] \in S
  BY <1>1, ElementOfSeq
<1>3. QED
  BY <1>1, <1>2

\* A sequence with an element appended repeats nothing if the element is new.
LEMMA NoRepeatsAppend ==
  ASSUME NEW S, NEW s \in Seq(S), NEW e \in S
  PROVE  NoRepeats(Append(s, e)) <=> NoRepeats(s) /\ ~Occurs(s, e)
<1> DEFINE t == Append(s, e)
           n == Len(s)
<1>1. /\ Len(t) = n + 1 /\ n \in Nat
      /\ \A i \in 1..n : t[i] = s[i]
      /\ t[n + 1] = e
  BY AppendProperties, LenProperties
<1> HIDE DEF t
<1>2. ASSUME NoRepeats(s), ~Occurs(s, e) PROVE NoRepeats(t)
  <2> SUFFICES ASSUME NEW i \in 1..(n + 1), NEW j \in 1..(n + 1), t[i] = t[j] PROVE i = j
    BY <1>1 DEF NoRepeats
  <2>1. CASE i \in 1..n /\ j \in 1..n
    BY <2>1, <1>1, <1>2 DEF NoRepeats
  <2>2. CASE i = n + 1 /\ j \in 1..n
    BY <2>2, <1>1, <1>2 DEF Occurs
  <2>3. CASE i \in 1..n /\ j = n + 1
    BY <2>3, <1>1, <1>2 DEF Occurs
  <2>4. CASE i = n + 1 /\ j = n + 1
    BY <2>4
  <2>5. QED
    BY <2>1, <2>2, <2>3, <2>4, <1>1
<1>3. ASSUME NoRepeats(t) PROVE NoRepeats(s) /\ ~Occurs(s, e)
  <2>1. 1..n \subseteq 1..(n + 1) /\ n + 1 \in 1..(n + 1) /\ n + 1 \notin 1..n
    BY <1>1
  <2>2. NoRepeats(s)
    BY <1>1, <1>3, <2>1 DEF NoRepeats
  <2>3. ~Occurs(s, e)
    BY <1>1, <1>3, <2>1 DEF NoRepeats, Occurs
  <2>4. QED
    BY <2>2, <2>3
<1>4. QED
  BY <1>2, <1>3 DEF t

\* Dropping repeats nothing.
LEMMA KeptNoRepeats ==
  ASSUME NEW S, NEW K
  PROVE  \A s \in Seq(S) : NoRepeats(s) => NoRepeats(Kept(s, K))
<1> DEFINE I == {s \in Seq(S) : NoRepeats(s) => NoRepeats(Kept(s, K))}
<1>1. <<>> \in I
  BY KeptEmpty, EmptySeq
<1>2. ASSUME NEW s \in Seq(S), NEW e \in S, s \in I PROVE Append(s, e) \in I
  <2> DEFINE k == Kept(s, K)
  <2>1. k \in Seq(S) /\ Append(s, e) \in Seq(S)
    BY KeptType, AppendProperties
  <2>2. Kept(Append(s, e), K) = IF e \in K THEN Append(k, e) ELSE k
    BY KeptAppend
  <2>3. NoRepeats(Append(s, e)) <=> NoRepeats(s) /\ ~Occurs(s, e)
    BY NoRepeatsAppend
  <2>4. NoRepeats(Append(k, e)) <=> NoRepeats(k) /\ ~Occurs(k, e)
    BY <2>1, NoRepeatsAppend
  <2>5. Occurs(k, e) => Occurs(s, e)
    BY KeptElements
  <2>6. NoRepeats(s) => NoRepeats(k)
    BY <1>2
  <2> HIDE DEF k
  <2>7. QED
    BY <2>1, <2>2, <2>3, <2>4, <2>5, <2>6
<1>3. \A s \in Seq(S) : s \in I
  <2> HIDE DEF I
  <2>1. QED
    BY <1>1, <1>2, SequenceInduction
<1>4. QED
  BY <1>3

\* Times in the order in which they were noted.
Rises(s) == \A i, j \in 1..Len(s) : i <= j => s[i] <= s[j]

\* A rising sequence with an element appended rises if the element is not
\* smaller than any before.
LEMMA RisesAppend ==
  ASSUME NEW s \in Seq(Nat), NEW e \in Nat
  PROVE  Rises(Append(s, e)) <=> Rises(s) /\ \A x : Occurs(s, x) => x <= e
<1> DEFINE t == Append(s, e)
           n == Len(s)
<1>1. /\ Len(t) = n + 1 /\ n \in Nat
      /\ \A i \in 1..n : t[i] = s[i]
      /\ t[n + 1] = e
  BY AppendProperties, LenProperties
<1> HIDE DEF t
<1>2. ASSUME Rises(s), \A x : Occurs(s, x) => x <= e PROVE Rises(t)
  <2> SUFFICES ASSUME NEW i \in 1..(n + 1), NEW j \in 1..(n + 1), i <= j
               PROVE  t[i] <= t[j]
    BY <1>1 DEF Rises
  <2>1. CASE i \in 1..n /\ j \in 1..n
    BY <2>1, <1>1, <1>2 DEF Rises
  <2>2. CASE i \in 1..n /\ j = n + 1
    <3>1. Occurs(s, s[i])
      BY <2>2 DEF Occurs
    <3>2. QED
      BY <2>2, <3>1, <1>1, <1>2
  <2>3. CASE i = n + 1
    <3>1. j = n + 1
      BY <2>3, <1>1
    <3>2. QED
      BY <2>3, <3>1, <1>1
  <2>4. QED
    BY <2>1, <2>2, <2>3, <1>1
<1>3. ASSUME Rises(t) PROVE Rises(s) /\ \A x : Occurs(s, x) => x <= e
  <2>1. 1..n \subseteq 1..(n + 1) /\ n + 1 \in 1..(n + 1) /\ \A i \in 1..n : i <= n + 1
    BY <1>1
  <2>2. Rises(s)
    BY <1>1, <1>3, <2>1 DEF Rises
  <2>3. \A x : Occurs(s, x) => x <= e
    BY <1>1, <1>3, <2>1 DEF Rises, Occurs
  <2>4. QED
    BY <2>2, <2>3
<1>4. QED
  BY <1>2, <1>3 DEF t

\* Dropping keeps the order.
LEMMA KeptRises ==
  ASSUME NEW K
  PROVE  \A s \in Seq(Nat) : Rises(s) => Rises(Kept(s, K))
<1> DEFINE I == {s \in Seq(Nat) : Rises(s) => Rises(Kept(s, K))}
<1>1. <<>> \in I
  BY KeptEmpty, EmptySeq
<1>2. ASSUME NEW s \in Seq(Nat), NEW e \in Nat, s \in I PROVE Append(s, e) \in I
  <2> DEFINE k == Kept(s, K)
  <2>1. k \in Seq(Nat) /\ Append(s, e) \in Seq(Nat)
    BY KeptType, AppendProperties
  <2>2. Kept(Append(s, e), K) = IF e \in K THEN Append(k, e) ELSE k
    BY KeptAppend
  <2>3. Rises(Append(s, e)) <=> Rises(s) /\ \A x : Occurs(s, x) => x <= e
    BY RisesAppend
  <2>4. Rises(Append(k, e)) <=> Rises(k) /\ \A x : Occurs(k, x) => x <= e
    BY <2>1, RisesAppend
  <2>5. \A x : Occurs(k, x) => Occurs(s, x)
    BY KeptElements
  <2>6. Rises(s) => Rises(k)
    BY <1>2
  <2> HIDE DEF k
  <2>7. QED
    BY <2>1, <2>2, <2>3, <2>4, <2>5, <2>6
<1>3. \A s \in Seq(Nat) : s \in I
  <2> HIDE DEF I
  <2>1. QED
    BY <1>1, <1>2, SequenceInduction
<1>4. QED
  BY <1>3
================================================================================
