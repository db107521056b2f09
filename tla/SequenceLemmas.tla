--------------------------- MODULE SequenceLemmas ---------------------------
(***************************************************************************)
(* Facts the proofs about logs and stores share: induction over the        *)
(* natural numbers and over the length of a sequence, for a property given *)
(* as a set, and what Picked of Subsequences returns.                      *)
(***************************************************************************)
EXTENDS Subsequences, SequenceTheorems, WellFoundedInduction, TLAPS

-----------------------------------------------------------------------------
(* Induction                                                               *)

\* A non-empty set of natural numbers has a least element.
LEMMA Least ==
    ASSUME NEW T, T \subseteq Nat, T # {}
    PROVE  \E m \in T : \A n \in T : m <= n
  <1> DEFINE R == OpToRel(<, Nat)
  <1>1. \E m \in T : \A n \in T : ~ (<<n, m>> \in R)
    <2>1. IsWellFoundedOn(R, Nat)
      BY NatLessThanWellFounded
    <2> HIDE DEF R
    <2> QED BY <2>1, WFMin
  <1>2. PICK m \in T : \A n \in T : ~ (<<n, m>> \in R)
    BY <1>1
  <1>3. \A n \in T : m <= n
    <2> TAKE n \in T
    <2>1. m \in Nat /\ n \in Nat
      OBVIOUS
    <2>2. ~ (n < m)
      BY <1>2, <2>1 DEF OpToRel
    <2> QED BY <2>1, <2>2
  <1> QED BY <1>3

\* Induction up to N: a set that holds 0 and, with a number, the next one
LEMMA UpTo ==
    ASSUME NEW N \in Nat, NEW S, 0 \in S,
           \A n \in 0 .. N : n < N /\ n \in S => n + 1 \in S
    PROVE  \A n \in 0 .. N : n \in S
  <1> DEFINE T == {n \in 0 .. N : n \notin S}
  <1>1. CASE T = {}
    BY <1>1
  <1>2. CASE T # {}
    <2>1. PICK m \in T : \A n \in T : m <= n
      <3>1. T \subseteq Nat
        OBVIOUS
      <3> HIDE DEF T
      <3> QED BY <1>2, <3>1, Least
    <2>2. m \in Nat /\ m # 0 /\ m <= N /\ m \notin S
      BY <2>1
    <2>3. m - 1 \in 0 .. N /\ m - 1 < N /\ ~(m <= m - 1)
      BY <2>2
    <2>4. m - 1 \in S
      BY <2>1, <2>3
    <2>5. (m - 1) + 1 \in S /\ (m - 1) + 1 = m
      BY <2>2, <2>3, <2>4
    <2> QED BY <2>2, <2>5
  <1> QED BY <1>1, <1>2

-----------------------------------------------------------------------------
(* What Picked returns                                                     *)

\* The recursion of Taken has a solution, so Taken obeys it.
LEMMA TakenDef ==
    ASSUME NEW S, NEW s \in Seq(S), NEW I
    PROVE  Taken(s, I) =
             [n \in 0 .. Len(s) |->
                IF n = 0 THEN <<>>
                ELSE IF n \in I THEN Append(Taken(s, I)[n - 1], s[n])
                ELSE Taken(s, I)[n - 1]]
  <1> DEFINE Body(f, n) == IF n = 0 THEN <<>>
                           ELSE IF n \in I THEN Append(f[n - 1], s[n])
                           ELSE f[n - 1]
             Solved(f, k) == f = [n \in 0 .. k |-> Body(f, n)]
             D == {k \in 0 .. Len(s) : \E f : Solved(f, k)}
  <1>0. Len(s) \in Nat
    OBVIOUS
  <1>1. 0 \in D
    <2> DEFINE f == [n \in 0 .. 0 |-> <<>>]
    <2>1. f = [n \in 0 .. 0 |-> Body(f, n)]
      OBVIOUS
    <2> HIDE DEF f, Body
    <2>2. \E h : Solved(h, 0)
      BY <2>1
    <2>3. 0 \in 0 .. Len(s)
      BY <1>0
    <2> QED BY <2>2, <2>3
  <1>2. \A k \in 0 .. Len(s) : k < Len(s) /\ k \in D => k + 1 \in D
    <2> SUFFICES ASSUME NEW k \in 0 .. Len(s), k < Len(s), k \in D
                 PROVE  k + 1 \in D
      OBVIOUS
    <2>1. PICK f : Solved(f, k)
      OBVIOUS
    <2> DEFINE g == [n \in 0 .. k + 1 |-> IF n = k + 1 THEN Body(f, n) ELSE f[n]]
    <2>2. \A n \in 0 .. k : g[n] = f[n] /\ f[n] = Body(f, n)
      <3> TAKE n \in 0 .. k
      <3>1. g[n] = f[n]
        BY <1>0
      <3> HIDE DEF Body
      <3>2. f[n] = Body(f, n)
        BY <2>1
      <3> QED BY <3>1, <3>2
    <2>3. \A n \in 0 .. k + 1 : Body(g, n) = Body(f, n)
      <3> SUFFICES ASSUME NEW n \in 0 .. k + 1, n # 0
                   PROVE  Body(g, n) = Body(f, n)
        OBVIOUS
      <3>1. n - 1 \in 0 .. k
        BY <1>0
      <3>2. g[n - 1] = f[n - 1]
        BY <2>2, <3>1
      <3> HIDE DEF g
      <3> QED BY <3>2
    <2>4. \A n \in 0 .. k + 1 : g[n] = Body(g, n)
      <3> TAKE n \in 0 .. k + 1
      <3>1. CASE n = k + 1
        <4>1. g[n] = Body(f, n)
          BY <3>1
        <4> HIDE DEF g, Body
        <4> QED BY <2>3, <4>1
      <3>2. CASE n # k + 1
        <4>1. n \in 0 .. k
          BY <1>0, <3>2
        <4> HIDE DEF g, Body
        <4> QED BY <2>2, <2>3, <4>1
      <3> QED BY <3>1, <3>2
    <2>5. g = [n \in 0 .. k + 1 |-> g[n]]
      OBVIOUS
    <2> HIDE DEF g, Body
    <2>6. Solved(g, k + 1)
      BY <2>4, <2>5
    <2> QED BY <1>0, <2>6
  <1>3. \E f : Solved(f, Len(s))
    <2> HIDE DEF D
    <2>1. \A k \in 0 .. Len(s) : k \in D
      BY <1>0, <1>1, <1>2, UpTo
    <2>2. Len(s) \in D
      BY <1>0, <2>1
    <2> QED BY <2>2 DEF D
  <1>4. Taken(s, I) = CHOOSE f : Solved(f, Len(s))
    BY DEF Taken
  <1> HIDE DEF Solved
  <1>5. Solved(Taken(s, I), Len(s))
    BY <1>3, <1>4
  <1> QED BY <1>5 DEF Solved

\* The same, step by step
LEMMA TakenSteps ==
    ASSUME NEW S, NEW s \in Seq(S), NEW I
    PROVE  /\ Taken(s, I)[0] = <<>>
           /\ \A n \in 1 .. Len(s) :
                Taken(s, I)[n] =
                   IF n \in I THEN Append(Taken(s, I)[n - 1], s[n])
                   ELSE Taken(s, I)[n - 1]
  <1> DEFINE t == Taken(s, I)
  <1>1. t = [n \in 0 .. Len(s) |->
               IF n = 0 THEN <<>>
               ELSE IF n \in I THEN Append(t[n - 1], s[n]) ELSE t[n - 1]]
    BY TakenDef
  <1>2. Len(s) \in Nat
    OBVIOUS
  <1> HIDE DEF t
  <1>3. t[0] = <<>>
    BY <1>1, <1>2
  <1>4. \A n \in 1 .. Len(s) :
           t[n] = IF n \in I THEN Append(t[n - 1], s[n]) ELSE t[n - 1]
    <2> TAKE n \in 1 .. Len(s)
    <2>1. n \in 0 .. Len(s) /\ n # 0
      BY <1>2
    <2> QED BY <1>1, <2>1
  <1> QED BY <1>3, <1>4 DEF t

\* Every prefix of the work is a sequence of the elements.
LEMMA TakenType ==
    ASSUME NEW S, NEW s \in Seq(S), NEW I
    PROVE  \A n \in 0 .. Len(s) : Taken(s, I)[n] \in Seq(S)
  <1> DEFINE t == Taken(s, I)
             D == {n \in 0 .. Len(s) : t[n] \in Seq(S)}
  <1>1. Len(s) \in Nat
    OBVIOUS
  <1>2. /\ t[0] = <<>>
        /\ \A n \in 1 .. Len(s) :
              t[n] = IF n \in I THEN Append(t[n - 1], s[n]) ELSE t[n - 1]
    BY TakenSteps
  <1> HIDE DEF t
  <1>3. 0 \in D
    <2>1. <<>> \in Seq(S) /\ 0 \in 0 .. Len(s)
      BY <1>1
    <2> QED BY <1>2, <2>1
  <1>4. \A n \in 0 .. Len(s) : n < Len(s) /\ n \in D => n + 1 \in D
    <2> SUFFICES ASSUME NEW n \in 0 .. Len(s), n < Len(s), n \in D
                 PROVE  n + 1 \in D
      OBVIOUS
    <2>1. n + 1 \in 1 .. Len(s) /\ (n + 1) - 1 = n /\ n + 1 \in 0 .. Len(s)
      BY <1>1
    <2>2. t[n + 1] = IF n + 1 \in I THEN Append(t[n], s[n + 1]) ELSE t[n]
      BY <1>2, <2>1
    <2>3. s[n + 1] \in S /\ t[n] \in Seq(S)
      BY <2>1
    <2>4. Append(t[n], s[n + 1]) \in Seq(S)
      BY <2>3
    <2>5. t[n + 1] \in Seq(S)
      BY <2>2, <2>3, <2>4
    <2> QED BY <2>1, <2>5
  <1>5. \A n \in 0 .. Len(s) : n \in D
    <2> HIDE DEF D
    <2> QED BY <1>1, <1>3, <1>4, UpTo
  <1> QED BY <1>5 DEF t

\* What is picked are elements at the indices, and all of them.
LEMMA PickedElements ==
    ASSUME NEW S, NEW s \in Seq(S), NEW I
    PROVE  /\ Picked(s, I) \in Seq(S)
           /\ \A k \in DOMAIN Picked(s, I) :
                 \E i \in I \cap DOMAIN s : Picked(s, I)[k] = s[i]
           /\ \A i \in I \cap DOMAIN s :
                 \E k \in DOMAIN Picked(s, I) : Picked(s, I)[k] = s[i]
  <1> DEFINE t == Taken(s, I)
             From(n) == \A k \in DOMAIN t[n] :
                           \E i \in I \cap DOMAIN s : t[n][k] = s[i]
             To(n) == \A i \in I \cap DOMAIN s : i <= n =>
                           \E k \in DOMAIN t[n] : t[n][k] = s[i]
             D == {n \in 0 .. Len(s) : From(n) /\ To(n)}
  <1>1. Len(s) \in Nat /\ DOMAIN s = 1 .. Len(s)
    OBVIOUS
  <1>2. /\ t[0] = <<>>
        /\ \A n \in 1 .. Len(s) :
              t[n] = IF n \in I THEN Append(t[n - 1], s[n]) ELSE t[n - 1]
    BY TakenSteps
  <1>3. \A n \in 0 .. Len(s) : t[n] \in Seq(S)
    BY TakenType
  <1> HIDE DEF t
  <1>4. 0 \in D
    <2>1. From(0)
      BY <1>2
    <2>2. To(0)
      BY <1>1
    <2> QED BY <1>1, <2>1, <2>2
  <1>5. \A n \in 0 .. Len(s) : n < Len(s) /\ n \in D => n + 1 \in D
    <2> SUFFICES ASSUME NEW n \in 0 .. Len(s), n < Len(s), From(n), To(n)
                 PROVE  n + 1 \in D
      OBVIOUS
    <2>1. n + 1 \in 1 .. Len(s) /\ (n + 1) - 1 = n /\ n + 1 \in 0 .. Len(s)
      BY <1>1
    <2>2. t[n + 1] = IF n + 1 \in I THEN Append(t[n], s[n + 1]) ELSE t[n]
      BY <1>2, <2>1
    <2>3. t[n] \in Seq(S) /\ s[n + 1] \in S
      BY <1>3, <2>1
    <2>4. CASE n + 1 \in I
      <3> DEFINE a == t[n]
                 b == Append(a, s[n + 1])
      <3>1. /\ Len(a) \in Nat /\ DOMAIN a = 1 .. Len(a)
            /\ DOMAIN b = 1 .. Len(a) + 1
            /\ \A k \in 1 .. Len(a) : b[k] = a[k]
            /\ b[Len(a) + 1] = s[n + 1]
        BY <2>3
      <3>2. t[n + 1] = b
        BY <2>2, <2>4
      <3> HIDE DEF a, b
      <3>3. From(n + 1)
        <4> SUFFICES ASSUME NEW k \in DOMAIN b
                     PROVE  \E i \in I \cap DOMAIN s : b[k] = s[i]
          BY <3>2
        <4>1. CASE k = Len(a) + 1
          BY <1>1, <2>1, <2>4, <3>1, <4>1
        <4>2. CASE k # Len(a) + 1
          <5>1. k \in DOMAIN a /\ b[k] = a[k]
            BY <3>1, <4>2
          <5> QED BY <5>1 DEF a
        <4> QED BY <4>1, <4>2
      <3>4. To(n + 1)
        <4> SUFFICES ASSUME NEW i \in I \cap DOMAIN s, i <= n + 1
                     PROVE  \E k \in DOMAIN b : b[k] = s[i]
          BY <3>2
        <4>1. CASE i = n + 1
          <5>1. Len(a) + 1 \in DOMAIN b
            BY <3>1
          <5> QED BY <3>1, <4>1, <5>1
        <4>2. CASE i # n + 1
          <5>1. i <= n
            BY <1>1, <4>2
          <5>2. PICK k \in DOMAIN a : a[k] = s[i]
            BY <5>1 DEF a
          <5>3. k \in DOMAIN b /\ b[k] = a[k]
            BY <3>1
          <5> QED BY <5>2, <5>3
        <4> QED BY <4>1, <4>2
      <3> QED BY <2>1, <3>3, <3>4
    <2>5. CASE n + 1 \notin I
      <3>1. t[n + 1] = t[n]
        BY <2>2, <2>5
      <3>2. From(n + 1)
        BY <3>1
      <3>3. To(n + 1)
        <4> SUFFICES ASSUME NEW i \in I \cap DOMAIN s, i <= n + 1
                     PROVE  \E k \in DOMAIN t[n] : t[n][k] = s[i]
          BY <3>1
        <4>1. i <= n
          BY <1>1, <2>5
        <4> QED BY <4>1
      <3> QED BY <2>1, <3>2, <3>3
    <2> QED BY <2>4, <2>5
  <1>6. \A n \in 0 .. Len(s) : n \in D
    <2> HIDE DEF D
    <2> QED BY <1>1, <1>4, <1>5, UpTo
  <1>7. Len(s) \in D
    BY <1>1, <1>6
  <1>8. Picked(s, I) = t[Len(s)]
    BY DEF Picked, t
  <1>9. \A i \in DOMAIN s : i <= Len(s)
    BY <1>1
  <1> QED BY <1>1, <1>3, <1>7, <1>8, <1>9

\* Appending to a concatenation appends to its second part.
Shifts(a, b, e) == Append(a \o b, e) = a \o Append(b, e)

\* Appending to a concatenation appends to its second part.
LEMMA AppendConcat ==
    ASSUME NEW S, NEW a \in Seq(S), NEW b \in Seq(S), NEW e \in S
    PROVE  Shifts(a, b, e)
  BY DEF Shifts

\* What is picked is picked from the first m elements, then from the others.
LEMMA PickedSplit ==
    ASSUME NEW S, NEW s \in Seq(S), NEW I, NEW m \in 0 .. Len(s)
    PROVE  Picked(s, I) = Taken(s, I)[m] \o Picked(s, {i \in I : i > m})
  <1> DEFINE J == {i \in I : i > m}
             t == Taken(s, I)
             u == Taken(s, J)
             D == {n \in 0 .. Len(s) :
                     /\ n <= m => u[n] = <<>>
                     /\ n >= m => t[n] = t[m] \o u[n]}
  <1>1. Len(s) \in Nat /\ m \in Nat
    OBVIOUS
  <1>2. \A n \in 1 .. Len(s) :
           t[n] = IF n \in I THEN Append(t[n - 1], s[n]) ELSE t[n - 1]
    BY TakenSteps
  <1>3. /\ u[0] = <<>>
        /\ \A n \in 1 .. Len(s) :
              u[n] = IF n \in J THEN Append(u[n - 1], s[n]) ELSE u[n - 1]
    BY TakenSteps
  <1>4. \A n \in 0 .. Len(s) : t[n] \in Seq(S) /\ u[n] \in Seq(S)
    BY TakenType
  <1>5. \A n \in Nat : n \in J <=> n \in I /\ n > m
    OBVIOUS
  <1> HIDE DEF t, u, J
  <1>6. t[m] \in Seq(S) /\ t[m] \o <<>> = t[m]
    <2>1. t[m] \in Seq(S)
      BY <1>4
    <2> QED BY <2>1
  <1>7. 0 \in D
    <2>1. 0 >= m => t[0] = t[m] \o u[0]
      <3> SUFFICES ASSUME 0 >= m PROVE t[0] = t[m] \o u[0]
        OBVIOUS
      <3>1. m = 0
        BY <1>1
      <3> QED BY <1>3, <1>6, <3>1
    <2>2. 0 \in 0 .. Len(s) /\ u[0] = <<>>
      BY <1>1, <1>3
    <2> QED BY <2>1, <2>2
  <1>8. \A n \in 0 .. Len(s) : n < Len(s) /\ n \in D => n + 1 \in D
    <2> SUFFICES ASSUME NEW n \in 0 .. Len(s), n < Len(s), n \in D
                 PROVE  n + 1 \in D
      OBVIOUS
    <2>1. n + 1 \in 1 .. Len(s) /\ (n + 1) - 1 = n /\ n + 1 \in 0 .. Len(s)
      BY <1>1
    <2>2. /\ t[n + 1] = IF n + 1 \in I THEN Append(t[n], s[n + 1]) ELSE t[n]
          /\ u[n + 1] = IF n + 1 \in J THEN Append(u[n], s[n + 1]) ELSE u[n]
      BY <1>2, <1>3, <2>1
    <2>3. CASE n + 1 <= m
      <3>1. u[n + 1] = <<>>
        <4>1. n <= m /\ n + 1 \notin J
          BY <1>1, <1>5, <2>1, <2>3
        <4>2. u[n] = <<>>
          BY <4>1
        <4> QED BY <2>2, <4>1, <4>2
      <3>2. n + 1 >= m => t[n + 1] = t[m] \o u[n + 1]
        <4>1. n + 1 >= m => n + 1 = m
          BY <1>1, <2>3
        <4> QED BY <1>6, <3>1, <4>1
      <3> QED BY <2>1, <3>1, <3>2
    <2>4. CASE ~(n + 1 <= m)
      <3>1. n >= m /\ (n + 1 \in J <=> n + 1 \in I)
        BY <1>1, <1>5, <2>1, <2>4
      <3>2. t[n] = t[m] \o u[n]
        BY <3>1
      <3>3. u[n] \in Seq(S) /\ s[n + 1] \in S
        BY <1>4, <2>1
      <3>4. Append(t[m] \o u[n], s[n + 1]) = t[m] \o Append(u[n], s[n + 1])
        <4>1. Shifts(t[m], u[n], s[n + 1])
          BY <1>6, <3>3, AppendConcat
        <4> QED BY <4>1 DEF Shifts
      <3>5. t[n + 1] = t[m] \o u[n + 1]
        BY <2>2, <3>1, <3>2, <3>4
      <3> QED BY <2>1, <2>4, <3>5
    <2> QED BY <2>3, <2>4
  <1>9. \A n \in 0 .. Len(s) : n \in D
    <2> HIDE DEF D
    <2> QED BY <1>1, <1>7, <1>8, UpTo
  <1>10. t[Len(s)] = t[m] \o u[Len(s)]
    <2>1. Len(s) \in 0 .. Len(s) /\ Len(s) >= m
      BY <1>1
    <2>2. Len(s) \in D
      BY <1>9, <2>1
    <2> QED BY <2>1, <2>2
  <1> QED BY <1>10 DEF Picked, t, u, J

\* The second of two sequences is the end of their concatenation.
LEMMA EndOfConcat ==
    ASSUME NEW S, NEW a \in Seq(S), NEW b \in Seq(S)
    PROVE  LET c == a \o b
           IN  SubSeq(c, Len(c) - Len(b) + 1, Len(c)) = b
  <1> DEFINE c == a \o b
             d == SubSeq(c, Len(c) - Len(b) + 1, Len(c))
  <1>1. /\ c \in Seq(S) /\ Len(c) = Len(a) + Len(b)
        /\ \A i \in 1 .. Len(a) + Len(b) :
              c[i] = IF i <= Len(a) THEN a[i] ELSE b[i - Len(a)]
    BY ConcatProperties
  <1>2. Len(a) \in Nat /\ Len(b) \in Nat
    OBVIOUS
  <1> HIDE DEF c
  <1>3. Len(c) - Len(b) + 1 = Len(a) + 1 /\ Len(c) \in Int /\ Len(a) + 1 \in Int
    BY <1>1, <1>2
  <1>4. \A i \in Len(a) + 1 .. Len(c) : c[i] \in S
    BY <1>1, <1>2
  <1>5. d = SubSeq(c, Len(a) + 1, Len(c))
    BY <1>3
  <1> HIDE DEF d
  <1>6. /\ d \in Seq(S) /\ Len(d) = Len(b)
        /\ \A i \in 1 .. Len(b) : d[i] = c[Len(a) + i]
    <2>1. /\ d \in Seq(S)
          /\ Len(d) = IF Len(a) + 1 <= Len(c) THEN Len(c) - (Len(a) + 1) + 1 ELSE 0
          /\ \A i \in 1 .. Len(c) - (Len(a) + 1) + 1 : d[i] = c[(Len(a) + 1) + i - 1]
      BY <1>3, <1>4, <1>5, SubSeqProperties
    <2>2. Len(d) = Len(b)
      BY <1>1, <1>2, <2>1
    <2>3. \A i \in 1 .. Len(b) : /\ i \in 1 .. Len(c) - (Len(a) + 1) + 1
                                 /\ (Len(a) + 1) + i - 1 = Len(a) + i
      BY <1>1, <1>2
    <2> QED BY <2>1, <2>2, <2>3
  <1>7. \A i \in 1 .. Len(b) : d[i] = b[i]
    <2> TAKE i \in 1 .. Len(b)
    <2>1. /\ Len(a) + i \in 1 .. Len(a) + Len(b) /\ ~(Len(a) + i <= Len(a))
          /\ (Len(a) + i) - Len(a) = i
      BY <1>2
    <2> QED BY <1>1, <1>6, <2>1
  <1>8. d = b
    BY <1>6, <1>7, SeqEqual
  <1> QED BY <1>8 DEF c, d

-----------------------------------------------------------------------------
(* Parts that two sequences share                                          *)

\* J is what I holds after m.
After(I, m, J) == J = {i \in I : i > m}

\* What is picked after m follows what was taken up to m.
LEMMA PickedApart ==
    ASSUME NEW S, NEW s \in Seq(S), NEW I, NEW m \in 0 .. Len(s), NEW J,
           After(I, m, J)
    PROVE  Picked(s, I) = Taken(s, I)[m] \o Picked(s, J)
  BY PickedSplit DEF After

\* After p and q, s and t are the same and so are I and J; before, I and J
\* are empty.
SameAfter(s, I, p, t, J, q) ==
    /\ Len(s) - p = Len(t) - q
    /\ \A i \in 1 .. Len(s) - p : s[p + i] = t[q + i]
    /\ \A i \in 1 .. Len(s) - p : p + i \in I <=> q + i \in J
    /\ \A i \in 1 .. p : i \notin I
    /\ \A i \in 1 .. q : i \notin J

\* What is picked from an end that two sequences share is the same.
LEMMA PickedShift ==
    ASSUME NEW S, NEW s \in Seq(S), NEW t \in Seq(S), NEW I, NEW J,
           NEW p \in 0 .. Len(s), NEW q \in 0 .. Len(t),
           SameAfter(s, I, p, t, J, q)
    PROVE  Picked(s, I) = Picked(t, J)
  <1> USE DEF SameAfter
  <1> DEFINE u == Taken(s, I)
             v == Taken(t, J)
             N == Len(s) - p
             A == {n \in 0 .. p : u[n] = <<>>}
             B == {n \in 0 .. q : v[n] = <<>>}
             D == {n \in 0 .. N : u[p + n] = v[q + n]}
  <1>1. Len(s) \in Nat /\ Len(t) \in Nat /\ p \in Nat /\ q \in Nat /\ N \in Nat
        /\ p + N = Len(s) /\ q + N = Len(t)
    OBVIOUS
  <1>2. /\ u[0] = <<>>
        /\ \A n \in 1 .. Len(s) : u[n] = IF n \in I THEN Append(u[n - 1], s[n]) ELSE u[n - 1]
    BY TakenSteps
  <1>3. /\ v[0] = <<>>
        /\ \A n \in 1 .. Len(t) : v[n] = IF n \in J THEN Append(v[n - 1], t[n]) ELSE v[n - 1]
    BY TakenSteps
  <1> HIDE DEF u, v, N
  <1>4. \A n \in 0 .. p : n \in A
    <2>1. 0 \in A
      BY <1>1, <1>2
    <2>2. \A n \in 0 .. p : n < p /\ n \in A => n + 1 \in A
      <3> SUFFICES ASSUME NEW n \in 0 .. p, n < p, n \in A PROVE n + 1 \in A
        OBVIOUS
      <3>1. n + 1 \in 1 .. p /\ n + 1 \in 1 .. Len(s) /\ (n + 1) - 1 = n /\ n + 1 \in 0 .. p
        BY <1>1
      <3>2. u[n + 1] = u[n]
        BY <1>2, <3>1
      <3> QED BY <3>1, <3>2
    <2> HIDE DEF A
    <2> QED BY <1>1, <2>1, <2>2, UpTo
  <1>5. \A n \in 0 .. q : n \in B
    <2>1. 0 \in B
      BY <1>1, <1>3
    <2>2. \A n \in 0 .. q : n < q /\ n \in B => n + 1 \in B
      <3> SUFFICES ASSUME NEW n \in 0 .. q, n < q, n \in B PROVE n + 1 \in B
        OBVIOUS
      <3>1. n + 1 \in 1 .. q /\ n + 1 \in 1 .. Len(t) /\ (n + 1) - 1 = n /\ n + 1 \in 0 .. q
        BY <1>1
      <3>2. v[n + 1] = v[n]
        BY <1>3, <3>1
      <3> QED BY <3>1, <3>2
    <2> HIDE DEF B
    <2> QED BY <1>1, <2>1, <2>2, UpTo
  <1>6. 0 \in D
    <2>1. p \in 0 .. p /\ q \in 0 .. q /\ p + 0 = p /\ q + 0 = q /\ 0 \in 0 .. N
      BY <1>1
    <2>2. u[p] = <<>> /\ v[q] = <<>>
      BY <1>4, <1>5, <2>1
    <2> QED BY <2>1, <2>2
  <1>7. \A n \in 0 .. N : n < N /\ n \in D => n + 1 \in D
    <2> SUFFICES ASSUME NEW n \in 0 .. N, n < N, n \in D PROVE n + 1 \in D
      OBVIOUS
    <2> DEFINE i == n + 1
    <2>1. /\ i \in 1 .. N /\ i \in 0 .. N /\ p + i \in 1 .. Len(s) /\ q + i \in 1 .. Len(t)
          /\ (p + i) - 1 = p + n /\ (q + i) - 1 = q + n
      BY <1>1
    <2>2. u[p + n] = v[q + n]
      OBVIOUS
    <2>3. s[p + i] = t[q + i] /\ (p + i \in I <=> q + i \in J)
      BY <2>1 DEF N
    <2> HIDE DEF i
    <2>4. /\ u[p + i] = IF p + i \in I THEN Append(u[p + n], s[p + i]) ELSE u[p + n]
          /\ v[q + i] = IF q + i \in J THEN Append(v[q + n], t[q + i]) ELSE v[q + n]
      BY <1>2, <1>3, <2>1
    <2>5. u[p + i] = v[q + i]
      BY <2>2, <2>3, <2>4
    <2> QED BY <2>1, <2>5 DEF i
  <1>8. \A n \in 0 .. N : n \in D
    <2> HIDE DEF D
    <2> QED BY <1>1, <1>6, <1>7, UpTo
  <1>9. u[p + N] = v[q + N]
    <2>1. N \in 0 .. N
      BY <1>1
    <2> QED BY <1>8, <2>1
  <1> QED BY <1>1, <1>9 DEF Picked, u, v

\* The end of a concatenation that reaches no further than its second part
LEMMA EndWithin ==
    ASSUME NEW S, NEW a \in Seq(S), NEW b \in Seq(S), NEW n \in 0 .. Len(b)
    PROVE  LET c == a \o b
           IN  SubSeq(c, Len(c) - n + 1, Len(c)) = SubSeq(b, Len(b) - n + 1, Len(b))
  <1> DEFINE c == a \o b
             d == SubSeq(c, Len(c) - n + 1, Len(c))
             e == SubSeq(b, Len(b) - n + 1, Len(b))
  <1>1. /\ c \in Seq(S) /\ Len(c) = Len(a) + Len(b)
        /\ \A i \in 1 .. Len(a) + Len(b) :
              c[i] = IF i <= Len(a) THEN a[i] ELSE b[i - Len(a)]
    BY ConcatProperties
  <1>2. Len(a) \in Nat /\ Len(b) \in Nat /\ n \in Nat /\ n <= Len(b)
    OBVIOUS
  <1> HIDE DEF c
  <1> DEFINE x == Len(c) - n + 1
             y == Len(b) - n + 1
  <1>3. x \in Int /\ y \in Int /\ Len(c) \in Int /\ Len(b) \in Int /\ x >= 1 /\ y >= 1
    BY <1>1, <1>2
  <1>4. (\A i \in x .. Len(c) : c[i] \in S) /\ (\A i \in y .. Len(b) : b[i] \in S)
    <2>1. (\A i \in x .. Len(c) : i \in 1 .. Len(c)) /\ (\A i \in y .. Len(b) : i \in 1 .. Len(b))
      BY <1>3
    <2> QED BY <1>1, <2>1
  <1>5. /\ Len(c) - x + 1 = n /\ Len(b) - y + 1 = n
        /\ n = 0 => ~(x <= Len(c)) /\ ~(y <= Len(b))
        /\ n # 0 => x <= Len(c) /\ y <= Len(b)
    BY <1>1, <1>2
  <1>6. d = SubSeq(c, x, Len(c)) /\ e = SubSeq(b, y, Len(b))
    OBVIOUS
  <1>7. /\ d \in Seq(S) /\ Len(d) = n
        /\ \A i \in 1 .. n : d[i] = c[x + i - 1]
    <2> HIDE DEF x, d
    <2>1. /\ d \in Seq(S)
          /\ Len(d) = IF x <= Len(c) THEN Len(c) - x + 1 ELSE 0
          /\ \A i \in 1 .. Len(c) - x + 1 : d[i] = c[x + i - 1]
      BY <1>3, <1>4, <1>6, SubSeqProperties
    <2> QED BY <1>2, <1>5, <2>1
  <1>8. /\ e \in Seq(S) /\ Len(e) = n
        /\ \A i \in 1 .. n : e[i] = b[y + i - 1]
    <2> HIDE DEF y, e
    <2>1. /\ e \in Seq(S)
          /\ Len(e) = IF y <= Len(b) THEN Len(b) - y + 1 ELSE 0
          /\ \A i \in 1 .. Len(b) - y + 1 : e[i] = b[y + i - 1]
      BY <1>3, <1>4, <1>6, SubSeqProperties
    <2> QED BY <1>2, <1>5, <2>1
  <1>9. \A i \in 1 .. n : d[i] = e[i]
    <2> TAKE i \in 1 .. n
    <2> DEFINE k == y + i - 1
    <2>1. /\ x + i - 1 = Len(a) + k /\ k \in 1 .. Len(b)
          /\ Len(a) + k \in 1 .. Len(a) + Len(b) /\ ~(Len(a) + k <= Len(a))
          /\ (Len(a) + k) - Len(a) = k
      BY <1>1, <1>2
    <2> HIDE DEF d, e, x, y
    <2>2. d[i] = c[Len(a) + k] /\ e[i] = b[k]
      BY <1>7, <1>8, <2>1
    <2> HIDE DEF k
    <2> QED BY <1>1, <2>1, <2>2
  <1> HIDE DEF d, e
  <1>10. d = e
    BY <1>7, <1>8, <1>9, SeqEqual
  <1> QED BY <1>10 DEF c, d, e

-----------------------------------------------------------------------------
(* Picking nothing, one index, all but one                                 *)

\* Nothing is picked at no index.
LEMMA PickedNone ==
    ASSUME NEW S, NEW s \in Seq(S), NEW I, \A i \in DOMAIN s : i \notin I
    PROVE  Picked(s, I) = <<>>
  <1> DEFINE p == Picked(s, I)
  <1>1. p \in Seq(S) /\ \A k \in DOMAIN p : \E i \in I \cap DOMAIN s : p[k] = s[i]
    BY PickedElements
  <1> HIDE DEF p
  <1>2. DOMAIN p = 1 .. Len(p) /\ Len(p) \in Nat
    BY <1>1
  <1>3. Len(p) = 0
    <2> SUFFICES ASSUME Len(p) # 0 PROVE FALSE
      OBVIOUS
    <2>1. 1 \in DOMAIN p
      BY <1>2
    <2> QED BY <1>1, <2>1
  <1>4. p = <<>>
    BY <1>1, <1>3
  <1> QED BY <1>4 DEF p

\* One index is picked.
LEMMA PickedOne ==
    ASSUME NEW S, NEW s \in Seq(S), NEW I, NEW i \in 1 .. Len(s),
           \A n \in 1 .. Len(s) : n \in I <=> n = i
    PROVE  Picked(s, I) = <<s[i]>>
  <1> DEFINE t == Taken(s, I)
             D == {n \in 0 .. Len(s) : t[n] = IF n < i THEN <<>> ELSE <<s[i]>>}
  <1>1. Len(s) \in Nat /\ i \in Nat /\ 0 < i /\ i <= Len(s)
    OBVIOUS
  <1>2. /\ t[0] = <<>>
        /\ \A n \in 1 .. Len(s) :
              t[n] = IF n \in I THEN Append(t[n - 1], s[n]) ELSE t[n - 1]
    BY TakenSteps
  <1> HIDE DEF t
  <1>3. 0 \in D
    BY <1>1, <1>2
  <1>4. \A n \in 0 .. Len(s) : n < Len(s) /\ n \in D => n + 1 \in D
    <2> SUFFICES ASSUME NEW n \in 0 .. Len(s), n < Len(s), n \in D
                 PROVE  n + 1 \in D
      OBVIOUS
    <2>1. n + 1 \in 1 .. Len(s) /\ (n + 1) - 1 = n /\ n + 1 \in 0 .. Len(s)
      BY <1>1
    <2>2. t[n + 1] = IF n + 1 = i THEN Append(t[n], s[n + 1]) ELSE t[n]
      BY <1>2, <2>1
    <2>3. t[n] = IF n < i THEN <<>> ELSE <<s[i]>>
      OBVIOUS
    <2>4. CASE n + 1 = i
      <3>1. n < i /\ ~(n + 1 < i)
        BY <1>1, <2>1, <2>4
      <3>2. Append(<<>>, s[n + 1]) = <<s[i]>>
        BY <2>4
      <3>3. t[n + 1] = <<s[i]>>
        BY <2>2, <2>3, <2>4, <3>1, <3>2
      <3> QED BY <2>1, <3>1, <3>3
    <2>5. CASE n + 1 # i
      <3>1. n + 1 < i <=> n < i
        BY <1>1, <2>1, <2>5
      <3>2. t[n + 1] = t[n]
        BY <2>2, <2>5
      <3> QED BY <2>1, <2>3, <3>1, <3>2
    <2> QED BY <2>4, <2>5
  <1>5. \A n \in 0 .. Len(s) : n \in D
    <2> HIDE DEF D
    <2> QED BY <1>1, <1>3, <1>4, UpTo
  <1>6. t[Len(s)] = <<s[i]>>
    <2>1. Len(s) \in 0 .. Len(s) /\ ~(Len(s) < i)
      BY <1>1
    <2> QED BY <1>5, <2>1
  <1> QED BY <1>6 DEF Picked, t

\* Every index but i is picked; i may be the one after the last.
LEMMA PickedBut ==
    ASSUME NEW S, NEW s \in Seq(S), NEW I, NEW i \in 1 .. Len(s) + 1,
           \A n \in 1 .. Len(s) : n \in I <=> n # i
    PROVE  LET p == Picked(s, I)
           IN  /\ p \in Seq(S)
               /\ Len(p) = IF i <= Len(s) THEN Len(s) - 1 ELSE Len(s)
               /\ \A j \in 1 .. Len(p) : p[j] = IF j < i THEN s[j] ELSE s[j + 1]
  <1> DEFINE t == Taken(s, I)
             Is(u, n) == IF n < i
                         THEN Len(u) = n /\ \A j \in 1 .. n : u[j] = s[j]
                         ELSE /\ Len(u) = n - 1
                              /\ \A j \in 1 .. n - 1 :
                                    u[j] = IF j < i THEN s[j] ELSE s[j + 1]
             D == {n \in 0 .. Len(s) : Is(t[n], n)}
  <1>1. Len(s) \in Nat /\ i \in Nat /\ 0 < i /\ i <= Len(s) + 1
    OBVIOUS
  <1>2. /\ t[0] = <<>>
        /\ \A n \in 1 .. Len(s) :
              t[n] = IF n \in I THEN Append(t[n - 1], s[n]) ELSE t[n - 1]
    BY TakenSteps
  <1>3. \A n \in 0 .. Len(s) : t[n] \in Seq(S)
    BY TakenType
  <1> HIDE DEF t
  <1>4. 0 \in D
    BY <1>1, <1>2
  <1>5. \A n \in 0 .. Len(s) : n < Len(s) /\ n \in D => n + 1 \in D
    <2> SUFFICES ASSUME NEW n \in 0 .. Len(s), n < Len(s), n \in D
                 PROVE  n + 1 \in D
      OBVIOUS
    <2>1. n + 1 \in 1 .. Len(s) /\ (n + 1) - 1 = n /\ n + 1 \in 0 .. Len(s)
      BY <1>1
    <2>2. t[n + 1] = IF n + 1 # i THEN Append(t[n], s[n + 1]) ELSE t[n]
      BY <1>2, <2>1
    <2> DEFINE u == t[n]
               e == s[n + 1]
               v == Append(u, e)
    <2>3. u \in Seq(S) /\ e \in S
      BY <1>3, <2>1
    <2>4. /\ Len(u) \in Nat /\ Len(v) = Len(u) + 1
          /\ \A j \in 1 .. Len(u) : v[j] = u[j]
          /\ v[Len(u) + 1] = e
      <3> HIDE DEF u, e
      <3> QED BY <2>3
    <2>5. Is(u, n)
      OBVIOUS
    <2> HIDE DEF v
    <2>6. CASE n + 1 = i
      <3>1. n < i /\ ~(n + 1 < i) /\ t[n + 1] = u
        BY <1>1, <2>1, <2>2, <2>6
      <3>2. Len(u) = n /\ \A j \in 1 .. n : u[j] = s[j] /\ j < i
        BY <1>1, <2>1, <2>5, <2>6, <3>1
      <3>3. Is(u, n + 1)
        BY <2>1, <3>1, <3>2
      <3> QED BY <2>1, <3>1, <3>3
    <2>7. CASE n + 1 # i /\ n < i
      <3>1. n + 1 < i /\ t[n + 1] = v
        BY <1>1, <2>1, <2>2, <2>7 DEF v
      <3>2. Len(u) = n /\ \A j \in 1 .. n : u[j] = s[j]
        BY <2>5, <2>7
      <3>3. Len(v) = n + 1 /\ \A j \in 1 .. n + 1 : v[j] = s[j]
        <4>1. \A j \in 1 .. n + 1 : j \in 1 .. n \/ j = n + 1
          BY <2>1
        <4> HIDE DEF u
        <4> QED BY <2>4, <3>2, <4>1 DEF e
      <3> QED BY <2>1, <3>1, <3>3
    <2>8. CASE n + 1 # i /\ ~(n < i)
      <3>1. ~(n + 1 < i) /\ t[n + 1] = v /\ n \in Nat /\ n - 1 \in Nat /\ ~(n < i)
        BY <1>1, <2>1, <2>2, <2>8 DEF v
      <3>2. /\ Len(u) = n - 1
            /\ \A j \in 1 .. n - 1 : u[j] = IF j < i THEN s[j] ELSE s[j + 1]
        BY <2>5, <2>8
      <3>3. Len(v) = n /\ \A j \in 1 .. n : v[j] = IF j < i THEN s[j] ELSE s[j + 1]
        <4>1. \A j \in 1 .. n : j \in 1 .. n - 1 \/ j = n
          BY <3>1
        <4>2. Len(u) + 1 = n
          BY <3>1, <3>2
        <4> HIDE DEF u
        <4> QED BY <2>4, <3>1, <3>2, <4>1, <4>2 DEF e
      <3>4. Is(v, n + 1)
        BY <2>1, <3>1, <3>3
      <3> QED BY <2>1, <3>1, <3>4
    <2> QED BY <2>6, <2>7, <2>8
  <1>6. \A n \in 0 .. Len(s) : n \in D
    <2> HIDE DEF D
    <2> QED BY <1>1, <1>4, <1>5, UpTo
  <1> DEFINE p == Picked(s, I)
  <1>7. p \in Seq(S) /\ Is(p, Len(s))
    <2>1. Len(s) \in 0 .. Len(s)
      BY <1>1
    <2> QED BY <1>3, <1>6, <2>1 DEF Picked, t
  <1> HIDE DEF p
  <1>8. /\ Len(p) = IF i <= Len(s) THEN Len(s) - 1 ELSE Len(s)
        /\ \A j \in 1 .. Len(p) : p[j] = IF j < i THEN s[j] ELSE s[j + 1]
    <2>1. CASE i <= Len(s)
      BY <1>1, <1>7, <2>1
    <2>2. CASE ~(i <= Len(s))
      BY <1>1, <1>7, <2>2
    <2> QED BY <2>1, <2>2
  <1> QED BY <1>7, <1>8 DEF p

-----------------------------------------------------------------------------
(* Picking from a sequence that grows                                      *)

\* One more element is picked, or is not.
LEMMA PickedAppend ==
    ASSUME NEW S, NEW s \in Seq(S), NEW e \in S, NEW I, NEW J,
           \A n \in 1 .. Len(s) : n \in I <=> n \in J
    PROVE  Picked(Append(s, e), J) =
              IF Len(s) + 1 \in J THEN Append(Picked(s, I), e) ELSE Picked(s, I)
  <1> DEFINE N == Len(s)
             u == Append(s, e)
             a == Taken(s, I)
             b == Taken(u, J)
             D == {n \in 0 .. N : b[n] = a[n]}
  <1>1. /\ u \in Seq(S) /\ N \in Nat /\ Len(u) = N + 1 /\ u[N + 1] = e
        /\ \A n \in 1 .. N : u[n] = s[n]
    OBVIOUS
  <1>2. /\ a[0] = <<>>
        /\ \A n \in 1 .. N : a[n] = IF n \in I THEN Append(a[n - 1], s[n]) ELSE a[n - 1]
    BY TakenSteps
  <1>3. /\ b[0] = <<>>
        /\ \A n \in 1 .. N + 1 : b[n] = IF n \in J THEN Append(b[n - 1], u[n]) ELSE b[n - 1]
    <2> HIDE DEF u, N
    <2>1. /\ b[0] = <<>>
          /\ \A n \in 1 .. Len(u) : b[n] = IF n \in J THEN Append(b[n - 1], u[n]) ELSE b[n - 1]
      BY <1>1, TakenSteps
    <2> QED BY <1>1, <2>1
  <1>4. Picked(s, I) = a[N] /\ Picked(u, J) = b[N + 1]
    BY <1>1 DEF Picked
  <1>5. \A n \in 1 .. N : n \in I <=> n \in J
    OBVIOUS
  <1> HIDE DEF N, u, a, b
  <1>6. 0 \in D
    BY <1>1, <1>2, <1>3
  <1>7. ASSUME NEW n \in 0 .. N, n < N, n \in D PROVE n + 1 \in D
    <2>1. n + 1 \in 1 .. N /\ n + 1 \in 1 .. N + 1 /\ n + 1 \in 0 .. N /\ (n + 1) - 1 = n
      BY <1>1, <1>7
    <2>2. b[n] = a[n]
      BY <1>7
    <2>3. a[n + 1] = IF n + 1 \in I THEN Append(a[n], s[n + 1]) ELSE a[n]
      BY <1>2, <2>1
    <2>4. b[n + 1] = IF n + 1 \in J THEN Append(b[n], u[n + 1]) ELSE b[n]
      BY <1>3, <2>1
    <2> QED BY <1>1, <1>5, <2>1, <2>2, <2>3, <2>4
  <1> HIDE DEF D
  <1>8. \A n \in 0 .. N : n \in D
    BY <1>1, <1>6, <1>7, UpTo
  <1>9. b[N] = a[N]
    BY <1>1, <1>8 DEF D
  <1>10. b[N + 1] = IF N + 1 \in J THEN Append(b[N], u[N + 1]) ELSE b[N]
    BY <1>1, <1>3
  <1> QED BY <1>1, <1>4, <1>9, <1>10 DEF N, u
=============================================================================
