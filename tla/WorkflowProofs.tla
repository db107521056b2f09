--------------------------- MODULE WorkflowProofs ---------------------------
(***************************************************************************)
(* Proofs about workflows: a step of a skill whose conditions are written  *)
(* in the documented language runs exactly when its condition means so,    *)
(* and a step is given its arguments with every placeholder replaced once. *)
(*                                                                         *)
(* The invariant is Shape /\ Recorded: what the results of the steps are   *)
(* at any time.  The rest is about the operators.  ReplacedAll, Joined and *)
(* Evaluate are recursive functions; that they obey their recursion is     *)
(* shown by the existence of the sequence of their values (Recursion), and *)
(* what follows from it by induction on a set of numbers (UpTo, DownFrom). *)
(*   Given      ReplacedAll in any order replaces like one pass (Each).    *)
(*   RunsRight  Evaluate of a condition, written as a text, is what the    *)
(*              condition means: a keyword or an operator inside of quotes *)
(*              is not found, one outside is found at its place.           *)
(***************************************************************************)
EXTENDS WorkflowProps, SequenceLemmas, FiniteSetTheorems

-----------------------------------------------------------------------------
(* Recursion over the natural numbers                                      *)

\* The functions that begin with b and go on by the steps of G
Courses(V, b, N, G) ==
    {f \in [0 .. N -> V] : f[0] = b /\ \A n \in 1 .. N : f[n] = G[n][f[n - 1]]}

\* There is one.
LEMMA Recursion ==
    ASSUME NEW V, NEW b \in V, NEW N \in Nat, NEW G \in [1 .. N -> [V -> V]]
    PROVE  \E f : f \in Courses(V, b, N, G)
  <1> DEFINE Solves(f, k) == /\ f \in [0 .. k -> V]
                             /\ f[0] = b
                             /\ \A n \in 1 .. k : f[n] = G[n][f[n - 1]]
             D == {k \in 0 .. N : \E f : Solves(f, k)}
  <1>1. 0 \in D
    <2> DEFINE f == [n \in 0 .. 0 |-> b]
    <2>1. f \in [0 .. 0 -> V] /\ f[0] = b /\ 1 .. 0 = {}
      OBVIOUS
    <2> HIDE DEF f
    <2>2. Solves(f, 0)
      BY <2>1
    <2>3. \E h : Solves(h, 0)
      BY <2>2
    <2> QED BY <2>3
  <1>2. \A k \in 0 .. N : k < N /\ k \in D => k + 1 \in D
    <2> SUFFICES ASSUME NEW k \in 0 .. N, k < N, k \in D
                 PROVE  k + 1 \in D
      OBVIOUS
    <2>1. PICK f : Solves(f, k)
      OBVIOUS
    <2> DEFINE g == [n \in 0 .. k + 1 |-> IF n = k + 1 THEN G[n][f[k]] ELSE f[n]]
    <2>2. G[k + 1][f[k]] \in V
      <3>1. f[k] \in V /\ G[k + 1] \in [V -> V]
        BY <2>1
      <3> QED BY <3>1
    <2>3. g \in [0 .. k + 1 -> V]
      BY <2>1, <2>2
    <2>4. g[0] = b
      BY <2>1
    <2>5. ASSUME NEW n \in 1 .. k + 1
          PROVE  g[n] = G[n][g[n - 1]]
      <3>1. g[n - 1] = f[n - 1]
        OBVIOUS
      <3>2. g[n] = G[n][f[n - 1]]
        BY <2>1
      <3> QED BY <3>1, <3>2
    <2> HIDE DEF g
    <2>6. \E h : Solves(h, k + 1)
      <3>1. Solves(g, k + 1)
        BY <2>3, <2>4, <2>5
      <3> HIDE DEF Solves
      <3> QED BY <3>1
    <2> QED BY <2>6
  <1>3. N \in D
    <2> HIDE DEF D
    <2>1. \A k \in 0 .. N : k \in D
      BY <1>1, <1>2, UpTo
    <2> QED BY <2>1
  <1> QED BY <1>3 DEF Courses

-----------------------------------------------------------------------------
(* FlattenSeq                                                              *)

\* The prefixes of ss, each flattened
Flattened(T, N, ss) ==
    {f \in [1 .. N -> Seq(T)] :
       f[1] = ss[1] /\ \A n \in 2 .. N : f[n] = f[n - 1] \o ss[n]}

\* FlattenSeq is the last of them.
LEMMA FlattenWork ==
    ASSUME NEW T, NEW N \in Nat \ {0}, NEW ss \in [1 .. N -> Seq(T)]
    PROVE  \E f : f \in Flattened(T, N, ss) /\ FlattenSeq(ss) = f[N]
  <1> DEFINE Solves(f) == f = [i \in 1 .. N |-> IF i = 1 THEN ss[i] ELSE f[i - 1] \o ss[i]]
  <1>1. Len(ss) = N
    OBVIOUS
  <1>2. \E f \in [1 .. N -> Seq(T)] : Solves(f)
    <2> DEFINE G == [n \in 1 .. N |-> [v \in Seq(T) |-> v \o ss[n]]]
    <2>1. G \in [1 .. N -> [Seq(T) -> Seq(T)]]
      <3>1. \A n \in 1 .. N, v \in Seq(T) : v \o ss[n] \in Seq(T)
        OBVIOUS
      <3> QED BY <3>1
    <2>2. <<>> \in Seq(T)
      OBVIOUS
    <2>3. PICK h : h \in Courses(Seq(T), <<>>, N, G)
      <3> HIDE DEF G
      <3> QED BY <2>1, <2>2, Recursion
    <2>4. /\ h \in [0 .. N -> Seq(T)]
          /\ h[0] = <<>>
          /\ \A n \in 1 .. N : h[n] = h[n - 1] \o ss[n]
      <3>1. /\ h \in [0 .. N -> Seq(T)]
            /\ h[0] = <<>>
            /\ \A n \in 1 .. N : h[n] = G[n][h[n - 1]]
        <4> HIDE DEF G
        <4> QED BY <2>3 DEF Courses
      <3>2. ASSUME NEW n \in 1 .. N
            PROVE  h[n] = h[n - 1] \o ss[n]
        <4>1. h[n - 1] \in Seq(T)
          BY <3>1
        <4>2. G[n][h[n - 1]] = h[n - 1] \o ss[n]
          BY <4>1
        <4> HIDE DEF G
        <4> QED BY <3>1, <4>2
      <3> QED BY <3>1, <3>2
    <2>5. h[1] = ss[1]
      <3>1. 1 \in 1 .. N /\ 1 - 1 = 0
        OBVIOUS
      <3>2. h[1] = <<>> \o ss[1]
        BY <2>4, <3>1
      <3>3. ss[1] \in Seq(T)
        BY <3>1
      <3> QED BY <3>2, <3>3
    <2> DEFINE f == [i \in 1 .. N |-> h[i]]
    <2>6. f \in [1 .. N -> Seq(T)]
      <3>1. \A i \in 1 .. N : i \in 0 .. N
        OBVIOUS
      <3>2. h \in [0 .. N -> Seq(T)]
        BY <2>4
      <3> QED BY <3>1, <3>2
    <2>7. ASSUME NEW i \in 1 .. N
          PROVE  f[i] = IF i = 1 THEN ss[i] ELSE f[i - 1] \o ss[i]
      <3>1. CASE i = 1
        BY <2>5, <3>1
      <3>2. CASE i # 1
        <4>1. i - 1 \in 1 .. N /\ f[i - 1] = h[i - 1] /\ f[i] = h[i]
          BY <3>2
        <4> HIDE DEF f
        <4> QED BY <2>4, <3>2, <4>1
      <3> QED BY <3>1, <3>2
    <2> HIDE DEF f
    <2>8. Solves(f)
      BY <2>6, <2>7
    <2> HIDE DEF Solves
    <2> QED BY <2>6, <2>8
  <1>3. FlattenSeq(ss) = (CHOOSE f : Solves(f))[N]
    BY <1>1 DEF FlattenSeq
  <1> DEFINE F == CHOOSE f : Solves(f)
  <1>4. Solves(F)
    <2> HIDE DEF Solves
    <2> QED BY <1>2
  <1> HIDE DEF F
  <1>5. /\ F[1] = ss[1]
        /\ \A n \in 2 .. N : F[n] = F[n - 1] \o ss[n]
    <2>1. \A i \in 1 .. N : F[i] = IF i = 1 THEN ss[i] ELSE F[i - 1] \o ss[i]
      BY <1>4, Zenon
    <2>2. 1 \in 1 .. N /\ \A n \in 2 .. N : n \in 1 .. N /\ n # 1
      OBVIOUS
    <2> HIDE DEF Solves
    <2> QED BY <2>1, <2>2
  <1>6. F \in [1 .. N -> Seq(T)]
    <2> DEFINE D == {n \in 0 .. N : n # 0 => F[n] \in Seq(T)}
    <2>1. \A n \in 1 .. N : ss[n] \in Seq(T)
      OBVIOUS
    <2>2. 0 \in D
      OBVIOUS
    <2>3. ASSUME NEW n \in 0 .. N, n < N, n \in D
          PROVE  n + 1 \in D
      <3>1. n + 1 \in 1 .. N
        BY <2>3
      <3>2. CASE n = 0
        <4>1. F[n + 1] \in Seq(T)
          BY <1>5, <2>1, <3>1, <3>2
        <4> QED BY <3>1, <4>1
      <3>3. CASE n # 0
        <4>1. F[n] \in Seq(T) /\ ss[n + 1] \in Seq(T)
          BY <2>1, <2>3, <3>1, <3>3
        <4>2. n + 1 \in 2 .. N /\ (n + 1) - 1 = n
          BY <3>1, <3>3
        <4>3. F[n + 1] = F[n] \o ss[n + 1]
          BY <1>5, <4>2
        <4>4. F[n + 1] \in Seq(T)
          BY <4>1, <4>3
        <4> QED BY <3>1, <4>4
      <3> QED BY <3>2, <3>3
    <2>4. \A n \in 0 .. N : n \in D
      <3> HIDE DEF D
      <3> QED BY <2>2, <2>3, UpTo
    <2>5. \A n \in 1 .. N : F[n] \in Seq(T)
      BY <2>4
    <2>6. F = [i \in 1 .. N |-> F[i]]
      BY <1>4
    <2> HIDE DEF Solves, D
    <2> QED BY <2>5, <2>6
  <1>7. FlattenSeq(ss) = F[N]
    BY <1>3 DEF F
  <1> HIDE DEF Solves
  <1> QED BY <1>5, <1>6, <1>7 DEF Flattened

\* FlattenSeq of nothing, and of one sequence more
LEMMA FlattenSteps ==
    ASSUME NEW T
    PROVE  /\ FlattenSeq(<<>>) = <<>>
           /\ \A ss \in Seq(Seq(T)) : FlattenSeq(ss) \in Seq(T)
           /\ \A ss \in Seq(Seq(T)), t \in Seq(T) :
                 FlattenSeq(Append(ss, t)) = FlattenSeq(ss) \o t
  <1>1. FlattenSeq(<<>>) = <<>>
    BY DEF FlattenSeq
  <1>2. ASSUME NEW N \in Nat, NEW ss \in Seq(Seq(T)), Len(ss) = N, NEW t \in Seq(T)
        PROVE  /\ FlattenSeq(ss) \in Seq(T)
               /\ FlattenSeq(Append(ss, t)) = FlattenSeq(ss) \o t
    <2> DEFINE us == Append(ss, t)
    <2>1. /\ us \in [1 .. N + 1 -> Seq(T)] /\ N + 1 \in Nat \ {0}
          /\ us[N + 1] = t /\ \A n \in 1 .. N : us[n] = ss[n]
      <3>1. us \in Seq(Seq(T)) /\ Len(us) = N + 1
        BY <1>2
      <3>2. us[N + 1] = t /\ \A n \in 1 .. N : us[n] = ss[n]
        BY <1>2
      <3> HIDE DEF us
      <3>3. us \in [1 .. N + 1 -> Seq(T)]
        BY <3>1, LenProperties
      <3> QED BY <3>2, <3>3
    <2> HIDE DEF us
    <2>0. PICK g : g \in Flattened(T, N + 1, us) /\ FlattenSeq(us) = g[N + 1]
      BY <2>1, FlattenWork
    <2>2. /\ g \in [1 .. N + 1 -> Seq(T)]
          /\ g[1] = us[1]
          /\ \A n \in 2 .. N + 1 : g[n] = g[n - 1] \o us[n]
      BY <2>0 DEF Flattened
    <2>3. CASE N = 0
      <3>1. ss = <<>>
        BY <1>2, <2>3
      <3>2. FlattenSeq(us) = t
        BY <2>0, <2>1, <2>2, <2>3
      <3>3. <<>> \o t = t /\ <<>> \in Seq(T)
        OBVIOUS
      <3> QED BY <1>1, <3>1, <3>2, <3>3 DEF us
    <2>4. CASE N # 0
      <3>1. ss \in [1 .. N -> Seq(T)] /\ N \in Nat \ {0}
        BY <1>2, <2>4
      <3>0. PICK f : f \in Flattened(T, N, ss) /\ FlattenSeq(ss) = f[N]
        BY <3>1, FlattenWork
      <3>2. /\ f \in [1 .. N -> Seq(T)]
            /\ f[1] = ss[1]
            /\ \A n \in 2 .. N : f[n] = f[n - 1] \o ss[n]
        BY <3>0 DEF Flattened
      <3> DEFINE D == {n \in 0 .. N : n # 0 => f[n] = g[n]}
      <3>3. 0 \in D
        OBVIOUS
      <3>4. ASSUME NEW n \in 0 .. N, n < N, n \in D
            PROVE  n + 1 \in D
        <4>1. n + 1 \in 1 .. N
          BY <3>4
        <4>2. CASE n = 0
          <5>1. f[n + 1] = g[n + 1]
            BY <2>1, <2>2, <3>2, <4>1, <4>2
          <5> QED BY <4>1, <5>1
        <4>3. CASE n # 0
          <5>1. n + 1 \in 2 .. N /\ n + 1 \in 2 .. N + 1 /\ (n + 1) - 1 = n
            BY <4>1, <4>3
          <5>2. f[n + 1] = f[n] \o ss[n + 1] /\ g[n + 1] = g[n] \o us[n + 1]
            BY <2>2, <3>2, <5>1
          <5>3. f[n] = g[n] /\ ss[n + 1] = us[n + 1]
            BY <2>1, <3>4, <4>1, <4>3
          <5>4. f[n + 1] = g[n + 1]
            BY <5>2, <5>3
          <5> QED BY <4>1, <5>4
        <4> QED BY <4>2, <4>3
      <3>5. \A n \in 0 .. N : n \in D
        <4> HIDE DEF D
        <4> QED BY <3>3, <3>4, UpTo
      <3>6. f[N] = g[N]
        BY <2>4, <3>5
      <3>7. g[N + 1] = g[N] \o t
        <4>1. N + 1 \in 2 .. N + 1 /\ (N + 1) - 1 = N
          BY <2>4
        <4> QED BY <2>1, <2>2, <4>1
      <3>8. FlattenSeq(ss) \in Seq(T)
        BY <2>4, <3>0, <3>2
      <3> QED BY <2>0, <3>0, <3>6, <3>7, <3>8 DEF us
    <2> QED BY <2>3, <2>4
  <1>3. \A ss \in Seq(Seq(T)) : Len(ss) \in Nat
    OBVIOUS
  <1>4. <<>> \in Seq(T)
    OBVIOUS
  <1> QED BY <1>1, <1>2, <1>3, <1>4

-----------------------------------------------------------------------------
(* Texts in which every token is replaced by a text of its own             *)

\* s with every token t replaced by the text F[t]
Each(s, F) == FlattenSeq([n \in DOMAIN s |-> F[s[n]]])

\* A sequence that is not empty has a last element.
LEMMA AppendSplit ==
    ASSUME NEW S, NEW n \in Nat, NEW s \in Seq(S), Len(s) = n + 1
    PROVE  \E u \in Seq(S), e \in S : s = Append(u, e) /\ Len(u) = n
  <1> DEFINE u == SubSeq(s, 1, n)
             e == s[n + 1]
  <1>1. u \in Seq(S) /\ Len(u) = n /\ \A i \in 1 .. n : u[i] = s[i]
    OBVIOUS
  <1>2. e \in S
    OBVIOUS
  <1> HIDE DEF u
  <1>3. Append(u, e) \in Seq(S) /\ Len(Append(u, e)) = n + 1
    BY <1>1, <1>2
  <1>4. \A i \in 1 .. n + 1 : Append(u, e)[i] = s[i]
    BY <1>1, <1>2
  <1> HIDE DEF e
  <1>5. s = Append(u, e)
    BY <1>3, <1>4, SeqEqual
  <1> QED BY <1>1, <1>2, <1>5

\* Each of nothing, of one token more, and of one token
EachRules(S, T, F) ==
    /\ Each(<<>>, F) = <<>>
    /\ \A s \in Seq(S) : Each(s, F) \in Seq(T)
    /\ \A s \in Seq(S), e \in S : Each(Append(s, e), F) = Each(s, F) \o F[e]
    /\ \A e \in S : Each(<<e>>, F) = F[e]

\* They hold for any texts.
LEMMA EachSteps ==
    ASSUME NEW S, NEW T, NEW F \in [S -> Seq(T)]
    PROVE  EachRules(S, T, F)
  <1>1. Each(<<>>, F) = <<>>
    <2>1. [n \in DOMAIN <<>> |-> F[<<>>[n]]] = <<>>
      OBVIOUS
    <2> QED BY <2>1, FlattenSteps DEF Each
  <1>2. ASSUME NEW s \in Seq(S)
        PROVE  /\ [n \in DOMAIN s |-> F[s[n]]] \in Seq(Seq(T))
               /\ Len([n \in DOMAIN s |-> F[s[n]]]) = Len(s)
    <2>1. DOMAIN s = 1 .. Len(s) /\ Len(s) \in Nat /\ \A n \in 1 .. Len(s) : s[n] \in S
      OBVIOUS
    <2>2. \A n \in 1 .. Len(s) : F[s[n]] \in Seq(T)
      BY <2>1
    <2>3. [n \in 1 .. Len(s) |-> F[s[n]]] \in Seq(Seq(T))
      BY <2>1, <2>2, IsASeq
    <2>4. Len([n \in 1 .. Len(s) |-> F[s[n]]]) = Len(s)
      BY <2>1
    <2> QED BY <2>1, <2>3, <2>4
  <1>4. ASSUME NEW s \in Seq(S)
        PROVE  Each(s, F) \in Seq(T)
    BY <1>2, FlattenSteps DEF Each
  <1>5. ASSUME NEW s \in Seq(S), NEW e \in S
        PROVE  Each(Append(s, e), F) = Each(s, F) \o F[e]
    <2> DEFINE a == Append(s, e)
               ss == [n \in DOMAIN s |-> F[s[n]]]
               us == [n \in DOMAIN a |-> F[a[n]]]
    <2>1. F[e] \in Seq(T) /\ a \in Seq(S) /\ Len(a) = Len(s) + 1
      OBVIOUS
    <2>2. /\ ss \in Seq(Seq(T)) /\ Len(ss) = Len(s)
          /\ us \in Seq(Seq(T)) /\ Len(us) = Len(s) + 1
      <3> HIDE DEF a
      <3> QED BY <1>2, <2>1
    <2>3. \A n \in 1 .. Len(s) : us[n] = ss[n]
      OBVIOUS
    <2>4. us[Len(s) + 1] = F[e]
      OBVIOUS
    <2>5. us = Append(ss, F[e])
      <3> HIDE DEF ss, us, a
      <3>1. Append(ss, F[e]) \in Seq(Seq(T)) /\ Len(Append(ss, F[e])) = Len(s) + 1
        BY <2>1, <2>2
      <3>2. \A n \in 1 .. Len(us) : us[n] = Append(ss, F[e])[n]
        <4> SUFFICES ASSUME NEW n \in 1 .. Len(s) + 1
                     PROVE  us[n] = Append(ss, F[e])[n]
          BY <2>2
        <4>1. CASE n = Len(s) + 1
          BY <2>1, <2>2, <2>4, <4>1
        <4>2. CASE n # Len(s) + 1
          <5>1. n \in 1 .. Len(s)
            BY <4>2
          <5>2. \A q \in Seq(Seq(T)), x \in Seq(T) : \A k \in 1 .. Len(q) :
                   Append(q, x)[k] = q[k]
            OBVIOUS
          <5>3. Append(ss, F[e])[n] = ss[n]
            BY <2>1, <2>2, <5>1, <5>2
          <5> QED BY <2>3, <5>1, <5>3
        <4> QED BY <4>1, <4>2
      <3> QED BY <2>2, <3>1, <3>2, SeqEqual
    <2>6. FlattenSeq(Append(ss, F[e])) = FlattenSeq(ss) \o F[e]
      <3> HIDE DEF ss
      <3> QED BY <2>1, <2>2, FlattenSteps
    <2> QED BY <2>5, <2>6 DEF Each
  <1>3. ASSUME NEW e \in S
        PROVE  Each(<<e>>, F) = F[e]
    <2>1. Append(<<>>, e) = <<e>> /\ <<>> \in Seq(S) /\ F[e] \in Seq(T)
      OBVIOUS
    <2>2. Each(Append(<<>>, e), F) = Each(<<>>, F) \o F[e]
      BY <1>5, <2>1
    <2>3. <<>> \o F[e] = F[e]
      BY <2>1
    <2> QED BY <1>1, <2>1, <2>2, <2>3
  <1> QED BY <1>1, <1>3, <1>4, <1>5 DEF EachRules

\* The two groupings of a concatenation are the same.
Regroups(a, b, c) == (a \o b) \o c = a \o (b \o c)

\* A concatenation can be grouped in both ways.
LEMMA ConcatRegroups ==
    ASSUME NEW S, NEW a \in Seq(S), NEW b \in Seq(S), NEW c \in Seq(S)
    PROVE  Regroups(a, b, c)
  BY DEF Regroups

\* Each of two texts, one behind the other
LEMMA EachConcat ==
    ASSUME NEW S, NEW T, NEW F \in [S -> Seq(T)], NEW s \in Seq(S), NEW t \in Seq(S)
    PROVE  Each(s \o t, F) = Each(s, F) \o Each(t, F)
  <1> DEFINE D == {n \in 0 .. Len(t) : \A u \in Seq(S) : Len(u) = n =>
                      Each(s \o u, F) = Each(s, F) \o Each(u, F)}
  <1>1. /\ Each(<<>>, F) = <<>>
        /\ \A u \in Seq(S) : Each(u, F) \in Seq(T)
        /\ \A u \in Seq(S), e \in S : Each(Append(u, e), F) = Each(u, F) \o F[e]
    <2>1. EachRules(S, T, F)
      BY EachSteps
    <2> QED BY <2>1 DEF EachRules
  <1>2. 0 \in D
    <2> SUFFICES ASSUME NEW u \in Seq(S), Len(u) = 0
                 PROVE  Each(s \o u, F) = Each(s, F) \o Each(u, F)
      OBVIOUS
    <2>1. u = <<>> /\ s \o u = s
      OBVIOUS
    <2>2. Each(s, F) \in Seq(T)
      BY <1>1
    <2>3. Each(s, F) \o <<>> = Each(s, F)
      BY <2>2
    <2> QED BY <1>1, <2>1, <2>3
  <1>3. ASSUME NEW n \in 0 .. Len(t), n < Len(t), n \in D
        PROVE  n + 1 \in D
    <2> SUFFICES ASSUME NEW u \in Seq(S), Len(u) = n + 1
                 PROVE  Each(s \o u, F) = Each(s, F) \o Each(u, F)
      BY <1>3
    <2>1. n \in Nat
      OBVIOUS
    <2>2. PICK v \in Seq(S), e \in S : u = Append(v, e) /\ Len(v) = n
      BY <2>1, AppendSplit
    <2>3. Each(s \o v, F) = Each(s, F) \o Each(v, F)
      BY <1>3, <2>2
    <2>4. s \o u = Append(s \o v, e) /\ s \o v \in Seq(S)
      <3>1. Shifts(s, v, e)
        BY AppendConcat
      <3> QED BY <2>2, <3>1 DEF Shifts
    <2>5. Each(s \o u, F) = (Each(s, F) \o Each(v, F)) \o F[e]
      BY <1>1, <2>3, <2>4
    <2>6. Each(s, F) \in Seq(T) /\ Each(v, F) \in Seq(T) /\ F[e] \in Seq(T)
      BY <1>1
    <2>7. (Each(s, F) \o Each(v, F)) \o F[e] = Each(s, F) \o (Each(v, F) \o F[e])
      <3>1. Regroups(Each(s, F), Each(v, F), F[e])
        BY <2>6, ConcatRegroups
      <3> QED BY <3>1 DEF Regroups
    <2>8. Each(u, F) = Each(v, F) \o F[e]
      BY <1>1, <2>2
    <2> QED BY <2>5, <2>7, <2>8
  <1>4. Len(t) \in Nat
    OBVIOUS
  <1>5. \A n \in 0 .. Len(t) : n \in D
    <2> HIDE DEF D
    <2> QED BY <1>2, <1>3, <1>4, UpTo
  <1>6. Len(t) \in D
    <2> HIDE DEF D
    <2> QED BY <1>4, <1>5
  <1> QED BY <1>6

\* Replacing once and then again is replacing by what was replaced.
Composes(S, T, U, F, G, s) ==
    Each(Each(s, F), G) = Each(s, [e \in S |-> Each(F[e], G)])

\* That is so for all texts.
LEMMA EachEach ==
    ASSUME NEW S, NEW T, NEW U, NEW F \in [S -> Seq(T)], NEW G \in [T -> Seq(U)],
           NEW s \in Seq(S)
    PROVE  Composes(S, T, U, F, G, s)
  <1> DEFINE H == [e \in S |-> Each(F[e], G)]
             D == {n \in 0 .. Len(s) : \A u \in Seq(S) : Len(u) = n =>
                      Each(Each(u, F), G) = Each(u, H)}
  <1>1. /\ Each(<<>>, F) = <<>>
        /\ \A u \in Seq(S) : Each(u, F) \in Seq(T)
        /\ \A u \in Seq(S), e \in S : Each(Append(u, e), F) = Each(u, F) \o F[e]
    <2>1. EachRules(S, T, F)
      BY EachSteps
    <2> QED BY <2>1 DEF EachRules
  <1>2. /\ Each(<<>>, G) = <<>>
        /\ \A t \in Seq(T) : Each(t, G) \in Seq(U)
    <2>1. EachRules(T, U, G)
      BY EachSteps
    <2> QED BY <2>1 DEF EachRules
  <1>3. H \in [S -> Seq(U)]
    BY <1>2
  <1>4. /\ Each(<<>>, H) = <<>>
        /\ \A u \in Seq(S), e \in S : Each(Append(u, e), H) = Each(u, H) \o H[e]
    <2> HIDE DEF H
    <2>1. EachRules(S, U, H)
      BY <1>3, EachSteps
    <2> QED BY <2>1 DEF EachRules
  <1>5. 0 \in D
    <2> SUFFICES ASSUME NEW u \in Seq(S), Len(u) = 0
                 PROVE  Each(Each(u, F), G) = Each(u, H)
      OBVIOUS
    <2>1. u = <<>>
      OBVIOUS
    <2> QED BY <1>1, <1>2, <1>4, <2>1
  <1>6. ASSUME NEW n \in 0 .. Len(s), n < Len(s), n \in D
        PROVE  n + 1 \in D
    <2> SUFFICES ASSUME NEW u \in Seq(S), Len(u) = n + 1
                 PROVE  Each(Each(u, F), G) = Each(u, H)
      BY <1>6
    <2>1. n \in Nat
      OBVIOUS
    <2>2. PICK v \in Seq(S), e \in S : u = Append(v, e) /\ Len(v) = n
      BY <2>1, AppendSplit
    <2>3. Each(Each(v, F), G) = Each(v, H)
      BY <1>6, <2>2
    <2>4. Each(u, F) = Each(v, F) \o F[e] /\ Each(v, F) \in Seq(T) /\ F[e] \in Seq(T)
      BY <1>1, <2>2
    <2>5. Each(Each(v, F) \o F[e], G) = Each(Each(v, F), G) \o Each(F[e], G)
      <3> DEFINE p == Each(v, F)
                 q == F[e]
      <3>1. p \in Seq(T) /\ q \in Seq(T)
        BY <2>4
      <3> HIDE DEF p, q, D, H
      <3>2. G \in [T -> Seq(U)]
        OBVIOUS
      <3>3. Each(p \o q, G) = Each(p, G) \o Each(q, G)
        BY <3>1, <3>2, EachConcat, ZenonT(60)
      <3> QED BY <3>3 DEF p, q
    <2>6. H[e] = Each(F[e], G)
      OBVIOUS
    <2>7. Each(u, H) = Each(v, H) \o H[e]
      BY <1>4, <2>2
    <2> HIDE DEF H
    <2> QED BY <2>3, <2>4, <2>5, <2>6, <2>7
  <1>7. Len(s) \in Nat
    OBVIOUS
  <1>8. \A n \in 0 .. Len(s) : n \in D
    <2> HIDE DEF D
    <2> QED BY <1>5, <1>6, <1>7, UpTo
  <1> HIDE DEF H
  <1>9. Len(s) \in D
    <2> HIDE DEF D
    <2> QED BY <1>7, <1>8
  <1>10. Each(Each(s, F), G) = Each(s, H)
    BY <1>9
  <1> QED BY <1>10 DEF H, Composes

\* A text whose tokens are replaced by themselves stays.
Stays(S, F, s) == Each(s, F) = s

\* That is so where the tokens of the text are.
LEMMA EachSame ==
    ASSUME NEW S, NEW F \in [S -> Seq(S)], NEW s \in Seq(S),
           \A n \in DOMAIN s : F[s[n]] = <<s[n]>>
    PROVE  Stays(S, F, s)
  <1> DEFINE D == {n \in 0 .. Len(s) : Each(SubSeq(s, 1, n), F) = SubSeq(s, 1, n)}
  <1>1. /\ Each(<<>>, F) = <<>>
        /\ \A u \in Seq(S), e \in S : Each(Append(u, e), F) = Each(u, F) \o F[e]
    <2>1. EachRules(S, S, F)
      BY EachSteps
    <2> QED BY <2>1 DEF EachRules
  <1>2. 0 \in D
    <2>1. SubSeq(s, 1, 0) = <<>> /\ 0 \in 0 .. Len(s)
      OBVIOUS
    <2> QED BY <1>1, <2>1
  <1>3. ASSUME NEW n \in 0 .. Len(s), n < Len(s), n \in D
        PROVE  n + 1 \in D
    <2> DEFINE u == SubSeq(s, 1, n)
    <2>1. u \in Seq(S) /\ s[n + 1] \in S /\ n + 1 \in 0 .. Len(s) /\ n + 1 \in DOMAIN s
      BY <1>3
    <2>2. SubSeq(s, 1, n + 1) = Append(u, s[n + 1])
      <3>1. SubSeq(s, 1, n + 1) \in Seq(S) /\ Len(SubSeq(s, 1, n + 1)) = n + 1
        BY <1>3
      <3>2. Append(u, s[n + 1]) \in Seq(S) /\ Len(Append(u, s[n + 1])) = n + 1
        BY <1>3
      <3>3. \A i \in 1 .. n + 1 : SubSeq(s, 1, n + 1)[i] = Append(u, s[n + 1])[i]
        BY <1>3
      <3> HIDE DEF u
      <3> QED BY <3>1, <3>2, <3>3, SeqEqual
    <2>3. Each(u, F) = u
      BY <1>3
    <2> HIDE DEF u
    <2>4. Each(Append(u, s[n + 1]), F) = u \o F[s[n + 1]]
      BY <1>1, <2>1, <2>3
    <2>5. F[s[n + 1]] = <<s[n + 1]>>
      BY <2>1
    <2>6. u \o <<s[n + 1]>> = Append(u, s[n + 1])
      BY <2>1
    <2> QED BY <2>1, <2>2, <2>4, <2>5, <2>6
  <1>4. Len(s) \in Nat
    OBVIOUS
  <1>5. \A n \in 0 .. Len(s) : n \in D
    <2> HIDE DEF D
    <2> QED BY <1>2, <1>3, <1>4, UpTo
  <1>6. SubSeq(s, 1, Len(s)) = s
    BY SubSeqFull
  <1>7. Len(s) \in D
    <2> HIDE DEF D
    <2> QED BY <1>4, <1>5
  <1> QED BY <1>6, <1>7 DEF Stays

-----------------------------------------------------------------------------
(* Placeholders                                                            *)

\* The words of a condition, which are strings, though the provers are not
\* told so, and all other tokens
Language == {"or", "and", "not", "steps", ".", "result", "length", ">", "<",
             "=", "contains", "==", "!=", Quote}
Token == STRING \cup Language
Texts == Seq(Token)

\* What the assumptions call texts are texts.
LEMMA StringTexts ==
    Seq(STRING) \subseteq Texts
  BY SeqMonotonic DEF Texts, Token

\* The replacement of one placeholder, and of those of all names in X
Filling(x, text) == [t \in Token |-> IF t = Place[x] THEN text ELSE <<t>>]

\* All names of X at once
Filled(X, values) ==
    [t \in Token |->
       IF \E x \in X : Place[x] = t THEN values[CHOOSE x \in X : Place[x] = t] ELSE <<t>>]

\* No two names have one placeholder.
Apart(X) == \A x, y \in X : Place[x] = Place[y] => x = y

\* No value holds the placeholder of a name.
PlainIn(X, values) ==
    \A x, y \in X : \A n \in DOMAIN values[x] : values[x][n] # Place[y]

\* A token is a sequence of length one.
LEMMA OneToken ==
    ASSUME NEW S, NEW t \in S
    PROVE  <<t>> \in Seq(S)
  OBVIOUS

\* The replacement of one placeholder turns tokens into texts.
LEMMA FillingType ==
    ASSUME NEW x, NEW text \in Texts
    PROVE  Filling(x, text) \in [Token -> Texts]
  <1>1. \A t \in Token : <<t>> \in Seq(Token)
    BY OneToken
  <1> QED BY <1>1 DEF Filling, Texts

\* What the placeholder of a name is filled with, and any other token
FillsIn(X, values) ==
    /\ Filled(X, values) \in [Token -> Texts]
    /\ \A t \in Token, x \in X : Place[x] = t => Filled(X, values)[t] = values[x]
    /\ \A t \in Token : (\A x \in X : Place[x] # t) => Filled(X, values)[t] = <<t>>

\* Where no two names have one placeholder, there is no doubt about it.
LEMMA FilledIs ==
    ASSUME NEW X, NEW values, Apart(X), \A x \in X : values[x] \in Texts
    PROVE  FillsIn(X, values)
  <1>1. ASSUME NEW t \in Token, NEW x \in X, Place[x] = t
        PROVE  Filled(X, values)[t] = values[x]
    <2> DEFINE y == CHOOSE z \in X : Place[z] = t
    <2>1. y \in X /\ Place[y] = t
      BY <1>1
    <2>2. y = x
      BY <1>1, <2>1 DEF Apart
    <2> HIDE DEF y
    <2>3. Filled(X, values)[t] = values[y]
      BY <1>1 DEF Filled, y
    <2> QED BY <2>2, <2>3
  <1>2. ASSUME NEW t \in Token, \A x \in X : Place[x] # t
        PROVE  Filled(X, values)[t] = <<t>>
    BY <1>2 DEF Filled
  <1>3. Filled(X, values) = [t \in Token |-> Filled(X, values)[t]]
    BY DEF Filled
  <1>4. ASSUME NEW t \in Token
        PROVE  Filled(X, values)[t] \in Texts
    <2>1. CASE \E x \in X : Place[x] = t
      BY <1>1, <2>1
    <2>2. CASE \A x \in X : Place[x] # t
      <3>1. <<t>> \in Seq(Token)
        BY OneToken
      <3> QED BY <1>2, <2>2, <3>1 DEF Texts
    <2> QED BY <2>1, <2>2
  <1>5. Filled(X, values) \in [Token -> Texts]
    BY <1>3, <1>4
  <1> QED BY <1>1, <1>2, <1>5 DEF FillsIn

\* Replaced replaces every token by a text.
LEMMA ReplacedIs ==
    ASSUME NEW s \in Texts, NEW x, NEW text \in Texts
    PROVE  /\ Replaced(s, x, text) = Each(s, Filling(x, text))
           /\ Replaced(s, x, text) \in Texts
  <1> DEFINE F == Filling(x, text)
  <1>1. F \in [Token -> Texts]
    BY FillingType
  <1>2. \A i \in DOMAIN s : s[i] \in Token
    BY DEF Texts
  <1>3. \A i \in DOMAIN s : F[s[i]] = IF s[i] = Place[x] THEN text ELSE <<s[i]>>
    BY <1>2 DEF Filling
  <1> HIDE DEF F
  <1>4. [i \in DOMAIN s |-> IF s[i] = Place[x] THEN text ELSE <<s[i]>>]
           = [i \in DOMAIN s |-> F[s[i]]]
    BY <1>3
  <1>5. Replaced(s, x, text) = Each(s, F)
    BY <1>4 DEF Replaced, Each
  <1>6. EachRules(Token, Token, F)
    BY <1>1, EachSteps DEF Texts
  <1>7. Each(s, F) \in Texts
    BY <1>6 DEF EachRules, Texts
  <1> QED BY <1>5, <1>7 DEF F

\* The texts that ReplacedAll goes through
Replacements(s, order, values) ==
    {f \in [0 .. Len(order) -> Texts] :
       /\ f[0] = s
       /\ \A n \in 1 .. Len(order) :
             f[n] = Replaced(f[n - 1], order[n], values[order[n]])}

\* ReplacedAll ends with the last of them, although what its function is
\* for other arguments is not known.
LEMMA ReplacedAllWork ==
    ASSUME NEW s \in Texts, NEW X, NEW order \in Seq(X), NEW values,
           \A x \in X : values[x] \in Texts
    PROVE  \E f : /\ f \in Replacements(s, order, values)
                  /\ ReplacedAll(s, order, values) = f[Len(order)]
  <1> DEFINE N == Len(order)
             Body(f, n) == IF n = 0 THEN s
                           ELSE Replaced(f[n - 1], order[n], values[order[n]])
             Solves(f) == f = [n \in 0 .. N |-> Body(f, n)]
  <1>1. N \in Nat /\ \A n \in 1 .. N : order[n] \in X
    OBVIOUS
  <1>2. \E f : Solves(f)
    <2> DEFINE G == [n \in 1 .. N |->
                       [v \in Texts |-> Replaced(v, order[n], values[order[n]])]]
    <2>1. G \in [1 .. N -> [Texts -> Texts]]
      <3> HIDE DEF N
      <3>1. \A n \in 1 .. N, v \in Texts : Replaced(v, order[n], values[order[n]]) \in Texts
        BY <1>1, ReplacedIs
      <3> QED BY <3>1
    <2> HIDE DEF N
    <2>2. PICK f : f \in Courses(Texts, s, N, G)
      <3> HIDE DEF G
      <3> QED BY <1>1, <2>1, Recursion
    <2>3. /\ f \in [0 .. N -> Texts]
          /\ f[0] = s
          /\ \A n \in 1 .. N : f[n] = G[n][f[n - 1]]
      <3> HIDE DEF G
      <3> QED BY <2>2 DEF Courses
    <2>4. ASSUME NEW n \in 0 .. N
          PROVE  f[n] = Body(f, n)
      <3>1. CASE n = 0
        BY <2>3, <3>1
      <3>2. CASE n # 0
        <4>1. n \in 1 .. N /\ n - 1 \in 0 .. N
          BY <1>1, <3>2
        <4>2. f[n - 1] \in Texts
          <5>1. f \in [0 .. N -> Texts]
            BY <2>3
          <5> QED BY <4>1, <5>1
        <4>3. G[n][f[n - 1]] = Replaced(f[n - 1], order[n], values[order[n]])
          BY <4>1, <4>2
        <4> HIDE DEF G
        <4> QED BY <2>3, <3>2, <4>1, <4>3
      <3> QED BY <3>1, <3>2
    <2> HIDE DEF Body, G
    <2>5. f = [n \in 0 .. N |-> f[n]]
      <3>1. f \in [0 .. N -> Texts]
        BY <2>3
      <3> QED BY <3>1
    <2>6. Solves(f)
      BY <2>4, <2>5
    <2> HIDE DEF Solves
    <2> QED BY <2>6
  <1> DEFINE F == CHOOSE f : Solves(f)
  <1>3. ReplacedAll(s, order, values) = F[N]
    BY DEF ReplacedAll
  <1>4. Solves(F)
    <2> HIDE DEF Solves
    <2> QED BY <1>2
  <1> HIDE DEF F, N
  <1>5. \A n \in 0 .. N : F[n] = Body(F, n)
    <2> HIDE DEF Body
    <2> QED BY <1>4
  <1>6. F[0] = s /\ \A n \in 1 .. N : F[n] = Replaced(F[n - 1], order[n], values[order[n]])
    <2>1. 0 \in 0 .. N /\ \A n \in 1 .. N : n \in 0 .. N /\ n # 0
      BY <1>1
    <2> HIDE DEF Solves
    <2> QED BY <1>5, <2>1
  <1>7. F \in [0 .. N -> Texts]
    <2> DEFINE D == {n \in 0 .. N : F[n] \in Texts}
    <2>1. 0 \in D
      BY <1>1, <1>6
    <2>2. ASSUME NEW n \in 0 .. N, n < N, n \in D
          PROVE  n + 1 \in D
      <3>1. n + 1 \in 1 .. N /\ n + 1 \in 0 .. N /\ (n + 1) - 1 = n
        BY <1>1, <2>2
      <3>2. F[n] \in Texts
        BY <2>2
      <3>3. F[n + 1] = Replaced(F[n], order[n + 1], values[order[n + 1]])
        BY <1>6, <3>1
      <3>4. values[order[n + 1]] \in Texts
        BY <1>1, <3>1
      <3>5. F[n + 1] \in Texts
        BY <3>2, <3>3, <3>4, ReplacedIs
      <3> QED BY <3>1, <3>5
    <2>3. \A n \in 0 .. N : n \in D
      <3> HIDE DEF D, Solves
      <3> QED BY <1>1, <2>1, <2>2, UpTo
    <2>4. F = [n \in 0 .. N |-> F[n]]
      <3> HIDE DEF Body
      <3> QED BY <1>4, Zenon
    <2> HIDE DEF Solves
    <2> QED BY <2>3, <2>4
  <1> HIDE DEF Solves
  <1> QED BY <1>3, <1>6, <1>7 DEF Replacements, N

\* In whatever order they come, the placeholders of X are each replaced
\* once, if no value holds one.
LEMMA ReplacedAllIs ==
    ASSUME NEW s \in Texts, NEW X, NEW order \in Seq(X), NEW values,
           \A x \in X : values[x] \in Texts,
           Apart(X), PlainIn(X, values),
           \A x \in X : \E k \in 1 .. Len(order) : order[k] = x
    PROVE  ReplacedAll(s, order, values) = Each(s, Filled(X, values))
  <1> DEFINE N == Len(order)
             Y(n) == {order[k] : k \in 1 .. n}
             F(n) == Filled(Y(n), values)
  <1>1. N \in Nat /\ \A k \in 1 .. N : order[k] \in X
    OBVIOUS
  <1>2. PICK f : f \in Replacements(s, order, values) /\ ReplacedAll(s, order, values) = f[N]
    <2> HIDE DEF Y
    <2> QED BY ReplacedAllWork
  <1>3. /\ f \in [0 .. N -> Texts]
        /\ f[0] = s
        /\ \A n \in 1 .. N : f[n] = Replaced(f[n - 1], order[n], values[order[n]])
    BY <1>2 DEF Replacements
  <1> HIDE DEF N
  <1>4. ASSUME NEW n \in 0 .. N
        PROVE  /\ Y(n) \subseteq X /\ Apart(Y(n)) /\ F(n) \in [Token -> Texts]
               /\ \A t \in Token, x \in Y(n) : Place[x] = t => F(n)[t] = values[x]
               /\ \A t \in Token : (\A x \in Y(n) : Place[x] # t) => F(n)[t] = <<t>>
    <2>1. Y(n) \subseteq X
      BY <1>1
    <2> HIDE DEF Y
    <2>2. Apart(Y(n))
      BY <2>1 DEF Apart
    <2>3. FillsIn(Y(n), values)
      BY <2>1, <2>2, FilledIs
    <2> QED BY <2>1, <2>2, <2>3 DEF FillsIn
  <1> DEFINE D == {n \in 0 .. N : f[n] = Each(s, F(n))}
  <1>5. 0 \in D
    <2>1. Y(0) = {} /\ 0 \in 0 .. N
      BY <1>1
    <2> HIDE DEF Y
    <2>2. F(0) \in [Token -> Texts] /\ \A t \in Token : F(0)[t] = <<t>>
      BY <1>4, <2>1
    <2> HIDE DEF F
    <2>3. \A n \in DOMAIN s : F(0)[s[n]] = <<s[n]>>
      <3>1. \A n \in DOMAIN s : s[n] \in Token
        BY DEF Texts
      <3> QED BY <2>2, <3>1
    <2>4. Each(s, F(0)) = s
      <3>1. Stays(Token, F(0), s)
        BY <2>2, <2>3, EachSame DEF Texts
      <3> QED BY <3>1 DEF Stays
    <2> QED BY <1>3, <2>1, <2>4
  <1>6. ASSUME NEW n \in 0 .. N, n < N, n \in D
        PROVE  n + 1 \in D
    <2> DEFINE x == order[n + 1]
               G == Filling(x, values[x])
    <2>1. n + 1 \in 1 .. N /\ n + 1 \in 0 .. N /\ (n + 1) - 1 = n
      BY <1>1, <1>6
    <2>2. x \in X /\ values[x] \in Texts
      BY <1>1, <2>1
    <2>3. Y(n + 1) = Y(n) \cup {x}
      BY <2>1
    <2> HIDE DEF Y, F, x
    <2>10. /\ \A t \in Token, z \in Y(n + 1) : Place[z] = t => F(n + 1)[t] = values[z]
           /\ \A t \in Token : (\A z \in Y(n + 1) : Place[z] # t) => F(n + 1)[t] = <<t>>
      BY <1>4, <2>1, Zenon DEF F
    <2>4. G \in [Token -> Texts]
      BY <2>2, FillingType
    <2>5. f[n + 1] = Each(f[n], G)
      <3>1. f[n + 1] = Replaced(f[n], x, values[x]) /\ f[n] \in Texts
        BY <1>3, <2>1 DEF x
      <3> QED BY <2>2, <3>1, ReplacedIs
    <2>6. f[n] = Each(s, F(n))
      BY <1>6
    <2> DEFINE H == [t \in Token |-> Each(F(n)[t], G)]
    <2>7. Each(Each(s, F(n)), G) = Each(s, H)
      <3>1. F(n) \in [Token -> Seq(Token)] /\ s \in Seq(Token)
        BY <1>4 DEF Texts, F
      <3>2. G \in [Token -> Seq(Token)]
        BY <2>4 DEF Texts
      <3> HIDE DEF G
      <3>3. Composes(Token, Token, Token, F(n), G, s)
        BY <3>1, <3>2, EachEach
      <3> QED BY <3>3 DEF Composes
    <2>8. ASSUME NEW t \in Token
          PROVE  H[t] = F(n + 1)[t]
      <3>1. EachRules(Token, Token, G)
        <4> HIDE DEF G
        <4> QED BY <2>4, EachSteps DEF Texts
      <3>2. H[t] = Each(F(n)[t], G)
        OBVIOUS
      <3> HIDE DEF H
      <3>3. CASE \E y \in Y(n) : Place[y] = t
        <4>1. PICK y \in Y(n) : Place[y] = t
          BY <3>3
        <4>2. F(n)[t] = values[y] /\ y \in X
          BY <1>4, <4>1 DEF F
        <4>3. F(n + 1)[t] = values[y]
          BY <2>3, <2>10, <4>1
        <4>4. values[y] \in Texts /\ \A i \in DOMAIN values[y] : values[y][i] # Place[x]
          BY <2>2, <4>2 DEF PlainIn
        <4>5. \A i \in DOMAIN values[y] : G[values[y][i]] = <<values[y][i]>>
          <5>1. \A i \in DOMAIN values[y] : values[y][i] \in Token
            BY <4>4 DEF Texts
          <5> QED BY <4>4, <5>1 DEF Filling
        <4>6. Each(values[y], G) = values[y]
          <5> HIDE DEF G
          <5>1. Stays(Token, G, values[y])
            BY <2>4, <4>4, <4>5, EachSame DEF Texts
          <5> QED BY <5>1 DEF Stays
        <4> QED BY <3>2, <4>2, <4>3, <4>6
      <3>4. CASE \A y \in Y(n) : Place[y] # t
        <4>1. F(n)[t] = <<t>>
          BY <1>4, <3>4 DEF F
        <4>2. H[t] = G[t]
          BY <3>1, <3>2, <4>1 DEF EachRules
        <4>3. CASE Place[x] = t
          <5>1. F(n + 1)[t] = values[x]
            BY <2>3, <2>10, <4>3
          <5>2. G[t] = values[x]
            BY <4>3 DEF Filling
          <5> QED BY <4>2, <5>1, <5>2
        <4>4. CASE Place[x] # t
          <5>1. F(n + 1)[t] = <<t>>
            BY <2>3, <2>10, <3>4, <4>4
          <5>2. G[t] = <<t>>
            BY <4>4 DEF Filling
          <5> QED BY <4>2, <5>1, <5>2
        <4> QED BY <4>3, <4>4
      <3> QED BY <3>3, <3>4
    <2>9. H = F(n + 1)
      <3>1. F(n + 1) = [t \in Token |-> F(n + 1)[t]]
        BY <1>4, <2>1 DEF F
      <3> QED BY <2>8, <3>1
    <2> HIDE DEF H, G
    <2> QED BY <2>1, <2>5, <2>6, <2>7, <2>9
  <1>7. \A n \in 0 .. N : n \in D
    <2> HIDE DEF D
    <2> QED BY <1>1, <1>5, <1>6, UpTo
  <1>8. f[N] = Each(s, F(N))
    <2> HIDE DEF F
    <2>1. N \in 0 .. N
      BY <1>1
    <2> QED BY <1>7, <2>1
  <1>9. Y(N) = X
    BY <1>1 DEF N
  <1> HIDE DEF Y
  <1> QED BY <1>2, <1>8, <1>9

-----------------------------------------------------------------------------
(* Orders of a finite set, and its greatest number                         *)

\* An order of a finite set has all its elements.
OrderOf(S, order) ==
    order \in Seq(S) /\ \A x \in S : \E k \in 1 .. Len(order) : order[k] = x

\* SetToSeqs has nothing but orders.
LEMMA OrderCovers ==
    ASSUME NEW S, IsFiniteSet(S), NEW order \in SetToSeqs(S)
    PROVE  OrderOf(S, order)
  <1> DEFINE N == Cardinality(S)
  <1>1. N \in Nat
    BY FS_CardinalityType
  <1>2. /\ order \in [1 .. N -> S]
        /\ \A i, j \in 1 .. N : i # j => order[i] # order[j]
    BY DEF SetToSeqs
  <1>3. Cardinality(1 .. N) = N
    <2>1. 1 \in Int /\ N \in Int /\ (1 > N => N = 0) /\ N - 1 + 1 = N
      BY <1>1
    <2> HIDE DEF N
    <2> QED BY <2>1, FS_Interval
  <1>4. order \in Injection(1 .. N, S)
    BY <1>2 DEF Injection, IsInjective
  <1>5. order \in Surjection(1 .. N, S)
    <2>1. Cardinality(1 .. N) = Cardinality(S)
      BY <1>3
    <2> HIDE DEF N
    <2> QED BY <1>4, <2>1, FS_Injection
  <1> HIDE DEF N
  <1>6. order \in Seq(S) /\ Len(order) = N
    BY <1>1, <1>2
  <1> QED BY <1>5, <1>6 DEF OrderOf, Surjection

\* The greatest of some of the numbers up to N
LEMMA Greatest ==
    ASSUME NEW N \in Nat, NEW T, T \subseteq 1 .. N, T # {}
    PROVE  Max(T) \in T /\ \A n \in T : n <= Max(T)
  <1> DEFINE U == {N - n : n \in T}
  <1>1. PICK m \in U : \A n \in U : m <= n
    <2>1. \A n \in T : N - n \in Nat
      OBVIOUS
    <2>2. U \subseteq Nat /\ U # {}
      BY <2>1
    <2> HIDE DEF U
    <2> QED BY <2>2, Least
  <1>2. PICK x \in T : m = N - x
    OBVIOUS
  <1>3. \A n \in T : x >= n
    <2> TAKE n \in T
    <2>1. N - n \in U
      OBVIOUS
    <2>2. N - x <= N - n
      <3> HIDE DEF U
      <3> QED BY <1>1, <1>2, <2>1
    <2>3. x \in Nat /\ n \in Nat
      OBVIOUS
    <2> QED BY <2>2, <2>3
  <1>4. \E y \in T : \A n \in T : y >= n
    BY <1>3
  <1> DEFINE y == CHOOSE z \in T : \A n \in T : z >= n
  <1>5. y \in T /\ \A n \in T : y >= n
    BY <1>4
  <1>6. Max(T) = y
    BY DEF Max
  <1> HIDE DEF y
  <1>7. \A n \in T : n <= y
    BY <1>5
  <1> QED BY <1>5, <1>6, <1>7

-----------------------------------------------------------------------------
(* The state of a workflow                                                 *)

\* A step has an answer when it has run; the active one is the current one
\* until then.
Shape ==
    /\ steps \in Skill
    /\ current \in 1 .. Len(steps) + 1 /\ active \in 0 .. Len(steps)
    /\ pc \in {"pre", "step", "over", "failed"}
    /\ DOMAIN answer \subseteq 1 .. current - 1
    /\ IF pc \in {"step", "failed"} THEN active = current
       ELSE active < current /\ (active # 0 => active \in DOMAIN answer)

\* The steps with an answer whose id is x
With(x) == {j \in DOMAIN answer : steps[j].id = x}

\* The results are those of the steps that have run, the last of each id.
Recorded ==
    /\ answer \in [DOMAIN answer -> Result]
    /\ DOMAIN stepResults = {steps[j].id : j \in DOMAIN answer}
    /\ \A x \in DOMAIN stepResults : stepResults[x] = answer[Max(With(x))]

\* What the assumptions say of the steps of a skill
LEMMA SkillType ==
    ASSUME NEW skill \in Skill
    PROVE  /\ Len(skill) \in Nat
           /\ DOMAIN skill = 1 .. Len(skill)
           /\ \A i \in 1 .. Len(skill) :
                 skill[i].id \in DOMAIN Place /\ skill[i].args \in Texts
  <1>1. skill \in Seq(Range(skill))
    BY WorkflowAssumption
  <1>2. Len(skill) \in Nat /\ DOMAIN skill = 1 .. Len(skill)
    BY <1>1
  <1>3. \A i \in 1 .. Len(skill) : skill[i] \in Range(skill)
    BY <1>1
  <1> QED BY <1>2, <1>3, WorkflowAssumption, StringTexts

\* Every step that is answered has a last step of its id, whose answer is
\* the result.
LEMMA WithMax ==
    ASSUME Shape, NEW x, With(x) # {}
    PROVE  Max(With(x)) \in With(x) /\ \A j \in With(x) : j <= Max(With(x))
  <1>1. current \in Nat /\ Len(steps) \in Nat
    BY SkillType DEF Shape
  <1>2. With(x) \subseteq 1 .. current - 1 /\ current - 1 \in Nat
    BY <1>1 DEF Shape, With
  <1> QED BY <1>2, Greatest

\* A result is an answer of the last step with its id.
LEMMA ResultIs ==
    ASSUME Shape, Recorded, NEW x \in DOMAIN stepResults
    PROVE  /\ x \in DOMAIN Place
           /\ With(x) # {}
           /\ stepResults[x] \in Result
           /\ stepResults[x] \in Texts
  <1>1. PICK j \in DOMAIN answer : x = steps[j].id
    BY DEF Recorded
  <1>2. j \in 1 .. Len(steps)
    BY SkillType DEF Shape
  <1>3. x \in DOMAIN Place
    BY <1>1, <1>2, SkillType DEF Shape
  <1>4. With(x) # {}
    BY <1>1 DEF With
  <1>5. Max(With(x)) \in DOMAIN answer
    BY <1>4, WithMax DEF With
  <1>6. stepResults[x] \in Result
    BY <1>5 DEF Recorded
  <1>7. stepResults[x] \in Texts
    BY <1>6, WorkflowAssumption, StringTexts
  <1> QED BY <1>3, <1>4, <1>6, <1>7

-----------------------------------------------------------------------------
(* What a step is given                                                    *)

\* The text that stands for a token in step i
ValueAt(i, token) ==
    LET ids == {j \in DOMAIN answer : Place[steps[j].id] = token /\ j < i}
        names == {x \in DOMAIN Variables : Place[x] = token}
    IN  IF ids # {} THEN answer[Max(ids)]
        ELSE IF names # {} THEN Variables[CHOOSE x \in names : TRUE]
        ELSE <<token>>

\* In whatever order the results and the variables are read, the step gets
\* its arguments with the text for every token.
LEMMA GivenIs ==
    ASSUME Shape, Recorded, Plain(Result), Plain(Range(Variables)),
           NEW i \in current .. Len(steps),
           NEW order \in SetToSeqs(DOMAIN stepResults),
           NEW names \in SetToSeqs(DOMAIN Variables)
    PROVE  Interpolated(steps[i].args, stepResults, order, Variables, names)
             = FlattenSeq([n \in DOMAIN steps[i].args |-> ValueAt(i, steps[i].args[n])])
  <1> DEFINE args == steps[i].args
             X == DOMAIN stepResults
             Y == DOMAIN Variables
             F == Filled(X, stepResults)
             G == Filled(Y, Variables)
             H == [t \in Token |-> Each(F[t], G)]
  <1>1. current \in Nat /\ Len(steps) \in Nat /\ i \in 1 .. Len(steps) /\ args \in Texts
    <2>1. current \in Nat /\ current >= 1 /\ Len(steps) \in Nat
      BY SkillType DEF Shape
    <2>2. i \in 1 .. Len(steps)
      BY <2>1
    <2> QED BY <2>1, <2>2, SkillType DEF Shape
  <1>2. /\ \A x \in X : stepResults[x] \in Texts /\ stepResults[x] \in Result
        /\ X \subseteq DOMAIN Place /\ Apart(X) /\ PlainIn(X, stepResults)
    <2>1. \A x \in X : x \in DOMAIN Place /\ stepResults[x] \in Texts /\ stepResults[x] \in Result
      BY ResultIs
    <2> HIDE DEF X
    <2>2. Apart(X)
      BY <2>1, PlaceAssumption DEF Apart
    <2>3. PlainIn(X, stepResults)
      BY <2>1 DEF PlainIn, Plain
    <2> QED BY <2>1, <2>2, <2>3
  <1>3. /\ \A x \in Y : Variables[x] \in Texts
        /\ Y \subseteq DOMAIN Place /\ Apart(Y) /\ PlainIn(Y, Variables)
        /\ IsFiniteSet(Y)
    <2>1. \A x \in Y : Variables[x] \in Range(Variables)
      BY DEF Range
    <2>2. \A x \in Y : x \in DOMAIN Place /\ Variables[x] \in Texts
      BY <2>1, WorkflowAssumption, StringTexts
    <2>3. IsFiniteSet(Y)
      BY WorkflowAssumption
    <2> HIDE DEF Y
    <2>4. Apart(Y)
      BY <2>2, PlaceAssumption DEF Apart
    <2>5. PlainIn(Y, Variables)
      BY <2>1, <2>2 DEF PlainIn, Plain
    <2> QED BY <2>2, <2>3, <2>4, <2>5
  <1>4. IsFiniteSet(X)
    <2>1. IsFiniteSet(DOMAIN answer)
      <3>1. DOMAIN answer \subseteq 1 .. current - 1
        BY DEF Shape
      <3>2. IsFiniteSet(1 .. current - 1)
        <4>1. 1 \in Int /\ current - 1 \in Int
          BY <1>1
        <4> QED BY <4>1, FS_Interval
      <3> QED BY <3>1, <3>2, FS_Subset
    <2> DEFINE id == [j \in DOMAIN answer |-> steps[j].id]
    <2>2. X = {id[j] : j \in DOMAIN answer}
      BY DEF Recorded
    <2>3. id \in Surjection(DOMAIN answer, X)
      BY <2>2 DEF Surjection
    <2> HIDE DEF id, X
    <2> QED BY <2>1, <2>3, FS_Surjection
  <1>5. FillsIn(X, stepResults) /\ FillsIn(Y, Variables)
    <2> HIDE DEF X, Y
    <2> QED BY <1>2, <1>3, FilledIs
  <1>6. ReplacedAll(args, order, stepResults) = Each(args, F)
    <2>1. OrderOf(X, order)
      <3>1. order \in SetToSeqs(X)
        OBVIOUS
      <3> HIDE DEF X
      <3> QED BY <1>4, <3>1, OrderCovers
    <2> HIDE DEF X, args
    <2> QED BY <1>1, <1>2, <2>1, ReplacedAllIs DEF OrderOf
  <1>7. F \in [Token -> Texts] /\ G \in [Token -> Texts]
    BY <1>5 DEF FillsIn
  <1>8. EachRules(Token, Token, F) /\ EachRules(Token, Token, G)
    <2> HIDE DEF F, G
    <2> QED BY <1>7, EachSteps DEF Texts
  <1>9. Interpolated(args, stepResults, order, Variables, names) = Each(Each(args, F), G)
    <2>1. OrderOf(Y, names)
      <3>1. names \in SetToSeqs(Y)
        OBVIOUS
      <3> HIDE DEF Y
      <3> QED BY <1>3, <3>1, OrderCovers
    <2>2. Each(args, F) \in Texts
      <3> HIDE DEF F, args
      <3> QED BY <1>1, <1>8 DEF EachRules, Texts
    <2>3. ReplacedAll(Each(args, F), names, Variables) = Each(Each(args, F), G)
      <3> HIDE DEF F, Y, args
      <3> QED BY <1>3, <2>1, <2>2, ReplacedAllIs DEF OrderOf
    <2> HIDE DEF F, G
    <2> QED BY <1>6, <2>3 DEF Interpolated
  <1>10. Each(Each(args, F), G) = Each(args, H)
    <2>1. args \in Seq(Token) /\ F \in [Token -> Seq(Token)] /\ G \in [Token -> Seq(Token)]
      BY <1>1, <1>7 DEF Texts
    <2> HIDE DEF F, G, args
    <2>2. Composes(Token, Token, Token, F, G, args)
      BY <2>1, EachEach
    <2> QED BY <2>2 DEF Composes
  <1>11. ASSUME NEW t \in Token
         PROVE  H[t] = ValueAt(i, t)
    <2> DEFINE J == {j \in DOMAIN answer : Place[steps[j].id] = t /\ j < i}
               Names == {x \in Y : Place[x] = t}
    <2>1. H[t] = Each(F[t], G)
      OBVIOUS
    <2>2. CASE J # {}
      <3>1. PICK j \in J : TRUE
        BY <2>2
      <3> DEFINE x == steps[j].id
      <3>2. x \in X /\ Place[x] = t
        BY <3>1 DEF Recorded
      <3>3. J = With(x)
        <4>1. \A k \in DOMAIN answer : k < i /\ steps[k].id \in X
          BY <1>1 DEF Shape, Recorded
        <4>2. \A k \in DOMAIN answer : Place[steps[k].id] = t <=> steps[k].id = x
          <5> HIDE DEF X, x
          <5> QED BY <1>2, <3>2, <4>1 DEF Apart
        <4> HIDE DEF x
        <4> QED BY <4>1, <4>2 DEF With
      <3> HIDE DEF x
      <3>4. F[t] = stepResults[x] /\ stepResults[x] = answer[Max(J)]
        BY <1>5, <3>2, <3>3 DEF FillsIn, Recorded
      <3>5. stepResults[x] \in Texts /\ stepResults[x] \in Result /\ x \in DOMAIN Place
        BY <1>2, <3>2
      <3>6. Each(stepResults[x], G) = stepResults[x]
        <4> DEFINE r == stepResults[x]
        <4>1. \A n \in DOMAIN r : r[n] \in Token
          BY <3>5 DEF Texts
        <4>2. \A n \in DOMAIN r, y \in Y : r[n] # Place[y]
          BY <1>3, <3>5 DEF Plain
        <4> HIDE DEF r, Y
        <4>3. \A n \in DOMAIN r : G[r[n]] = <<r[n]>>
          BY <1>5, <4>1, <4>2 DEF FillsIn
        <4>4. r \in Seq(Token) /\ G \in [Token -> Seq(Token)]
          BY <1>7, <3>5 DEF r, Texts
        <4> HIDE DEF G
        <4>5. Stays(Token, G, r)
          BY <4>3, <4>4, EachSame
        <4> QED BY <4>5 DEF Stays, r
      <3> HIDE DEF F, G, H
      <3>7. ValueAt(i, t) = answer[Max(J)]
        BY <2>2 DEF ValueAt
      <3> QED BY <2>1, <3>4, <3>6, <3>7
    <2>3. CASE J = {}
      <3>1. \A x \in X : Place[x] # t
        <4>1. \A k \in DOMAIN answer : k < i
          BY <1>1 DEF Shape
        <4> QED BY <2>3, <4>1 DEF Recorded
      <3>2. F[t] = <<t>>
        <4> HIDE DEF X
        <4> QED BY <1>5, <3>1 DEF FillsIn
      <3>3. H[t] = G[t]
        <4> HIDE DEF H, F, G
        <4> QED BY <1>8, <2>1, <3>2 DEF EachRules
      <3> HIDE DEF H, F, J
      <3>4. CASE Names # {}
        <4> DEFINE x == CHOOSE z \in Names : TRUE
        <4>1. x \in Names
          BY <3>4
        <4>2. ValueAt(i, t) = Variables[x]
          BY <2>3, <3>4 DEF ValueAt, J
        <4> HIDE DEF x
        <4>3. x \in Y /\ Place[x] = t
          BY <4>1
        <4>4. G[t] = Variables[x]
          <5> HIDE DEF Y
          <5> QED BY <1>5, <4>3 DEF FillsIn
        <4> HIDE DEF G
        <4> QED BY <3>3, <4>2, <4>4
      <3>5. CASE Names = {}
        <4>1. ValueAt(i, t) = <<t>>
          BY <2>3, <3>5 DEF ValueAt, J
        <4>2. \A x \in Y : Place[x] # t
          BY <3>5
        <4>3. G[t] = <<t>>
          <5> HIDE DEF Y
          <5> QED BY <1>5, <4>2 DEF FillsIn
        <4> HIDE DEF G
        <4> QED BY <3>3, <4>1, <4>3
      <3> QED BY <3>4, <3>5
    <2> QED BY <2>2, <2>3
  <1>12. Each(args, H) = FlattenSeq([n \in DOMAIN args |-> ValueAt(i, args[n])])
    <2>1. \A n \in DOMAIN args : args[n] \in Token
      BY <1>1 DEF Texts
    <2> HIDE DEF H, args
    <2>2. \A n \in DOMAIN args : H[args[n]] = ValueAt(i, args[n])
      BY <1>11, <2>1
    <2>3. [n \in DOMAIN args |-> H[args[n]]] = [n \in DOMAIN args |-> ValueAt(i, args[n])]
      BY <2>2
    <2> QED BY <2>3 DEF Each
  <1> HIDE DEF F, G, H
  <1> QED BY <1>9, <1>10, <1>12

-----------------------------------------------------------------------------
(* The invariant                                                           *)

\* The first state has the shape and no results.
LEMMA ShapeInit ==
    ASSUME Init
    PROVE  Shape /\ Recorded
  <1>1. Len(steps) \in Nat /\ steps \in Skill
    BY SkillType DEF Init
  <1>2. DOMAIN answer = {} /\ DOMAIN stepResults = {} /\ answer = [x \in {} |-> <<>>]
    BY DEF Init, Nothing
  <1>3. Shape
    BY <1>1, <1>2 DEF Init, Shape
  <1>4. Recorded
    BY <1>2 DEF Recorded
  <1> QED BY <1>3, <1>4

\* What a step that runs to its end changes
LEMMA PostStepIs ==
    ASSUME Shape, PostStep
    PROVE  \E r \in Result :
              /\ active \in 1 .. Len(steps) /\ active \notin DOMAIN answer
              /\ active = current /\ current' = active + 1
              /\ steps' = steps /\ active' = active /\ pc' # "step"
              /\ answer' = [j \in DOMAIN answer \cup {active} |->
                               IF j = active THEN r ELSE answer[j]]
              /\ stepResults' = [x \in DOMAIN stepResults \cup {steps[active].id} |->
                                    IF x = steps[active].id THEN r ELSE stepResults[x]]
  <1>1. PICK r \in Result :
           /\ stepResults' = Put(stepResults, steps[active].id, r)
           /\ answer' = Put(answer, active, r)
    BY DEF PostStep
  <1>2. current \in Nat /\ Len(steps) \in Nat /\ active = current
        /\ current >= 1 /\ active <= Len(steps)
    BY SkillType DEF Shape, PostStep
  <1>3. active \in 1 .. Len(steps) /\ active \notin DOMAIN answer
    BY <1>2 DEF Shape
  <1>4. answer' = [j \in DOMAIN answer \cup {active} |->
                      IF j = active THEN r ELSE answer[j]]
    BY <1>1 DEF Put
  <1>5. stepResults' = [x \in DOMAIN stepResults \cup {steps[active].id} |->
                           IF x = steps[active].id THEN r ELSE stepResults[x]]
    BY <1>1 DEF Put
  <1>6. current' = active + 1 /\ steps' = steps /\ active' = active /\ pc' # "step"
    BY DEF PostStep
  <1> QED BY <1>2, <1>3, <1>4, <1>5, <1>6

\* Every step keeps the shape.
LEMMA ShapeNext ==
    ASSUME Shape, [Next]_vars
    PROVE  Shape'
  <1>1. current \in Nat /\ current >= 1 /\ current <= Len(steps) + 1
        /\ Len(steps) \in Nat /\ active \in Nat
    BY SkillType DEF Shape
  <1>2. CASE PreStep
    <2>1. PICK i \in current .. Len(steps) : current' = i /\ active' = i
      BY <1>2 DEF PreStep
    <2>2. pc' = "step" /\ steps' = steps /\ answer' = answer
      BY <1>2 DEF PreStep
    <2>3. DOMAIN answer \subseteq 1 .. i - 1
      BY <1>1, <2>1 DEF Shape
    <2>4. i \in 1 .. Len(steps) + 1 /\ i \in 0 .. Len(steps)
      BY <1>1, <2>1
    <2> QED BY <2>1, <2>2, <2>3, <2>4 DEF Shape
  <1>3. CASE NoStepLeft
    <2>1. current' = Len(steps) + 1 /\ pc' = "over" /\ pc = "pre"
          /\ steps' = steps /\ active' = active /\ answer' = answer
      BY <1>3 DEF NoStepLeft
    <2>2. DOMAIN answer \subseteq 1 .. (Len(steps) + 1) - 1
      BY <1>1 DEF Shape
    <2>3. active < current /\ (active # 0 => active \in DOMAIN answer)
      BY <2>1 DEF Shape
    <2>4. Len(steps) + 1 \in 1 .. Len(steps) + 1 /\ active < Len(steps) + 1
      BY <1>1, <2>3
    <2> QED BY <2>1, <2>2, <2>3, <2>4 DEF Shape
  <1>4. CASE PostStep
    <2>1. PICK r \in Result :
             /\ active \in 1 .. Len(steps) /\ active = current /\ current' = active + 1
             /\ steps' = steps /\ active' = active /\ pc' # "step"
             /\ answer' = [j \in DOMAIN answer \cup {active} |->
                              IF j = active THEN r ELSE answer[j]]
      BY <1>4, PostStepIs
    <2>2. pc' \in {"over", "pre"}
      BY <1>4 DEF PostStep
    <2>3. DOMAIN answer' = DOMAIN answer \cup {active}
      BY <2>1
    <2>4. DOMAIN answer' \subseteq 1 .. (active + 1) - 1
      BY <1>1, <2>1, <2>3 DEF Shape
    <2>5. active + 1 \in 1 .. Len(steps) + 1 /\ active < active + 1
      BY <1>1, <2>1
    <2> QED BY <2>1, <2>2, <2>3, <2>4, <2>5 DEF Shape
  <1>5. CASE JudgeFails
    BY <1>5 DEF JudgeFails, Shape
  <1>6. CASE UNCHANGED vars
    BY <1>6 DEF vars, Shape
  <1> QED BY <1>2, <1>3, <1>4, <1>5, <1>6 DEF Next

\* Every step keeps the results those of the steps that have run: the one
\* that is done is the last of its id.
LEMMA RecordedNext ==
    ASSUME Shape, Recorded, [Next]_vars
    PROVE  Recorded'
  <1>1. CASE steps' = steps /\ stepResults' = stepResults /\ answer' = answer
    BY <1>1 DEF Recorded, With
  <1>2. CASE PostStep
    <2>1. PICK r \in Result :
             /\ active \in 1 .. Len(steps) /\ active \notin DOMAIN answer
             /\ active = current /\ steps' = steps
             /\ answer' = [j \in DOMAIN answer \cup {active} |->
                              IF j = active THEN r ELSE answer[j]]
             /\ stepResults' = [x \in DOMAIN stepResults \cup {steps[active].id} |->
                                   IF x = steps[active].id THEN r ELSE stepResults[x]]
      BY <1>2, PostStepIs
    <2> DEFINE y == steps[active].id
    <2>2. Len(steps) \in Nat /\ active \in Nat /\ \A j \in DOMAIN answer : j \in Nat /\ j < active
      BY <2>1, SkillType DEF Shape
    <2>3. DOMAIN answer' = DOMAIN answer \cup {active}
          /\ DOMAIN stepResults' = DOMAIN stepResults \cup {y}
      BY <2>1
    <2>4. answer' \in [DOMAIN answer' -> Result]
      <3>1. answer \in [DOMAIN answer -> Result]
        BY DEF Recorded
      <3> QED BY <2>1, <3>1
    <2>5. DOMAIN stepResults' = {steps'[j].id : j \in DOMAIN answer'}
      BY <2>1, <2>3 DEF Recorded
    <2>6. ASSUME NEW x \in DOMAIN stepResults'
          PROVE  stepResults'[x] = answer'[Max(With(x)')]
      <3>1. CASE x = y
        <4>1. With(x)' = With(x) \cup {active}
          BY <2>1, <2>3, <3>1 DEF With
        <4>2. With(x)' \subseteq 1 .. active /\ With(x)' # {} /\ active \in With(x)'
          <5>1. With(x) \subseteq 1 .. active
            BY <2>1, <2>2 DEF With, Shape
          <5>2. active \in 1 .. active
            BY <2>1, <2>2
          <5> QED BY <4>1, <5>1, <5>2
        <4>3. Max(With(x)') \in With(x)' /\ active <= Max(With(x)')
          BY <2>2, <4>2, Greatest
        <4>4. Max(With(x)') = active
          BY <2>2, <4>2, <4>3
        <4> QED BY <2>1, <2>3, <3>1, <4>4
      <3>2. CASE x # y
        <4>1. With(x)' = With(x) /\ x \in DOMAIN stepResults
          BY <2>1, <2>3, <3>2 DEF With
        <4>2. stepResults'[x] = answer[Max(With(x))]
          BY <2>1, <3>2, <4>1 DEF Recorded
        <4>3. Max(With(x)) \in DOMAIN answer
          <5>1. With(x) # {}
            BY <4>1, ResultIs
          <5> QED BY <5>1, WithMax DEF With
        <4>4. answer'[Max(With(x))] = answer[Max(With(x))]
          BY <2>1, <4>3
        <4> QED BY <4>1, <4>2, <4>4
      <3> QED BY <3>1, <3>2
    <2> QED BY <2>4, <2>5, <2>6 DEF Recorded
  <1>3. CASE UNCHANGED vars
    BY <1>1, <1>3 DEF vars
  <1> QED BY <1>1, <1>2, <1>3 DEF Next, PreStep, NoStepLeft, JudgeFails

\* A step that begins is given what is written.
LEMMA GivenNext ==
    ASSUME Plain(Result), Plain(Range(Variables)),
           Shape, Recorded, GivenAsWritten, [Next]_vars
    PROVE  GivenAsWritten'
  <1>1. CASE PreStep
    <2>1. PICK i \in current .. Len(steps) :
             /\ active' = i
             /\ \E order \in SetToSeqs(DOMAIN stepResults),
                   names \in SetToSeqs(DOMAIN Variables) :
                   given' = Interpolated(steps[i].args, stepResults, order,
                                         Variables, names)
      BY <1>1 DEF PreStep
    <2>2. steps' = steps /\ answer' = answer
      BY <1>1 DEF PreStep
    <2>3. given' = FlattenSeq([n \in DOMAIN steps[i].args |-> ValueAt(i, steps[i].args[n])])
      BY <2>1, GivenIs
    <2>4. \A token : ValueAt(active, token)' = ValueAt(i, token)
      BY <2>1, <2>2 DEF ValueAt
    <2>5. [n \in DOMAIN steps[active].args |-> ValueAt(active, steps[active].args[n])]'
            = [n \in DOMAIN steps[i].args |-> ValueAt(i, steps[i].args[n])]
      BY <2>1, <2>2, <2>4
    <2>6. (given = FlattenSeq([n \in DOMAIN steps[active].args |->
                                 ValueAt(active, steps[active].args[n])]))'
      BY <2>3, <2>5
    <2> QED BY <2>6 DEF GivenAsWritten, ValueAt
  <1>2. CASE pc' # "step"
    BY <1>2 DEF GivenAsWritten
  <1>3. CASE UNCHANGED vars
    BY <1>3 DEF GivenAsWritten, vars
  <1> QED BY <1>1, <1>2, <1>3, PostStepIs DEF Next, NoStepLeft, JudgeFails

\* If no answer and no variable holds a placeholder, every step is given its
\* arguments with each placeholder replaced once, by the latest answer of the
\* step or by the variable it names.
THEOREM Given ==
    ASSUME Plain(Result), Plain(Range(Variables))
    PROVE  Spec => []GivenAsWritten
  <1> DEFINE Inv == Shape /\ Recorded /\ GivenAsWritten
  <1>1. Init => Inv
    <2>1. Init => GivenAsWritten
      BY DEF Init, GivenAsWritten
    <2> QED BY <2>1, ShapeInit
  <1>2. Inv /\ [Next]_vars => Inv'
    <2>1. ASSUME Inv, [Next]_vars
          PROVE  Inv'
      BY <2>1, ShapeNext, RecordedNext, GivenNext
    <2> QED BY <2>1
  <1>3. Inv => GivenAsWritten
    OBVIOUS
  <1> QED BY <1>1, <1>2, <1>3, PTL DEF Spec

-----------------------------------------------------------------------------
(* Evaluate                                                                *)

\* The least of some natural numbers
LEMMA LeastOf ==
    ASSUME NEW T, T \subseteq Nat, T # {}
    PROVE  Min(T) \in T /\ \A n \in T : Min(T) <= n
  <1>1. \E m \in T : \A n \in T : m <= n
    BY Least
  <1> QED BY <1>1 DEF Min

\* First is a member of a set of places, or 0.
LEMMA FirstIs ==
    ASSUME NEW T, T \subseteq Nat \ {0}
    PROVE  /\ First(T) = 0 <=> T = {}
           /\ T # {} => First(T) \in T /\ \A n \in T : First(T) <= n
  <1>1. T # {} => Min(T) \in T /\ \A n \in T : Min(T) <= n
    BY LeastOf
  <1> QED BY <1>1 DEF First

\* A keyword is found in the text or nowhere.
LEMMA FoundWithin ==
    ASSUME NEW R, NEW t \in Seq(R), NEW word
    PROVE  FindKeyword(t, word) \in 0 .. Len(t)
  <1> DEFINE T == {i \in 2 .. Len(t) - 1 : t[i] = word /\ ~InString(t, i)}
  <1>1. Len(t) \in Nat
    OBVIOUS
  <1>2. T \subseteq Nat \ {0} /\ T \subseteq 1 .. Len(t)
    BY <1>1
  <1> HIDE DEF T
  <1>3. First(T) = 0 \/ First(T) \in T
    BY <1>2, FirstIs
  <1>4. First(T) \in 0 .. Len(t)
    <2>1. CASE First(T) = 0
      BY <1>1, <2>1
    <2>2. CASE First(T) \in T
      <3>1. First(T) \in 1 .. Len(t)
        BY <1>2, <2>2
      <3> QED BY <3>1
    <2> QED BY <1>3, <2>1, <2>2
  <1> QED BY <1>4 DEF FindKeyword, T

\* What is left and right of a place, and what follows the first token
LEMMA PartsShorter ==
    ASSUME NEW R, NEW t \in Seq(R), t # <<>>
    PROVE  /\ \A i \in 1 .. Len(t) :
                 /\ Left(t, i) \in Seq(R) /\ Len(Left(t, i)) < Len(t)
                 /\ Right(t, i, 1) \in Seq(R) /\ Len(Right(t, i, 1)) < Len(t)
           /\ Tail(t) \in Seq(R) /\ Len(Tail(t)) < Len(t)
  <1>1. Len(t) \in Nat /\ Len(t) # 0
    OBVIOUS
  <1>2. ASSUME NEW i \in 1 .. Len(t)
        PROVE  /\ Left(t, i) \in Seq(R) /\ Len(Left(t, i)) < Len(t)
               /\ Right(t, i, 1) \in Seq(R) /\ Len(Right(t, i, 1)) < Len(t)
    <2>1. \A j \in 1 .. i - 1 : t[j] \in R
      OBVIOUS
    <2>2. SubSeq(t, 1, i - 1) \in Seq(R)
          /\ Len(SubSeq(t, 1, i - 1)) = IF 1 <= i - 1 THEN (i - 1) - 1 + 1 ELSE 0
      BY <2>1, SubSeqProperties
    <2>3. \A j \in i + 1 .. Len(t) : t[j] \in R
      OBVIOUS
    <2>4. SubSeq(t, i + 1, Len(t)) \in Seq(R)
          /\ Len(SubSeq(t, i + 1, Len(t)))
               = IF i + 1 <= Len(t) THEN Len(t) - (i + 1) + 1 ELSE 0
      BY <1>1, <2>3, SubSeqProperties
    <2> QED BY <1>1, <2>2, <2>4 DEF Left, Right
  <1>3. Tail(t) \in Seq(R) /\ Len(Tail(t)) < Len(t)
    BY <1>1, HeadTailProperties
  <1> QED BY <1>2, <1>3

\* The value of a text that is not empty, from values f of shorter ones
Judged(f, t, results) ==
    LET or  == FindKeyword(t, "or")
        and == FindKeyword(t, "and")
    IN  IF t = <<>> THEN TRUE
        ELSE IF or # 0 THEN f[Left(t, or)] \/ f[Right(t, or, 1)]
        ELSE IF and # 0 THEN f[Left(t, and)] /\ f[Right(t, and, 1)]
        ELSE IF Len(t) > 1 /\ Head(t) = "not" THEN ~f[Tail(t)]
        ELSE EvaluateComparison(t, results)

\* Values of shorter texts are all it depends on.
LEMMA JudgedSame ==
    ASSUME NEW R, NEW t \in Seq(R), NEW f, NEW g, NEW results,
           \A p \in Seq(R) : Len(p) < Len(t) => f[p] = g[p]
    PROVE  Judged(f, t, results) = Judged(g, t, results)
  <1>1. CASE t = <<>>
    BY <1>1 DEF Judged
  <1>2. CASE t # <<>>
    <2> DEFINE or  == FindKeyword(t, "or")
               and == FindKeyword(t, "and")
    <2>1. or \in 0 .. Len(t) /\ and \in 0 .. Len(t) /\ Len(t) \in Nat
      BY FoundWithin
    <2> HIDE DEF or, and
    <2>2. or # 0 => f[Left(t, or)] = g[Left(t, or)] /\ f[Right(t, or, 1)] = g[Right(t, or, 1)]
      BY <1>2, <2>1, PartsShorter
    <2>3. and # 0 => f[Left(t, and)] = g[Left(t, and)] /\ f[Right(t, and, 1)] = g[Right(t, and, 1)]
      BY <1>2, <2>1, PartsShorter
    <2>4. f[Tail(t)] = g[Tail(t)]
      BY <1>2, PartsShorter
    <2> QED BY <2>2, <2>3, <2>4, Zenon DEF Judged, or, and
  <1> QED BY <1>1, <1>2

\* A comparison is true or false.
LEMMA ComparisonType ==
    ASSUME NEW s, NEW results
    PROVE  EvaluateComparison(s, results) \in BOOLEAN
  <1> DEFINE found == {n \in DOMAIN Operators : FindOperator(s, Operators[n]) # 0}
             op    == Operators[Min(found)]
             at    == FindOperator(s, op)
             left  == Resolve(Left(s, at), results)
             right == Right(s, at, Len(op))
  <1>1. CASE found = {}
    <2>1. EvaluateComparison(s, results) = (Resolve(s, results) # <<>>)
      BY <1>1 DEF EvaluateComparison
    <2> QED BY <2>1
  <1>2. CASE found # {}
    <2>1. op \in { <<"contains">>, <<"length", ">">>, <<"length", ">", "=">>,
                   <<"length", "<">>, <<"==">>, <<"!=">> }
      <3>1. found \subseteq 1 .. 6 /\ found \subseteq Nat
        BY DEF Operators
      <3> HIDE DEF found
      <3>2. Min(found) \in 1 .. 6
        BY <1>2, <3>1, LeastOf
      <3> QED BY <3>2 DEF Operators
    <2> HIDE DEF op, at, left, right
    <2>2. EvaluateComparison(s, results) =
            CASE op = <<"contains">>         -> Within(Literal(right), left)
              [] op = <<"length", ">">>      -> Len(left) > Threshold(right)
              [] op = <<"length", ">", "=">> -> Len(left) >= Threshold(right)
              [] op = <<"length", "<">>      -> Len(left) < Threshold(right)
              [] op = <<"==">>               -> left = Literal(right)
              [] op = <<"!=">>               -> left # Literal(right)
      BY <1>2, Zenon DEF EvaluateComparison, op, at, left, right
    <2>3. Within(Literal(right), left) \in BOOLEAN
      BY DEF Within
    <2>5. CASE op = <<"contains">>
      BY <2>2, <2>3, <2>5
    <2>6. CASE op = <<"length", ">">>
      BY <2>2, <2>6
    <2>7. CASE op = <<"length", ">", "=">>
      BY <2>2, <2>7
    <2>8. CASE op = <<"length", "<">>
      BY <2>2, <2>8
    <2>9. CASE op = <<"==">>
      BY <2>2, <2>9
    <2>10. CASE op = <<"!=">>
      BY <2>2, <2>10
    <2> QED BY <2>1, <2>5, <2>6, <2>7, <2>8, <2>9, <2>10
  <1> QED BY <1>1, <1>2

\* What is said of a text is true or false, whatever was said of others.
LEMMA JudgedType ==
    ASSUME NEW R, NEW t \in Seq(R), NEW f, NEW results
    PROVE  Judged(f, t, results) \in BOOLEAN
  <1>1. EvaluateComparison(t, results) \in BOOLEAN
    BY ComparisonType
  <1> QED BY <1>1, Zenon DEF Judged

\* Every text judged by what was said of the shorter ones, N times
Evaluators(results, N) ==
    {h \in [0 .. N -> [Texts -> BOOLEAN]] :
       \A n \in 1 .. N, t \in Texts : h[n][t] = Judged(h[n - 1], t, results)}

\* There are such evaluators, by recursion on their number.
LEMMA EvaluatorsExist ==
    ASSUME NEW results, NEW N \in Nat
    PROVE  \E h : h \in Evaluators(results, N)
  <1> DEFINE V == [Texts -> BOOLEAN]
             b == [t \in Texts |-> TRUE]
             Step(f) == [t \in Texts |-> Judged(f, t, results)]
             G == [n \in 1 .. N |-> [f \in V |-> Step(f)]]
  <1>1. b \in V
    OBVIOUS
  <1>2. \A f \in V : Step(f) \in V
    <2>1. \A f, t : t \in Texts => Judged(f, t, results) \in BOOLEAN
      BY JudgedType DEF Texts
    <2> QED BY <2>1
  <1>3. \A f, t : t \in Texts => Step(f)[t] = Judged(f, t, results)
    OBVIOUS
  <1> HIDE DEF Step, b
  <1>4. G \in [1 .. N -> [V -> V]]
    BY <1>2
  <1>5. \A n \in 1 .. N, f \in V : G[n][f] = Step(f)
    OBVIOUS
  <1> HIDE DEF G, V
  <1>6. PICK h : h \in Courses(V, b, N, G)
    BY <1>1, <1>4, Recursion
  <1>7. h \in [0 .. N -> V] /\ \A n \in 1 .. N : h[n] = G[n][h[n - 1]]
    BY <1>6 DEF Courses
  <1>8. ASSUME NEW n \in 1 .. N, NEW t \in Texts
        PROVE  h[n][t] = Judged(h[n - 1], t, results)
    <2>1. n - 1 \in 0 .. N
      OBVIOUS
    <2>2. h[n - 1] \in V
      BY <1>7, <2>1
    <2>3. h[n] = Step(h[n - 1])
      BY <1>5, <1>7, <2>2
    <2> QED BY <1>3, <2>3
  <1> QED BY <1>7, <1>8 DEF Evaluators, V

\* What is said of a text no longer changes after as many times as it is
\* long.
LEMMA Settled ==
    ASSUME NEW results, NEW N \in Nat, NEW h \in Evaluators(results, N),
           NEW t \in Texts, NEW n \in Len(t) + 1 .. N
    PROVE  h[n][t] = h[N][t]
  <1> DEFINE D == {k \in 0 .. N : \A u \in Texts : Len(u) < k =>
                      \A m \in k .. N : h[m][u] = h[k][u]}
  <1>1. \A u \in Texts : Len(u) \in Nat
    BY DEF Texts
  <1>2. 0 \in D
    BY <1>1
  <1>3. ASSUME NEW k \in 0 .. N, k < N, k \in D
        PROVE  k + 1 \in D
    <2> SUFFICES ASSUME NEW u \in Texts, Len(u) < k + 1, NEW m \in k + 1 .. N
                 PROVE  h[m][u] = h[k + 1][u]
      BY <1>3
    <2>1. k \in Nat /\ m \in 1 .. N /\ m - 1 \in k .. N /\ k + 1 \in 1 .. N /\ (k + 1) - 1 = k
      BY <1>3
    <2>2. h[m][u] = Judged(h[m - 1], u, results) /\ h[k + 1][u] = Judged(h[k], u, results)
      BY <2>1 DEF Evaluators
    <2>3. ASSUME NEW p \in Texts, Len(p) < Len(u)
          PROVE  h[m - 1][p] = h[k][p]
      <3>1. Len(p) < k
        BY <1>1, <2>1, <2>3
      <3> QED BY <1>3, <2>1, <3>1
    <2>4. Judged(h[m - 1], u, results) = Judged(h[k], u, results)
      <3>1. u \in Seq(Token) /\ \A p \in Seq(Token) : Len(p) < Len(u) => h[m - 1][p] = h[k][p]
        BY <2>3 DEF Texts
      <3> QED BY <3>1, JudgedSame
    <2> QED BY <2>2, <2>4
  <1>4. \A k \in 0 .. N : k \in D
    <2> HIDE DEF D
    <2> QED BY <1>2, <1>3, UpTo
  <1>5. Len(t) + 1 \in D /\ N \in Len(t) + 1 .. N
    <2>1. Len(t) + 1 \in 0 .. N /\ N \in Len(t) + 1 .. N
      BY <1>1
    <2> HIDE DEF D
    <2> QED BY <1>4, <2>1
  <1>6. Len(t) < Len(t) + 1
    BY <1>1
  <1>7. \A m \in Len(t) + 1 .. N : h[m][t] = h[Len(t) + 1][t]
    BY <1>5, <1>6
  <1> QED BY <1>5, <1>7

\* Evaluate says the same as the evaluators that have gone on long enough.
LEMMA EvaluateWork ==
    ASSUME NEW results, NEW N \in Nat, NEW h \in Evaluators(results, N),
           NEW s \in Texts, Len(s) < N
    PROVE  Evaluate(s, results) = h[N][s]
  <1> DEFINE R == Range(s)
             Pieces == {t \in Seq(R) : Len(t) <= Len(s)}
             Solves(g) == g = [t \in Pieces |-> Judged(g, t, results)]
             g0 == [t \in Pieces |-> h[N][t]]
             F == CHOOSE g : Solves(g)
  <1>1. Len(s) \in Nat /\ R \subseteq Token /\ s \in Seq(R)
    BY RangeOfSeq, SeqOfRange DEF Texts
  <1>2. Evaluate(s, results) = F[s]
    BY DEF Evaluate, Judged
  <1> HIDE DEF R
  <1>3. Seq(R) \subseteq Texts
    BY <1>1, SeqMonotonic DEF Texts
  <1>4. ASSUME NEW g, NEW t \in Pieces,
               \A p \in Seq(R) : Len(p) < Len(t) => g[p] = h[N][p]
        PROVE  Judged(g, t, results) = h[N][t]
    <2>1. t \in Texts /\ t \in Seq(R) /\ Len(t) \in Nat /\ Len(t) < N
      BY <1>1, <1>3
    <2>2. N \in 1 .. N /\ h[N][t] = Judged(h[N - 1], t, results)
      BY <2>1 DEF Evaluators
    <2>3. ASSUME NEW p \in Seq(R), Len(p) < Len(t)
          PROVE  g[p] = h[N - 1][p]
      <3>1. p \in Texts /\ Len(p) \in Nat /\ N - 1 \in Len(p) + 1 .. N
        BY <1>3, <2>1, <2>3
      <3>2. h[N - 1][p] = h[N][p]
        BY <3>1, Settled
      <3> QED BY <1>4, <2>3, <3>2
    <2> QED BY <2>1, <2>2, <2>3, JudgedSame
  <1>5. ASSUME NEW t \in Pieces, NEW p \in Seq(R), Len(p) < Len(t)
        PROVE  p \in Pieces
    <2>1. Len(p) \in Nat /\ Len(t) \in Nat /\ Len(t) <= Len(s)
      OBVIOUS
    <2> QED BY <1>1, <1>5, <2>1
  <1>6. Solves(g0)
    <2>1. ASSUME NEW t \in Pieces
          PROVE  Judged(g0, t, results) = h[N][t]
      <3>1. \A p \in Seq(R) : Len(p) < Len(t) => g0[p] = h[N][p]
        BY <1>5
      <3> HIDE DEF g0
      <3> QED BY <1>4, <3>1
    <2>2. g0 = [t \in Pieces |-> h[N][t]]
      OBVIOUS
    <2> HIDE DEF g0, Pieces
    <2> QED BY <2>1, <2>2
  <1>7. Solves(F)
    <2> HIDE DEF Solves, g0
    <2> QED BY <1>6
  <1> HIDE DEF F, g0
  <1>8. \A t \in Pieces : F[t] = Judged(F, t, results)
    <2> HIDE DEF Pieces
    <2> QED BY <1>7
  <1> HIDE DEF Solves
  <1> DEFINE D == {k \in 0 .. Len(s) + 1 : \A t \in Pieces : Len(t) < k => F[t] = h[N][t]}
  <1>9. \A t \in Seq(R) : Len(t) \in Nat
    OBVIOUS
  <1>10. 0 \in D
    BY <1>1, <1>9
  <1>11. ASSUME NEW k \in 0 .. Len(s) + 1, k < Len(s) + 1, k \in D
         PROVE  k + 1 \in D
    <2> SUFFICES ASSUME NEW t \in Pieces, Len(t) < k + 1
                 PROVE  F[t] = h[N][t]
      BY <1>1, <1>11
    <2>1. ASSUME NEW p \in Seq(R), Len(p) < Len(t)
          PROVE  F[p] = h[N][p]
      <3>1. p \in Pieces /\ Len(p) \in Nat /\ Len(t) \in Nat
        BY <1>5, <1>9, <2>1
      <3>2. Len(p) < k
        BY <1>1, <2>1, <3>1
      <3> QED BY <1>11, <3>1, <3>2
    <2> HIDE DEF Pieces, D
    <2> QED BY <1>4, <1>8, <2>1
  <1>12. \A k \in 0 .. Len(s) + 1 : k \in D
    <2>1. Len(s) + 1 \in Nat
      BY <1>1
    <2> HIDE DEF D
    <2> QED BY <1>10, <1>11, <2>1, UpTo
  <1>13. Len(s) + 1 \in D
    <2> HIDE DEF D
    <2>1. Len(s) + 1 \in 0 .. Len(s) + 1
      BY <1>1
    <2> QED BY <1>12, <2>1
  <1>14. s \in Pieces /\ Len(s) < Len(s) + 1
    BY <1>1
  <1>15. F[s] = h[N][s]
    BY <1>13, <1>14
  <1> QED BY <1>2, <1>15

\* What Evaluate says of a text it gets from what it says of the shorter ones.
EvaluatesBy(s, results) ==
    /\ Evaluate(s, results) \in BOOLEAN
    /\ Evaluate(s, results) = Judged([t \in Texts |-> Evaluate(t, results)], s, results)

\* Evaluate obeys the equation of its recursion for every text, and not
\* only for the parts of one.
LEMMA EvaluateIs ==
    ASSUME NEW s \in Texts, NEW results
    PROVE  EvaluatesBy(s, results)
  <1> DEFINE N == Len(s) + 1
             E == [t \in Texts |-> Evaluate(t, results)]
  <1>1. N \in Nat /\ Len(s) \in Nat /\ Len(s) < N /\ N - 1 = Len(s) /\ N \in 1 .. N
    BY DEF Texts
  <1> HIDE DEF N
  <1>2. PICK h : h \in Evaluators(results, N)
    BY <1>1, EvaluatorsExist
  <1>3. Evaluate(s, results) = h[N][s]
    BY <1>1, <1>2, EvaluateWork
  <1>4. h[N][s] = Judged(h[N - 1], s, results)
    BY <1>1, <1>2 DEF Evaluators
  <1>5. ASSUME NEW p \in Texts, Len(p) < Len(s)
        PROVE  E[p] = h[N - 1][p]
    <2>1. Len(p) \in Nat
      BY DEF Texts
    <2>2. Len(p) < N /\ N - 1 \in Len(p) + 1 .. N
      BY <1>1, <1>5, <2>1
    <2>3. h[N - 1][p] = h[N][p]
      BY <1>1, <1>2, <2>2, Settled
    <2>4. Evaluate(p, results) = h[N][p]
      BY <1>1, <1>2, <2>2, EvaluateWork
    <2> QED BY <2>3, <2>4
  <1> HIDE DEF E
  <1>6. Judged(E, s, results) = Judged(h[N - 1], s, results)
    <2>1. s \in Seq(Token) /\ \A p \in Seq(Token) : Len(p) < Len(s) => E[p] = h[N - 1][p]
      BY <1>5 DEF Texts
    <2> QED BY <2>1, JudgedSame
  <1>7. Judged(E, s, results) \in BOOLEAN
    BY JudgedType DEF Texts
  <1> QED BY <1>3, <1>4, <1>6, <1>7 DEF EvaluatesBy, E

-----------------------------------------------------------------------------
(* Strings in a text                                                       *)

\* A text whose strings end in it
Closed(s) == ~InString(s, Len(s))
\* A text that has a word in strings only
Free(s, word) == \A i \in DOMAIN s : s[i] = word => InString(s, i)

\* No place before the first is in a string.
LEMMA InStringStart ==
    ASSUME NEW s
    PROVE  ~InString(s, 0)
  <1>1. {j \in 1 .. 0 : s[j] = Quote} = {}
    OBVIOUS
  <1>2. Cardinality({}) = 0
    BY FS_EmptySet
  <1>3. 0 % 2 # 1
    OBVIOUS
  <1> QED BY <1>1, <1>2, <1>3 DEF InString

\* A quote changes whether the places from it on are in a string.
LEMMA InStringStep ==
    ASSUME NEW s, NEW i \in Nat
    PROVE  InString(s, i + 1) <=> (InString(s, i) <=> s[i + 1] # Quote)
  <1> DEFINE Q(k) == {j \in 1 .. k : s[j] = Quote}
  <1>1. IsFiniteSet(Q(i)) /\ Cardinality(Q(i)) \in Nat
    <2>1. IsFiniteSet(1 .. i)
      BY FS_Interval
    <2>2. Q(i) \subseteq 1 .. i
      OBVIOUS
    <2> HIDE DEF Q
    <2> QED BY <2>1, <2>2, FS_Subset, FS_CardinalityType
  <1>2. CASE s[i + 1] # Quote
    <2>1. Q(i + 1) = Q(i)
      BY <1>2
    <2> HIDE DEF Q
    <2> QED BY <1>2, <2>1 DEF InString, Q
  <1>3. CASE s[i + 1] = Quote
    <2>1. Q(i + 1) = Q(i) \cup {i + 1} /\ i + 1 \notin Q(i)
      BY <1>3
    <2> HIDE DEF Q
    <2>2. Cardinality(Q(i + 1)) = Cardinality(Q(i)) + 1
      BY <1>1, <2>1, FS_AddElement
    <2>3. \A n \in Nat : (n + 1) % 2 = 1 <=> n % 2 # 1
      OBVIOUS
    <2>4. Cardinality(Q(i + 1)) % 2 = 1 <=> Cardinality(Q(i)) % 2 # 1
      BY <1>1, <2>2, <2>3
    <2> QED BY <1>3, <2>4 DEF InString, Q
  <1> QED BY <1>2, <1>3

\* What two texts have in common at their beginning
LEMMA InStringSame ==
    ASSUME NEW s, NEW t, NEW i \in Nat, \A j \in 1 .. i : s[j] = t[j]
    PROVE  InString(s, i) <=> InString(t, i)
  <1>1. {j \in 1 .. i : s[j] = Quote} = {j \in 1 .. i : t[j] = Quote}
    OBVIOUS
  <1> QED BY <1>1 DEF InString

\* Behind a closed text, a text has the strings it has alone.
LEMMA InStringBehind ==
    ASSUME NEW S, NEW a \in Seq(S), NEW b \in Seq(S), Closed(a), NEW i \in 0 .. Len(b)
    PROVE  InString(a \o b, Len(a) + i) <=> InString(b, i)
  <1> DEFINE c == a \o b
             D == {k \in 0 .. Len(b) : InString(c, Len(a) + k) <=> InString(b, k)}
  <1>1. Len(a) \in Nat /\ Len(b) \in Nat
    OBVIOUS
  <1>2. \A k \in 1 .. Len(a) : c[k] = a[k]
    OBVIOUS
  <1>3. \A k \in 1 .. Len(b) : c[Len(a) + k] = b[k]
    OBVIOUS
  <1> HIDE DEF c
  <1>4. 0 \in D
    <2>1. InString(c, Len(a)) <=> InString(a, Len(a))
      BY <1>1, <1>2, InStringSame
    <2>2. Len(a) + 0 = Len(a) /\ 0 \in 0 .. Len(b)
      BY <1>1
    <2> QED BY <2>1, <2>2, InStringStart DEF Closed
  <1>5. ASSUME NEW k \in 0 .. Len(b), k < Len(b), k \in D
        PROVE  k + 1 \in D
    <2>1. k \in Nat /\ Len(a) + k \in Nat /\ Len(a) + (k + 1) = (Len(a) + k) + 1
          /\ k + 1 \in 1 .. Len(b) /\ k + 1 \in 0 .. Len(b)
      BY <1>1, <1>5
    <2>2. InString(c, (Len(a) + k) + 1)
            <=> (InString(c, Len(a) + k) <=> c[(Len(a) + k) + 1] # Quote)
      BY <2>1, InStringStep
    <2>3. InString(b, k + 1) <=> (InString(b, k) <=> b[k + 1] # Quote)
      BY <2>1, InStringStep
    <2>4. c[(Len(a) + k) + 1] = b[k + 1]
      BY <1>3, <2>1
    <2>5. InString(c, Len(a) + k) <=> InString(b, k)
      BY <1>5
    <2>6. InString(c, Len(a) + (k + 1)) <=> InString(b, k + 1)
      BY <2>1, <2>2, <2>3, <2>4, <2>5
    <2> QED BY <2>1, <2>6
  <1>6. \A k \in 0 .. Len(b) : k \in D
    <2> HIDE DEF D
    <2> QED BY <1>1, <1>4, <1>5, UpTo
  <1> QED BY <1>6 DEF c

\* Two closed texts, one behind the other
Behind(S, a, b) ==
    /\ Closed(b) => Closed(a \o b)
    /\ \A w : Free(a, w) /\ Free(b, w) => Free(a \o b, w)

\* The strings of the second begin anew, so that what both are, both
\* together are.
LEMMA ClosedConcat ==
    ASSUME NEW S, NEW a \in Seq(S), NEW b \in Seq(S), Closed(a)
    PROVE  Behind(S, a, b)
  <1> DEFINE c == a \o b
  <1>1. Len(a) \in Nat /\ Len(b) \in Nat /\ Len(c) = Len(a) + Len(b)
        /\ DOMAIN a = 1 .. Len(a) /\ DOMAIN b = 1 .. Len(b) /\ DOMAIN c = 1 .. Len(a) + Len(b)
    OBVIOUS
  <1>2. \A k \in 1 .. Len(a) : c[k] = a[k]
    OBVIOUS
  <1>3. \A k \in 1 .. Len(b) : c[Len(a) + k] = b[k]
    OBVIOUS
  <1>4. \A k \in 0 .. Len(b) : InString(c, Len(a) + k) <=> InString(b, k)
    BY InStringBehind
  <1> HIDE DEF c
  <1>5. Closed(b) => Closed(c)
    BY <1>1, <1>4 DEF Closed
  <1>6. ASSUME NEW w, Free(a, w), Free(b, w), NEW i \in 1 .. Len(a) + Len(b), c[i] = w
        PROVE  InString(c, i)
    <2>1. CASE i <= Len(a)
      <3>1. i \in 1 .. Len(a) /\ i \in Nat /\ \A k \in 1 .. i : c[k] = a[k]
        BY <1>1, <1>2, <2>1
      <3>2. InString(c, i) <=> InString(a, i)
        BY <3>1, InStringSame
      <3>3. a[i] = w
        BY <1>2, <1>6, <3>1
      <3> QED BY <1>1, <1>6, <3>1, <3>2, <3>3 DEF Free
    <2>2. CASE i > Len(a)
      <3> DEFINE k == i - Len(a)
      <3>1. k \in 1 .. Len(b) /\ k \in 0 .. Len(b) /\ i = Len(a) + k
        BY <1>1, <2>2
      <3> HIDE DEF k
      <3>2. b[k] = w
        BY <1>3, <1>6, <3>1
      <3>3. InString(b, k)
        BY <1>1, <1>6, <3>1, <3>2 DEF Free
      <3> QED BY <1>4, <3>1, <3>3
    <2> QED BY <1>1, <2>1, <2>2
  <1>7. \A w : Free(a, w) /\ Free(b, w) => Free(c, w)
    BY <1>1, <1>6 DEF Free
  <1> QED BY <1>5, <1>7 DEF c, Behind

\* A word that is in strings only is not found as a keyword.
LEMMA NotFound ==
    ASSUME NEW S, NEW s \in Seq(S), NEW word, Free(s, word)
    PROVE  FindKeyword(s, word) = 0
  <1>1. {i \in 2 .. Len(s) - 1 : s[i] = word /\ ~InString(s, i)} = {}
    BY DEF Free
  <1> QED BY <1>1, FirstIs DEF FindKeyword, First

\* Two texts with a word between them
Between(a, word, b) == (a \o <<word>>) \o b

\* The word is found there, and what is left and right of it is a and b.
FoundBetween(a, word, b) ==
    LET c == Between(a, word, b)
        n == FindKeyword(c, word)
    IN  n # 0 /\ Left(c, n) = a /\ Right(c, n, 1) = b

\* A keyword is found behind a closed text that has it in strings only.
LEMMA KeywordFound ==
    ASSUME NEW a \in Texts, NEW word \in Token, word # Quote, NEW b \in Texts,
           a # <<>>, b # <<>>, Closed(a), Free(a, word)
    PROVE  FoundBetween(a, word, b)
  <1> DEFINE c == Between(a, word, b)
             n == Len(a) + 1
             T == {i \in 2 .. Len(c) - 1 : c[i] = word /\ ~InString(c, i)}
  <1>1. Len(a) \in Nat \ {0} /\ Len(b) \in Nat \ {0}
        /\ DOMAIN a = 1 .. Len(a)
    BY DEF Texts
  <1>2. /\ c \in Seq(Token)
        /\ Len(c) = Len(a) + 1 + Len(b)
        /\ c[n] = word
        /\ \A k \in 1 .. Len(a) : c[k] = a[k]
        /\ \A k \in 1 .. Len(b) : c[n + k] = b[k]
    <2> DEFINE d == a \o <<word>>
    <2>1. a \in Seq(Token) /\ b \in Seq(Token) /\ <<word>> \in Seq(Token)
          /\ Len(<<word>>) = 1 /\ <<word>>[1] = word
      BY OneToken DEF Texts
    <2>2. /\ d \in Seq(Token) /\ Len(d) = n
          /\ \A k \in 1 .. n : d[k] = IF k <= Len(a) THEN a[k] ELSE <<word>>[k - Len(a)]
      BY <2>1, ConcatProperties
    <2>3. d[n] = word /\ \A k \in 1 .. Len(a) : d[k] = a[k]
      <3>1. n \in 1 .. n /\ ~(n <= Len(a)) /\ n - Len(a) = 1
        BY <1>1
      <3>2. \A k \in 1 .. Len(a) : k \in 1 .. n /\ k <= Len(a)
        BY <1>1
      <3> HIDE DEF d, n
      <3> QED BY <2>1, <2>2, <3>1, <3>2
    <2>4. n \in Nat \ {0} /\ n = Len(a) + 1
      BY <1>1
    <2>5. c = d \o b
      BY DEF Between
    <2> HIDE DEF c, d, n
    <2>6. /\ c \in Seq(Token) /\ Len(c) = n + Len(b)
          /\ \A k \in 1 .. n + Len(b) : c[k] = IF k <= n THEN d[k] ELSE b[k - n]
      BY <2>1, <2>2, <2>5, ConcatProperties
    <2>7. \A k \in 1 .. n : c[k] = d[k]
      BY <1>1, <2>4, <2>6
    <2>8. \A k \in 1 .. Len(b) : c[n + k] = b[k]
      <3> TAKE k \in 1 .. Len(b)
      <3>1. n + k \in 1 .. n + Len(b) /\ ~(n + k <= n) /\ (n + k) - n = k
        BY <1>1, <2>4
      <3> QED BY <2>6, <3>1
    <2>9. n \in 1 .. n /\ \A k \in 1 .. Len(a) : k \in 1 .. n
      BY <1>1, <2>4
    <2> QED BY <2>3, <2>4, <2>6, <2>7, <2>8, <2>9
  <1> HIDE DEF c
  <1>3. \A i \in 1 .. Len(a) : InString(c, i) <=> InString(a, i)
    <2> TAKE i \in 1 .. Len(a)
    <2>1. i \in Nat /\ \A k \in 1 .. i : c[k] = a[k]
      BY <1>1, <1>2
    <2> QED BY <2>1, InStringSame
  <1>4. ~InString(c, n)
    <2>1. InString(c, n) <=> (InString(c, Len(a)) <=> c[n] # Quote)
      BY <1>1, InStringStep
    <2>2. ~InString(c, Len(a))
      BY <1>1, <1>3 DEF Closed
    <2> QED BY <1>2, <2>1, <2>2
  <1>5. n \in T
    <2>1. n \in 2 .. Len(c) - 1
      BY <1>1, <1>2
    <2> QED BY <1>2, <1>4, <2>1
  <1>6. \A i \in T : i >= n
    <2> TAKE i \in T
    <2>1. CASE i <= Len(a)
      <3>1. i \in 1 .. Len(a)
        BY <2>1
      <3>2. a[i] = word /\ ~InString(a, i)
        BY <1>2, <1>3, <3>1
      <3> QED BY <1>1, <3>1, <3>2 DEF Free
    <2>2. CASE ~(i <= Len(a))
      BY <1>1, <2>2
    <2> QED BY <2>1, <2>2
  <1>7. First(T) = n
    <2>1. T \subseteq Nat \ {0} /\ T \subseteq Nat /\ T # {}
      <3>1. \A i \in 2 .. Len(c) - 1 : i \in Nat /\ i # 0
        BY <1>1, <1>2
      <3>2. T \subseteq 2 .. Len(c) - 1
        OBVIOUS
      <3> HIDE DEF T
      <3> QED BY <1>5, <3>1, <3>2
    <2>2. n \in Nat
      BY <1>1
    <2> HIDE DEF T, n
    <2>3. First(T) \in T /\ \A i \in T : First(T) <= i
      BY <2>1, FirstIs
    <2>4. First(T) >= n /\ First(T) <= n /\ First(T) \in Nat
      BY <1>5, <1>6, <2>1, <2>2, <2>3
    <2> QED BY <2>2, <2>4
  <1>8. FindKeyword(c, word) = n
    BY <1>7 DEF FindKeyword
  <1>9. Left(c, n) = a
    <2>1. SubSeq(c, 1, Len(a)) \in Seq(Token) /\ Len(SubSeq(c, 1, Len(a))) = Len(a)
          /\ \A k \in 1 .. Len(a) : SubSeq(c, 1, Len(a))[k] = a[k]
      BY <1>1, <1>2
    <2>2. SubSeq(c, 1, Len(a)) = a
      BY <2>1, SeqEqual DEF Texts
    <2>3. n - 1 = Len(a)
      BY <1>1
    <2> QED BY <2>2, <2>3 DEF Left
  <1>10. Right(c, n, 1) = b
    <2> DEFINE d == SubSeq(c, n + 1, Len(c))
    <2>1. \A k \in n + 1 .. Len(c) : c[k] \in Token
      BY <1>1, <1>2
    <2>2. d \in Seq(Token) /\ Len(d) = Len(b)
          /\ \A k \in 1 .. Len(b) : d[k] = c[n + k]
      <3>1. n + 1 \in Int /\ Len(c) \in Int /\ n + 1 <= Len(c)
            /\ Len(c) - (n + 1) + 1 = Len(b)
        BY <1>1, <1>2
      <3>2. \A k \in 1 .. Len(b) : (n + 1) + k - 1 = n + k
        BY <1>1
      <3>3. /\ d \in Seq(Token)
            /\ Len(d) = IF n + 1 <= Len(c) THEN Len(c) - (n + 1) + 1 ELSE 0
            /\ \A k \in 1 .. Len(c) - (n + 1) + 1 : d[k] = c[(n + 1) + k - 1]
        <4> HIDE DEF n
        <4> QED BY <2>1, <3>1, SubSeqProperties
      <3> HIDE DEF d, n
      <3> QED BY <3>1, <3>2, <3>3
    <2> HIDE DEF d
    <2>3. d = b
      BY <1>2, <2>2, SeqEqual DEF Texts
    <2> QED BY <2>3 DEF Right, d
  <1>11. n # 0
    BY <1>1
  <1> QED BY <1>8, <1>9, <1>10, <1>11 DEF FoundBetween, c

\* One word is a closed text.
LEMMA OneWord ==
    ASSUME NEW word \in Token, word # Quote
    PROVE  Closed(<<word>>) /\ \A w : w # word => Free(<<word>>, w)
  <1>1. Len(<<word>>) = 1 /\ <<word>>[1] = word /\ DOMAIN <<word>> = 1 .. 1
        /\ \A i \in 1 .. 1 : i = 1
    OBVIOUS
  <1> DEFINE s == <<word>>
  <1> HIDE DEF s
  <1>2. InString(s, 0 + 1) <=> (InString(s, 0) <=> s[0 + 1] # Quote)
    BY InStringStep
  <1>3. ~InString(s, 1)
    <2>1. ~InString(s, 0) /\ 0 + 1 = 1
      BY InStringStart
    <2> QED BY <1>1, <1>2, <2>1 DEF s
  <1> QED BY <1>1, <1>3 DEF Closed, Free, s

\* Two closed texts with a keyword between them
JoinsClosed(a, word, b) ==
    LET c == Between(a, word, b)
    IN  /\ c \in Texts /\ c # <<>> /\ Closed(c)
        /\ \A w : w # word /\ Free(a, w) /\ Free(b, w) => Free(c, w)

\* They are closed, and other words are in strings only if they were.
LEMMA BetweenIs ==
    ASSUME NEW a \in Texts, NEW word \in Token, word # Quote, NEW b \in Texts,
           Closed(a), Closed(b)
    PROVE  JoinsClosed(a, word, b)
  <1> DEFINE d == a \o <<word>>
             c == d \o b
  <1>1. a \in Seq(Token) /\ b \in Seq(Token) /\ <<word>> \in Seq(Token)
        /\ Len(<<word>>) = 1
    BY OneToken DEF Texts
  <1>2. d \in Seq(Token) /\ Len(d) = Len(a) + 1
    BY <1>1, ConcatProperties
  <1>3. c \in Seq(Token) /\ Len(c) = Len(a) + 1 + Len(b)
    <2> HIDE DEF d
    <2>1. c \in Seq(Token) /\ Len(c) = Len(d) + Len(b)
      BY <1>1, <1>2, ConcatProperties
    <2> HIDE DEF c
    <2> QED BY <1>2, <2>1
  <1>4. c # <<>>
    <2> HIDE DEF c
    <2>1. Len(a) \in Nat /\ Len(b) \in Nat
      BY <1>1
    <2> QED BY <1>3, <2>1
  <1>5. Closed(d) /\ \A w : w # word /\ Free(a, w) => Free(d, w)
    <2>1. Behind(Token, a, <<word>>)
      BY <1>1, ClosedConcat
    <2> QED BY <2>1, OneWord DEF Behind
  <1>6. Closed(c) /\ \A w : Free(d, w) /\ Free(b, w) => Free(c, w)
    <2> HIDE DEF d
    <2>1. Behind(Token, d, b)
      BY <1>1, <1>2, <1>5, ClosedConcat
    <2> QED BY <2>1 DEF Behind
  <1>7. c = Between(a, word, b)
    BY DEF Between
  <1> HIDE DEF c, d
  <1> QED BY <1>3, <1>4, <1>5, <1>6, <1>7 DEF JoinsClosed, Texts

\* "or" between two texts
LEMMA EvaluateOr ==
    ASSUME NEW results, NEW a \in Texts, NEW b \in Texts, a # <<>>, b # <<>>,
           Closed(a), Closed(b), Free(a, "or")
    PROVE  Evaluate(Between(a, "or", b), results)
             <=> Evaluate(a, results) \/ Evaluate(b, results)
  <1> DEFINE c == Between(a, "or", b)
             E == [t \in Texts |-> Evaluate(t, results)]
  <1>1. c \in Texts /\ c # <<>>
    <2>1. "or" \in Token /\ "or" # Quote
      BY DEF Quote, Token, Language
    <2>2. JoinsClosed(a, "or", b)
      BY <2>1, BetweenIs
    <2> QED BY <2>2 DEF JoinsClosed
  <1>2. FoundBetween(a, "or", b)
    <2>1. "or" \in Token /\ "or" # Quote
      BY DEF Quote, Token, Language
    <2> QED BY <2>1, KeywordFound
  <1> HIDE DEF c, E
  <1>3. Evaluate(c, results) = Judged(E, c, results)
    BY <1>1, EvaluateIs DEF EvaluatesBy, E
  <1>4. FindKeyword(c, "or") # 0 /\ Left(c, FindKeyword(c, "or")) = a
        /\ Right(c, FindKeyword(c, "or"), 1) = b
    BY <1>2 DEF FoundBetween, c
  <1>5. Judged(E, c, results) = (E[a] \/ E[b])
    BY <1>1, <1>4, Zenon DEF Judged
  <1>6. E[a] = Evaluate(a, results) /\ E[b] = Evaluate(b, results)
    BY DEF E
  <1> QED BY <1>3, <1>5, <1>6, Zenon DEF c

\* "and" between two texts that have "or" in strings only
LEMMA EvaluateAnd ==
    ASSUME NEW results, NEW a \in Texts, NEW b \in Texts, a # <<>>, b # <<>>,
           Closed(a), Closed(b), Free(a, "or"), Free(b, "or"), Free(a, "and")
    PROVE  Evaluate(Between(a, "and", b), results)
             <=> Evaluate(a, results) /\ Evaluate(b, results)
  <1> DEFINE c == Between(a, "and", b)
             E == [t \in Texts |-> Evaluate(t, results)]
  <1>1. c \in Texts /\ c # <<>> /\ FindKeyword(c, "or") = 0
    <2>1. "and" \in Token /\ "and" # Quote /\ "or" # "and"
      BY DEF Quote, Token, Language
    <2>2. JoinsClosed(a, "and", b)
      BY <2>1, BetweenIs
    <2>3. c \in Texts /\ c # <<>> /\ Free(c, "or")
      BY <2>1, <2>2 DEF JoinsClosed
    <2> HIDE DEF c
    <2> QED BY <2>3, NotFound DEF Texts
  <1>2. FoundBetween(a, "and", b)
    <2>1. "and" \in Token /\ "and" # Quote
      BY DEF Quote, Token, Language
    <2> QED BY <2>1, KeywordFound
  <1> HIDE DEF c, E
  <1>3. Evaluate(c, results) = Judged(E, c, results)
    BY <1>1, EvaluateIs DEF EvaluatesBy, E
  <1>4. FindKeyword(c, "and") # 0 /\ Left(c, FindKeyword(c, "and")) = a
        /\ Right(c, FindKeyword(c, "and"), 1) = b
    BY <1>2 DEF FoundBetween, c
  <1>5. Judged(E, c, results) = (E[a] /\ E[b])
    BY <1>1, <1>4, Zenon DEF Judged
  <1>6. E[a] = Evaluate(a, results) /\ E[b] = Evaluate(b, results)
    BY DEF E
  <1> QED BY <1>3, <1>5, <1>6, Zenon DEF c

-----------------------------------------------------------------------------
(* Joined                                                                  *)

\* Induction from N down to 1
LEMMA DownFrom ==
    ASSUME NEW N \in Nat \ {0}, NEW S, N \in S,
           \A n \in 1 .. N : n < N /\ n + 1 \in S => n \in S
    PROVE  \A n \in 1 .. N : n \in S
  <1> DEFINE D == {k \in 0 .. N - 1 : N - k \in S}
  <1>1. N - 1 \in Nat /\ 0 \in D
    OBVIOUS
  <1>2. ASSUME NEW k \in 0 .. N - 1, k < N - 1, k \in D
        PROVE  k + 1 \in D
    <2> DEFINE n == N - (k + 1)
    <2>1. n \in 1 .. N /\ n < N /\ n + 1 = N - k /\ k + 1 \in 0 .. N - 1
      BY <1>2
    <2>2. N - k \in S
      BY <1>2
    <2>3. n \in S
      <3> HIDE DEF n
      <3> QED BY <2>1, <2>2
    <2> QED BY <2>1, <2>3
  <1>3. \A k \in 0 .. N - 1 : k \in D
    <2> HIDE DEF D
    <2> QED BY <1>1, <1>2, UpTo
  <1> SUFFICES ASSUME NEW n \in 1 .. N
               PROVE  n \in S
    OBVIOUS
  <1>4. N - n \in 0 .. N - 1 /\ N - (N - n) = n
    OBVIOUS
  <1>5. N - (N - n) \in S
    BY <1>3, <1>4
  <1> QED BY <1>4, <1>5

\* The texts from each on, joined
Joinings(texts, word) ==
    {f \in [1 .. Len(texts) -> Texts] :
       /\ f[Len(texts)] = texts[Len(texts)]
       /\ \A n \in 1 .. Len(texts) - 1 : f[n] = Between(texts[n], word, f[n + 1])}

\* Two texts with a word between them are a text.
LEMMA BetweenType ==
    ASSUME NEW a \in Texts, NEW word \in Token, NEW b \in Texts
    PROVE  Between(a, word, b) \in Texts
  <1> DEFINE d == a \o <<word>>
  <1>1. <<word>> \in Seq(Token)
    BY OneToken
  <1>2. d \in Seq(Token)
    <2>1. a \in Seq(Token)
      BY DEF Texts
    <2> QED BY <1>1, <2>1, ConcatProperties
  <1> HIDE DEF d
  <1>3. d \o b \in Seq(Token)
    BY <1>2 DEF Texts
  <1> QED BY <1>3 DEF Between, Texts, d

\* Joined is the first of them.
LEMMA JoinedWork ==
    ASSUME NEW texts \in Seq(Texts), texts # <<>>, NEW word \in Token
    PROVE  \E f : f \in Joinings(texts, word) /\ Joined(texts, word) = f[1]
  <1> DEFINE N == Len(texts)
             Body(f, n) == IF n = N THEN texts[n]
                           ELSE texts[n] \o <<word>> \o f[n + 1]
             Solves(f) == f = [n \in 1 .. N |-> Body(f, n)]
             F == CHOOSE f : Solves(f)
  <1>1. N \in Nat \ {0} /\ \A n \in 1 .. N : texts[n] \in Texts
    OBVIOUS
  <1>2. Joined(texts, word) = F[1]
    BY DEF Joined
  <1> HIDE DEF N
  <1>3. \E f : Solves(f)
    <2> DEFINE G == [n \in 1 .. N - 1 |-> [v \in Texts |-> Between(texts[N - n], word, v)]]
               f(h) == [n \in 1 .. N |-> h[N - n]]
    <2>1. G \in [1 .. N - 1 -> [Texts -> Texts]]
      <3>1. ASSUME NEW n \in 1 .. N - 1, NEW v \in Texts
            PROVE  Between(texts[N - n], word, v) \in Texts
        <4>1. N - n \in 1 .. N
          BY <1>1
        <4> QED BY <1>1, <4>1, BetweenType
      <3> QED BY <3>1
    <2>2. \A n \in 1 .. N - 1, v \in Texts : G[n][v] = Between(texts[N - n], word, v)
      OBVIOUS
    <2> HIDE DEF G
    <2>3. N - 1 \in Nat /\ texts[N] \in Texts
      BY <1>1
    <2>4. PICK h : h \in Courses(Texts, texts[N], N - 1, G)
      BY <2>1, <2>3, Recursion
    <2>5. /\ h \in [0 .. N - 1 -> Texts]
          /\ h[0] = texts[N]
          /\ \A n \in 1 .. N - 1 : h[n] = G[n][h[n - 1]]
      BY <2>4 DEF Courses
    <2>6. ASSUME NEW n \in 1 .. N
          PROVE  h[N - n] = Body(f(h), n)
      <3>1. CASE n = N
        <4>1. N - n = 0
          BY <1>1, <3>1
        <4> QED BY <2>5, <3>1, <4>1
      <3>2. CASE n # N
        <4> DEFINE k == N - n
        <4>1. k \in 1 .. N - 1 /\ k - 1 \in 0 .. N - 1 /\ N - k = n
              /\ n + 1 \in 1 .. N /\ N - (n + 1) = k - 1
          BY <1>1, <3>2
        <4> HIDE DEF k
        <4>2. h[k - 1] \in Texts
          BY <2>5, <4>1
        <4>3. h[k] = Between(texts[n], word, h[k - 1])
          BY <2>2, <2>5, <4>1, <4>2
        <4>4. f(h)[n + 1] = h[k - 1]
          BY <4>1
        <4> HIDE DEF f
        <4> QED BY <3>2, <4>3, <4>4 DEF Between, k
      <3> QED BY <3>1, <3>2
    <2> HIDE DEF Body
    <2>7. Solves(f(h))
      BY <2>6
    <2> HIDE DEF Solves
    <2> QED BY <2>7
  <1>4. Solves(F)
    <2> HIDE DEF Solves
    <2> QED BY <1>3
  <1> HIDE DEF F
  <1>5. \A n \in 1 .. N : F[n] = Body(F, n)
    <2> HIDE DEF Body
    <2> QED BY <1>4
  <1>6. F[N] = texts[N] /\ \A n \in 1 .. N - 1 : F[n] = Between(texts[n], word, F[n + 1])
    <2>1. N \in 1 .. N /\ \A n \in 1 .. N - 1 : n \in 1 .. N /\ n # N
      BY <1>1
    <2> HIDE DEF Solves
    <2> QED BY <1>5, <2>1 DEF Between
  <1>7. F \in [1 .. N -> Texts]
    <2> DEFINE D == {n \in 1 .. N : F[n] \in Texts}
    <2>1. N \in D
      BY <1>1, <1>6
    <2>2. ASSUME NEW n \in 1 .. N, n < N, n + 1 \in D
          PROVE  n \in D
      <3>1. n \in 1 .. N - 1 /\ F[n + 1] \in Texts
        BY <1>1, <2>2
      <3>2. F[n] \in Texts
        BY <1>1, <1>6, <3>1, BetweenType
      <3> QED BY <3>2
    <2>3. \A n \in 1 .. N : n \in D
      <3> HIDE DEF D, Solves
      <3> QED BY <1>1, <2>1, <2>2, DownFrom
    <2>4. F = [n \in 1 .. N |-> F[n]]
      <3> HIDE DEF Body
      <3> QED BY <1>4, Zenon
    <2> HIDE DEF Solves
    <2> QED BY <2>3, <2>4
  <1> HIDE DEF Solves
  <1> QED BY <1>2, <1>6, <1>7 DEF Joinings, N

\* Closed texts, none empty and none with a word of W outside of strings
Sound(t, W) == t \in Texts /\ t # <<>> /\ Closed(t) /\ \A w \in W : Free(t, w)

\* Sound texts joined are sound, but for the word between them.
LEMMA JoinedSound ==
    ASSUME NEW W, NEW word \in Token \ {Quote}, word \notin W,
           NEW texts \in Seq(Texts), texts # <<>>,
           \A n \in 1 .. Len(texts) : Sound(texts[n], W),
           NEW f \in Joinings(texts, word)
    PROVE  \A n \in 1 .. Len(texts) : Sound(f[n], W)
  <1> DEFINE N == Len(texts)
             D == {n \in 1 .. N : Sound(f[n], W)}
  <1>1. N \in Nat \ {0}
    OBVIOUS
  <1> HIDE DEF N
  <1>2. f[N] = texts[N] /\ \A n \in 1 .. N - 1 : f[n] = Between(texts[n], word, f[n + 1])
    BY DEF Joinings, N
  <1>3. N \in D
    <2>1. N \in 1 .. N
      BY <1>1
    <2> QED BY <1>2, <2>1 DEF N
  <1>4. ASSUME NEW n \in 1 .. N, n < N, n + 1 \in D
        PROVE  n \in D
    <2>1. n \in 1 .. N - 1 /\ f[n] = Between(texts[n], word, f[n + 1])
      BY <1>1, <1>2, <1>4
    <2>2. Sound(texts[n], W) /\ Sound(f[n + 1], W)
      BY <1>4 DEF N
    <2> HIDE DEF D
    <2>3. JoinsClosed(texts[n], word, f[n + 1])
      BY <2>2, BetweenIs DEF Sound
    <2>4. Sound(f[n], W)
      BY <2>1, <2>2, <2>3 DEF Sound, JoinsClosed
    <2> QED BY <2>4 DEF D
  <1>5. \A n \in 1 .. N : n \in D
    <2> HIDE DEF D
    <2> QED BY <1>1, <1>3, <1>4, DownFrom
  <1> QED BY <1>5 DEF N

\* Texts joined by "or" hold if one of them does.
LEMMA JoinedOr ==
    ASSUME NEW results, NEW texts \in Seq(Texts), texts # <<>>,
           \A n \in 1 .. Len(texts) : Sound(texts[n], {"or"})
    PROVE  Evaluate(Joined(texts, "or"), results)
             <=> \E n \in 1 .. Len(texts) : Evaluate(texts[n], results)
  <1> DEFINE N == Len(texts)
             Some(n) == \E k \in n .. N : Evaluate(texts[k], results)
  <1>1. N \in Nat \ {0} /\ "or" \in Token \ {Quote}
    BY DEF Quote, Token, Language
  <1>2. PICK f : f \in Joinings(texts, "or") /\ Joined(texts, "or") = f[1]
    BY <1>1, JoinedWork
  <1>3. f[N] = texts[N] /\ \A n \in 1 .. N - 1 : f[n] = Between(texts[n], "or", f[n + 1])
    BY <1>2 DEF Joinings
  <1>4. \A n \in 1 .. N : Sound(texts[n], {"or"}) /\ Sound(f[n], {})
    <2>1. \A n \in 1 .. N : Sound(texts[n], {})
      BY DEF Sound
    <2> QED BY <1>1, <1>2, <2>1, JoinedSound
  <1> HIDE DEF N
  <1> DEFINE D == {n \in 1 .. N : Evaluate(f[n], results) <=> Some(n)}
  <1>5. N \in D
    <2>1. N \in 1 .. N /\ \A k : k \in N .. N <=> k = N
      BY <1>1
    <2>2. Some(N) <=> Evaluate(texts[N], results)
      BY <2>1
    <2> HIDE DEF Some
    <2> QED BY <1>3, <2>1, <2>2
  <1>6. ASSUME NEW n \in 1 .. N, n < N, n + 1 \in D
        PROVE  n \in D
    <2>1. n \in 1 .. N - 1 /\ n + 1 \in 1 .. N
      BY <1>1, <1>6
    <2>2. Evaluate(Between(texts[n], "or", f[n + 1]), results)
            <=> Evaluate(texts[n], results) \/ Evaluate(f[n + 1], results)
      BY <1>4, <2>1, EvaluateOr DEF Sound
    <2>3. Some(n) <=> Evaluate(texts[n], results) \/ Some(n + 1)
      <3>1. \A k : k \in n .. N <=> k = n \/ k \in n + 1 .. N
        BY <1>1, <2>1
      <3> QED BY <3>1, Zenon
    <2> HIDE DEF Some
    <2>4. Evaluate(f[n + 1], results) <=> Some(n + 1)
      BY <1>6
    <2>5. Evaluate(f[n], results) <=> Some(n)
      BY <1>3, <2>1, <2>2, <2>3, <2>4
    <2> QED BY <2>5
  <1>7. \A n \in 1 .. N : n \in D
    <2> HIDE DEF D
    <2> QED BY <1>1, <1>5, <1>6, DownFrom
  <1>8. Evaluate(f[1], results) <=> Some(1)
    <2>1. 1 \in 1 .. N
      BY <1>1
    <2> QED BY <1>7, <2>1, Zenon
  <1> QED BY <1>2, <1>8, Zenon DEF N

\* Texts joined by "and" hold if all of them do.
LEMMA JoinedAnd ==
    ASSUME NEW results, NEW texts \in Seq(Texts), texts # <<>>,
           \A n \in 1 .. Len(texts) : Sound(texts[n], {"or", "and"})
    PROVE  /\ Sound(Joined(texts, "and"), {"or"})
           /\ Evaluate(Joined(texts, "and"), results)
                <=> \A n \in 1 .. Len(texts) : Evaluate(texts[n], results)
  <1> DEFINE N == Len(texts)
             All(n) == \A k \in n .. N : Evaluate(texts[k], results)
  <1>1. N \in Nat \ {0} /\ "and" \in Token \ {Quote} /\ "and" \notin {"or"}
    BY DEF Quote, Token, Language
  <1>2. PICK f : f \in Joinings(texts, "and") /\ Joined(texts, "and") = f[1]
    BY <1>1, JoinedWork
  <1>3. f[N] = texts[N] /\ \A n \in 1 .. N - 1 : f[n] = Between(texts[n], "and", f[n + 1])
    BY <1>2 DEF Joinings
  <1>4. \A n \in 1 .. N : Sound(texts[n], {"or", "and"}) /\ Sound(f[n], {"or"})
    <2>1. \A n \in 1 .. N : Sound(texts[n], {"or"})
      BY DEF Sound
    <2> QED BY <1>1, <1>2, <2>1, JoinedSound
  <1> HIDE DEF N
  <1> DEFINE D == {n \in 1 .. N : Evaluate(f[n], results) <=> All(n)}
  <1>5. N \in D
    <2>1. N \in 1 .. N /\ \A k : k \in N .. N <=> k = N
      BY <1>1
    <2>2. All(N) <=> Evaluate(texts[N], results)
      BY <2>1
    <2> HIDE DEF All
    <2> QED BY <1>3, <2>1, <2>2
  <1>6. ASSUME NEW n \in 1 .. N, n < N, n + 1 \in D
        PROVE  n \in D
    <2>1. n \in 1 .. N - 1 /\ n + 1 \in 1 .. N
      BY <1>1, <1>6
    <2>2. Evaluate(Between(texts[n], "and", f[n + 1]), results)
            <=> Evaluate(texts[n], results) /\ Evaluate(f[n + 1], results)
      BY <1>4, <2>1, EvaluateAnd DEF Sound
    <2>3. All(n) <=> Evaluate(texts[n], results) /\ All(n + 1)
      <3>1. \A k : k \in n .. N <=> k = n \/ k \in n + 1 .. N
        BY <1>1, <2>1
      <3> QED BY <3>1, Zenon
    <2> HIDE DEF All
    <2>4. Evaluate(f[n + 1], results) <=> All(n + 1)
      BY <1>6
    <2>5. Evaluate(f[n], results) <=> All(n)
      BY <1>3, <2>1, <2>2, <2>3, <2>4
    <2> QED BY <2>5
  <1>7. \A n \in 1 .. N : n \in D
    <2> HIDE DEF D
    <2> QED BY <1>1, <1>5, <1>6, DownFrom
  <1>8. (Evaluate(f[1], results) <=> All(1)) /\ Sound(f[1], {"or"})
    <2>1. 1 \in 1 .. N
      BY <1>1
    <2> QED BY <1>4, <1>7, <2>1, Zenon
  <1> QED BY <1>2, <1>8, Zenon DEF N

-----------------------------------------------------------------------------
(* Comparisons                                                             *)

\* The result of the step that a comparison is about, as it is written
Subject(c) == Reference(c.id)
\* The number of its tokens, behind which the operator stands
Before(c) == Len(c.id) + 4
\* What follows the subject
Rest(c) ==
    CASE c.op = "result" -> <<>>
      [] c.op = ">="     -> <<"length", ">", "=">> \o c.lit
      [] c.op \in {">", "<"} -> <<"length", c.op>> \o c.lit
      [] OTHER -> <<c.op, Quote>> \o c.lit \o <<Quote>>
\* The whole of it
Said(c) == Subject(c) \o Rest(c)

\* The operators that are followed by a string
Quoted == {"contains", "==", "!="}

\* The words that end what stands before them
Sought == Words \ {Quote, "."}

\* The elements of a concatenation, by those of its halves
Halves(S, a, b) ==
    /\ Len(a) \in Nat /\ Len(b) \in Nat
    /\ a \o b \in Seq(S)
    /\ Len(a \o b) = Len(a) + Len(b)
    /\ \A k \in 1 .. Len(a) : (a \o b)[k] = a[k]
    /\ \A k \in 1 .. Len(b) : (a \o b)[Len(a) + k] = b[k]

\* They are so for all sequences.
LEMMA ConcatHalves ==
    ASSUME NEW S, NEW a \in Seq(S), NEW b \in Seq(S)
    PROVE  Halves(S, a, b)
  BY DEF Halves

\* One token of a text
LEMMA SliceOne ==
    ASSUME NEW S, NEW s \in Seq(S), NEW n \in 1 .. Len(s)
    PROVE  SubSeq(s, n, n) = <<s[n]>>
  <1> DEFINE t == SubSeq(s, n, n)
  <1>1. n \in Int /\ n - n + 1 = 1 /\ n + 1 - 1 = n /\ \A i \in n .. n : s[i] \in S
    OBVIOUS
  <1>2. t \in Seq(S) /\ Len(t) = 1 /\ t[1] = s[n]
    BY <1>1, SubSeqProperties
  <1> DEFINE u == <<s[n]>>
  <1>3. u \in Seq(S) /\ Len(u) = 1 /\ u[1] = s[n]
    OBVIOUS
  <1> HIDE DEF t, u
  <1>4. t = u
    BY <1>2, <1>3, SeqEqual
  <1> QED BY <1>4 DEF t, u

\* Two tokens of a text
LEMMA SliceTwo ==
    ASSUME NEW S, NEW s \in Seq(S), NEW n \in 1 .. Len(s) - 1
    PROVE  SubSeq(s, n, n + 1) = <<s[n], s[n + 1]>>
  <1> DEFINE t == SubSeq(s, n, n + 1)
  <1>1. n \in Int /\ n + 1 \in Int /\ n <= n + 1 /\ (n + 1) - n + 1 = 2
        /\ n + 1 - 1 = n /\ n + 2 - 1 = n + 1 /\ \A i \in n .. n + 1 : s[i] \in S
    OBVIOUS
  <1>2. /\ t \in Seq(S) /\ Len(t) = IF n <= n + 1 THEN (n + 1) - n + 1 ELSE 0
        /\ \A i \in 1 .. (n + 1) - n + 1 : t[i] = s[n + i - 1]
    BY <1>1, SubSeqProperties
  <1>3. 1 \in 1 .. 2 /\ 2 \in 1 .. 2
    OBVIOUS
  <1> HIDE DEF t
  <1>4. Len(t) = 2 /\ t[1] = s[n] /\ t[2] = s[n + 1]
    BY <1>1, <1>2, <1>3
  <1> DEFINE u == <<s[n], s[n + 1]>>
  <1>5. u \in Seq(S) /\ Len(u) = 2 /\ u[1] = s[n] /\ u[2] = s[n + 1]
    OBVIOUS
  <1> HIDE DEF u
  <1>6. \A i \in 1 .. 2 : t[i] = u[i]
    BY <1>4, <1>5
  <1>7. t = u
    BY <1>2, <1>4, <1>5, <1>6, SeqEqual
  <1> QED BY <1>7 DEF t, u

\* The parts of a comparison
LEMMA ComparisonParts ==
    ASSUME NEW c \in Comparison
    PROVE  /\ c.neg \in BOOLEAN
           /\ c.op \in {"result", ">", "<"} \cup Quoted
           /\ c.id \in Seq(Token) /\ Len(c.id) \in Nat
           /\ \A k \in 1 .. Len(c.id) : c.id[k] \in Token \ Words
           /\ c.lit \in Seq(Token) /\ Len(c.lit) \in Nat
           /\ \A k \in 1 .. Len(c.lit) : c.lit[k] \in Token /\ c.lit[k] # Quote
           /\ c.op \in {">", "<"} =>
                 Len(c.lit) = 1 /\ c.lit[1] \in DOMAIN Number
                 /\ c.lit[1] \in Token \ Words
  <1>1. /\ c \in [neg : BOOLEAN, op : {"result", ">", "<", "contains", "==", "!="},
                  id : Seq(Fragment), lit : Seq(STRING \ {Quote})]
        /\ c.op \in {">", "<"} =>
              Len(c.lit) = 1 /\ c.lit[1] \in DOMAIN Number \cap Fragment
    BY DEF Comparison
  <1>2. c.neg \in BOOLEAN /\ c.id \in Seq(Fragment) /\ c.lit \in Seq(STRING \ {Quote})
        /\ c.op \in {"result", ">", "<", "contains", "==", "!="}
    BY <1>1
  <1>3. Fragment \subseteq Token \ Words /\ Fragment \subseteq Token /\ STRING \subseteq Token
    BY FragmentAssumption DEF Token
  <1>4. /\ Len(c.lit) \in Nat
        /\ \A k \in 1 .. Len(c.lit) : c.lit[k] \in STRING /\ c.lit[k] # Quote
    BY <1>2
  <1>5. c.lit \in Seq(Token)
    <2>1. STRING \ {Quote} \subseteq Token
      BY <1>3
    <2>2. Seq(STRING \ {Quote}) \subseteq Seq(Token)
      BY <2>1, SeqMonotonic
    <2> QED BY <1>2, <2>2
  <1>6. c.id \in Seq(Token)
    BY <1>2, <1>3, SeqMonotonic
  <1>7. Len(c.id) \in Nat /\ \A k \in 1 .. Len(c.id) : c.id[k] \in Fragment
    BY <1>2
  <1>8. \A k \in 1 .. Len(c.id) : c.id[k] \in Token \ Words
    BY <1>3, <1>7
  <1> QED BY <1>1, <1>2, <1>3, <1>4, <1>5, <1>6, <1>7, <1>8 DEF Quoted

\* What is at each place of a subject
SubjectPlaces(c) ==
    LET u == Subject(c)
        L == Len(c.id)
    IN  /\ u \in Seq(Token) /\ L \in Nat /\ Len(u) = L + 4
        /\ u[1] = "steps" /\ u[2] = "."
        /\ \A k \in 1 .. L : u[2 + k] = c.id[k]
        /\ u[L + 3] = "." /\ u[L + 4] = "result"

\* That is how a step is referred to.
LEMMA SubjectIs ==
    ASSUME NEW c \in Comparison
    PROVE  SubjectPlaces(c)
  <1> DEFINE a == <<"steps", ".">>
             b == <<".", "result">>
             d == a \o c.id
             u == d \o b
             L == Len(c.id)
  <1>1. /\ a \in Seq(Token) /\ Len(a) = 2 /\ a[1] = "steps" /\ a[2] = "."
        /\ b \in Seq(Token) /\ Len(b) = 2 /\ b[1] = "." /\ b[2] = "result"
    BY DEF Token, Language
  <1>2. c.id \in Seq(Token) /\ L \in Nat
    BY ComparisonParts
  <1> HIDE DEF a, b, L
  <1>3. 1 \in 1 .. 2 /\ 2 \in 1 .. 2 /\ 1 \in 1 .. L + 2 /\ 2 \in 1 .. L + 2
        /\ \A k \in 1 .. L : 2 + k \in 1 .. L + 2
    BY <1>2
  <1>4. /\ d \in Seq(Token) /\ Len(d) = L + 2 /\ d[1] = a[1] /\ d[2] = a[2]
        /\ \A k \in 1 .. L : d[2 + k] = c.id[k]
    <2>1. Halves(Token, a, c.id)
      BY <1>1, <1>2, ConcatHalves
    <2> HIDE DEF d
    <2> QED BY <1>1, <1>2, <1>3, <2>1 DEF Halves, d, L
  <1> HIDE DEF d
  <1>5. /\ u \in Seq(Token) /\ Len(u) = L + 4 /\ \A k \in 1 .. L + 2 : u[k] = d[k]
        /\ u[(L + 2) + 1] = b[1] /\ u[(L + 2) + 2] = b[2]
    <2>1. Halves(Token, d, b)
      BY <1>1, <1>4, ConcatHalves
    <2> HIDE DEF u
    <2> QED BY <1>1, <1>2, <1>3, <1>4, <2>1 DEF Halves, u
  <1>6. (L + 2) + 1 = L + 3 /\ (L + 2) + 2 = L + 4
    BY <1>2
  <1>7. u = Subject(c)
    BY DEF Subject, Reference, a, b, d
  <1> HIDE DEF u
  <1>8. \A k \in 1 .. L : u[2 + k] = c.id[k]
    BY <1>3, <1>4, <1>5
  <1> QED BY <1>1, <1>2, <1>3, <1>4, <1>5, <1>6, <1>7, <1>8 DEF SubjectPlaces, L

\* No token of a subject is a word that ends what stands before it, or a quote.
LEMMA SubjectFree ==
    ASSUME NEW c \in Comparison, NEW k \in 1 .. Before(c)
    PROVE  Subject(c)[k] \notin Sought \cup {Quote}
  <1> DEFINE u == Subject(c)
             L == Len(c.id)
  <1>1. /\ L \in Nat /\ u[1] = "steps" /\ u[2] = "."
        /\ \A n \in 1 .. L : u[2 + n] = c.id[n]
        /\ u[L + 3] = "." /\ u[L + 4] = "result"
    BY SubjectIs DEF SubjectPlaces
  <1>2. k \in 1 .. L + 4
    BY DEF Before
  <1>3. \A n \in 1 .. L : c.id[n] \notin Words
    BY ComparisonParts
  <1> HIDE DEF u, L
  <1>4. CASE k \in 3 .. L + 2
    <2>1. k - 2 \in 1 .. L /\ 2 + (k - 2) = k
      BY <1>1, <1>4
    <2>2. u[k] \notin Words
      BY <1>1, <1>3, <2>1
    <2>3. Quote \in Words
      BY DEF Words
    <2> QED BY <2>2, <2>3 DEF Sought, u
  <1>5. CASE k \notin 3 .. L + 2
    <2>1. k = 1 \/ k = 2 \/ k = L + 3 \/ k = L + 4
      BY <1>1, <1>2, <1>5
    <2>2. u[k] \in {"steps", ".", "result"}
      BY <1>1, <2>1
    <2>3. \A w \in {"steps", ".", "result"} : w \notin Sought \cup {Quote}
      BY DEF Sought, Words, Quote
    <2> QED BY <2>2, <2>3 DEF u
  <1> QED BY <1>4, <1>5

\* What is at each place of a comparison
SaidPlaces(c) ==
    LET s == Said(c)
        B == Before(c)
    IN  /\ s \in Seq(Token) /\ Len(s) \in Nat
        /\ B \in Nat /\ 4 <= B /\ B <= Len(s)
        /\ \A k \in 1 .. B : s[k] = Subject(c)[k]
        /\ s[1] = "steps"
        /\ \A k \in 1 .. B : s[k] \notin Sought \cup {Quote}
        /\ c.op = "result" => Len(s) = B
        /\ c.op \in {">", "<"} =>
              Len(s) = B + 3 /\ s[B + 1] = "length" /\ s[B + 2] = c.op /\ s[B + 3] = c.lit[1]
        /\ c.op \in Quoted =>
              /\ Len(s) = B + 3 + Len(c.lit) /\ s[B + 1] = c.op /\ s[B + 2] = Quote
              /\ \A k \in 1 .. Len(c.lit) : s[B + 2 + k] = c.lit[k]
              /\ s[B + 3 + Len(c.lit)] = Quote

\* That is how every comparison of the documented language is written.
LEMMA SaidIs ==
    ASSUME NEW c \in Comparison
    PROVE  SaidPlaces(c)
  <1> DEFINE p == Subject(c)
             r == Rest(c)
             L == Len(c.lit)
             B == Before(c)
  <1>1. p \in Seq(Token) /\ Len(p) = B /\ B \in Nat /\ 4 <= B /\ p[1] = "steps"
    BY SubjectIs DEF SubjectPlaces, Before
  <1>2. /\ r \in Seq(Token)
        /\ c.op = "result" => Len(r) = 0
        /\ c.op \in {">", "<"} =>
              Len(r) = 3 /\ r[1] = "length" /\ r[2] = c.op /\ r[3] = c.lit[1]
        /\ c.op \in Quoted =>
              /\ Len(r) = 3 + L /\ r[1] = c.op /\ r[2] = Quote
              /\ \A k \in 1 .. L : r[2 + k] = c.lit[k]
              /\ r[3 + L] = Quote
    <2>1. CASE c.op = "result"
      BY <2>1 DEF Rest, Quoted
    <2>2. CASE c.op \in {">", "<"}
      <3> DEFINE w == <<"length", c.op>>
      <3>1. r = w \o c.lit
        BY <2>2 DEF Rest
      <3>2. w \in Seq(Token) /\ Len(w) = 2 /\ w[1] = "length" /\ w[2] = c.op
        BY <2>2 DEF Token, Language
      <3>3. c.lit \in Seq(Token) /\ L = 1
        BY <2>2, ComparisonParts
      <3> HIDE DEF w, r
      <3>4. r \in Seq(Token) /\ Len(r) = 3
            /\ r[1] = w[1] /\ r[2] = w[2] /\ r[2 + 1] = c.lit[1]
        <4>1. Halves(Token, w, c.lit)
          BY <3>2, <3>3, ConcatHalves
        <4>2. 1 \in 1 .. 2 /\ 2 \in 1 .. 2 /\ 1 \in 1 .. 1 /\ 2 + 1 = 3
          OBVIOUS
        <4> QED BY <3>1, <3>2, <3>3, <4>1, <4>2 DEF Halves
      <3> QED BY <2>2, <3>2, <3>4 DEF Quoted
    <2>3. CASE c.op \in Quoted
      <3> DEFINE w == <<c.op, Quote>>
                 q == <<Quote>>
                 d == w \o c.lit
      <3>1. r = d \o q
        <4>1. c.op # "result" /\ c.op # ">=" /\ c.op \notin {">", "<"}
          BY <2>3 DEF Quoted
        <4> QED BY <4>1 DEF Rest
      <3>2. w \in Seq(Token) /\ Len(w) = 2 /\ w[1] = c.op /\ w[2] = Quote
            /\ q \in Seq(Token) /\ Len(q) = 1 /\ q[1] = Quote
        BY <2>3 DEF Token, Language, Quoted
      <3>3. c.lit \in Seq(Token) /\ L \in Nat
        BY ComparisonParts
      <3> HIDE DEF w, q, r
      <3>4. d \in Seq(Token) /\ Len(d) = 2 + L /\ d[1] = w[1] /\ d[2] = w[2]
            /\ \A k \in 1 .. L : d[2 + k] = c.lit[k]
        <4>1. Halves(Token, w, c.lit)
          BY <3>2, <3>3, ConcatHalves
        <4>2. 1 \in 1 .. 2 /\ 2 \in 1 .. 2
          OBVIOUS
        <4> QED BY <3>2, <4>1, <4>2 DEF Halves
      <3> HIDE DEF d, L
      <3>5. r \in Seq(Token) /\ Len(r) = 3 + L
            /\ (\A k \in 1 .. 2 + L : r[k] = d[k]) /\ r[3 + L] = q[1]
        <4>1. Halves(Token, d, q)
          BY <3>2, <3>4, ConcatHalves
        <4>2. 1 \in 1 .. 1 /\ Len(d) + 1 = 3 + L
          BY <3>3, <3>4
        <4> QED BY <3>1, <3>2, <3>4, <4>1, <4>2 DEF Halves
      <3>6. 1 \in 1 .. 2 + L /\ 2 \in 1 .. 2 + L /\ \A k \in 1 .. L : 2 + k \in 1 .. 2 + L
        BY <3>3
      <3>7. c.op # "result" /\ c.op \notin {">", "<"}
        BY <2>3 DEF Quoted
      <3> QED BY <3>2, <3>4, <3>5, <3>6, <3>7
    <2> QED BY <2>1, <2>2, <2>3, ComparisonParts
  <1>3. L \in Nat /\ Len(r) \in Nat
    BY <1>2, ComparisonParts
  <1>f. \A k \in 1 .. B : p[k] \notin Sought \cup {Quote}
    BY SubjectFree
  <1> HIDE DEF p, r, L, B
  <1>4. Halves(Token, p, r)
    BY <1>1, <1>2, ConcatHalves
  <1> DEFINE s == p \o r
  <1>5. s = Said(c)
    BY DEF Said, p, r
  <1> HIDE DEF s
  <1>6. /\ s \in Seq(Token) /\ Len(s) = B + Len(r)
        /\ \A k \in 1 .. B : s[k] = p[k]
        /\ \A k \in 1 .. Len(r) : s[B + k] = r[k]
    BY <1>1, <1>4 DEF s, Halves
  <1>7. c.op \in {">", "<"} =>
           Len(s) = B + 3 /\ s[B + 1] = "length" /\ s[B + 2] = c.op /\ s[B + 3] = c.lit[1]
    <2> SUFFICES ASSUME c.op \in {">", "<"}
                 PROVE  /\ Len(s) = B + 3 /\ s[B + 1] = "length"
                        /\ s[B + 2] = c.op /\ s[B + 3] = c.lit[1]
      OBVIOUS
    <2>1. Len(r) = 3 /\ s[B + 1] = r[1] /\ s[B + 2] = r[2] /\ s[B + 3] = r[3]
      BY <1>2, <1>6
    <2> QED BY <1>2, <1>6, <2>1
  <1>8. c.op \in Quoted =>
           /\ Len(s) = B + 3 + L /\ s[B + 1] = c.op /\ s[B + 2] = Quote
           /\ \A k \in 1 .. L : s[B + 2 + k] = c.lit[k]
           /\ s[B + 3 + L] = Quote
    <2> SUFFICES ASSUME c.op \in Quoted
                 PROVE  /\ Len(s) = B + 3 + L /\ s[B + 1] = c.op /\ s[B + 2] = Quote
                        /\ \A k \in 1 .. L : s[B + 2 + k] = c.lit[k]
                        /\ s[B + 3 + L] = Quote
      OBVIOUS
    <2>1. Len(r) = 3 + L
      BY <1>2
    <2>2. 1 \in 1 .. 3 + L /\ 2 \in 1 .. 3 + L /\ 3 + L \in 1 .. 3 + L
          /\ B + (3 + L) = B + 3 + L
          /\ \A k \in 1 .. L : 2 + k \in 1 .. 3 + L /\ B + (2 + k) = B + 2 + k
      BY <1>1, <1>3
    <2>3. s[B + 1] = r[1] /\ s[B + 2] = r[2] /\ s[B + 3 + L] = r[3 + L]
          /\ \A k \in 1 .. L : s[B + 2 + k] = r[2 + k]
      BY <1>6, <2>1, <2>2
    <2>4. Len(s) = B + 3 + L
      BY <1>1, <1>3, <1>6, <2>1
    <2> QED BY <1>2, <2>3, <2>4
  <1>9. c.op = "result" => Len(s) = B
    BY <1>1, <1>2, <1>6
  <1>10. 1 \in 1 .. B /\ Len(s) \in Nat /\ B <= Len(s)
    BY <1>1, <1>3, <1>6
  <1> QED BY <1>1, <1>f, <1>5, <1>6, <1>7, <1>8, <1>9, <1>10 DEF SaidPlaces, L, B, p

\* A place before which there is no quote is in no string.
LEMMA Unquoted ==
    ASSUME NEW s, NEW i, \A j \in 1 .. i : s[j] # Quote
    PROVE  ~InString(s, i)
  <1>1. {j \in 1 .. i : s[j] = Quote} = {}
    OBVIOUS
  <1>2. Cardinality({}) = 0 /\ 0 % 2 # 1
    BY FS_EmptySet
  <1> QED BY <1>1, <1>2 DEF InString

\* The places of a comparison that are in no string
SaidOpen(c) ==
    LET s == Said(c)
        B == Before(c)
    IN  /\ Closed(s)
        /\ B + 1 <= Len(s) => ~InString(s, B + 1)
        /\ \A i \in 1 .. Len(s) : ~InString(s, i) =>
              \/ i \in 1 .. B
              \/ c.op \in {">", "<"} /\ i \in {B + 1, B + 2, B + 3}
              \/ c.op \in Quoted /\ i \in {B + 1, B + 3 + Len(c.lit)}

\* Only what is between the quotes is in a string.
LEMMA OpenIs ==
    ASSUME NEW c \in Comparison
    PROVE  SaidOpen(c)
  <1> DEFINE s == Said(c)
             L == Len(c.lit)
             B == Before(c)
  <1>1. SaidPlaces(c)
    BY SaidIs
  <1>2. s \in Seq(Token) /\ Len(s) \in Nat /\ B \in Nat /\ 4 <= B /\ B <= Len(s)
    BY <1>1 DEF SaidPlaces
  <1>3. \A k \in 1 .. B : s[k] # Quote
    BY <1>1 DEF SaidPlaces
  <1>4. CASE c.op = "result"
    <2>1. Len(s) = B
      BY <1>1, <1>4 DEF SaidPlaces
    <2>2. \A i \in 1 .. B : ~InString(s, i)
      <3> TAKE i \in 1 .. B
      <3> HIDE DEF s, B
      <3>1. \A j \in 1 .. i : s[j] # Quote
        BY <1>2, <1>3
      <3> QED BY <3>1, Unquoted
    <2>3. Closed(s) /\ ~(B + 1 <= Len(s))
      <3> HIDE DEF s, B
      <3>1. B \in 1 .. B
        BY <1>2
      <3> QED BY <1>2, <2>1, <2>2, <3>1 DEF Closed
    <2> QED BY <2>1, <2>3 DEF SaidOpen
  <1>5. CASE c.op \in {">", "<"}
    <2>1. Len(s) = B + 3 /\ s[B + 1] = "length" /\ s[B + 2] = c.op /\ s[B + 3] = c.lit[1]
      BY <1>1, <1>5 DEF SaidPlaces
    <2>2. c.lit[1] # Quote /\ c.op # Quote /\ "length" # Quote
      <3>1. c.lit[1] # Quote
        BY <1>5, ComparisonParts DEF Words
      <3> QED BY <1>5, <3>1 DEF Quote
    <2>3. \A i \in 1 .. B + 3 : s[i] # Quote
      <3> HIDE DEF s, B
      <3> TAKE i \in 1 .. B + 3
      <3>1. i \in 1 .. B \/ i = B + 1 \/ i = B + 2 \/ i = B + 3
        BY <1>2
      <3> QED BY <1>3, <2>1, <2>2, <3>1
    <2>4. \A i \in 1 .. B + 3 : ~InString(s, i)
      <3> TAKE i \in 1 .. B + 3
      <3> HIDE DEF s, B
      <3>1. \A j \in 1 .. i : s[j] # Quote
        BY <1>2, <2>3
      <3> QED BY <3>1, Unquoted
    <2>5. Closed(s) /\ ~InString(s, B + 1)
          /\ \A i \in 1 .. B + 3 : i \in 1 .. B \/ i \in {B + 1, B + 2, B + 3}
      <3> HIDE DEF s, B
      <3>1. B + 3 \in 1 .. B + 3 /\ B + 1 \in 1 .. B + 3
        BY <1>2
      <3> QED BY <1>2, <2>1, <2>4, <3>1 DEF Closed
    <2> QED BY <1>5, <2>1, <2>5 DEF SaidOpen
  <1>6. CASE c.op \in Quoted
    <2>1. /\ Len(s) = B + 3 + L /\ s[B + 1] = c.op /\ s[B + 2] = Quote
          /\ \A k \in 1 .. L : s[B + 2 + k] = c.lit[k]
          /\ s[B + 3 + L] = Quote
      BY <1>1, <1>6 DEF SaidPlaces
    <2>2. L \in Nat /\ \A k \in 1 .. L : c.lit[k] # Quote
      BY ComparisonParts
    <2> HIDE DEF s, L, B
    <2>3. ~InString(s, B + 1)
      <3>1. s[B + 1] # Quote
        BY <1>6, <2>1 DEF Quoted, Quote
      <3>2. \A i \in 1 .. B + 1 : i \in 1 .. B \/ i = B + 1
        BY <1>2
      <3>3. \A i \in 1 .. B + 1 : s[i] # Quote
        BY <1>3, <3>1, <3>2
      <3> QED BY <3>3, Unquoted
    <2>4. InString(s, B + 2)
      <3>1. InString(s, (B + 1) + 1) <=> (InString(s, B + 1) <=> s[(B + 1) + 1] # Quote)
        <4>1. B + 1 \in Nat
          BY <1>2
        <4> QED BY <4>1, InStringStep
      <3>2. (B + 1) + 1 = B + 2
        BY <1>2
      <3> QED BY <2>1, <2>3, <3>1, <3>2
    <2> DEFINE D == {k \in 0 .. L : InString(s, B + 2 + k)}
    <2>5. 0 \in D
      <3>1. B + 2 + 0 = B + 2 /\ 0 \in 0 .. L
        BY <1>2, <2>2
      <3> QED BY <2>4, <3>1
    <2>6. ASSUME NEW k \in 0 .. L, k < L, k \in D
          PROVE  k + 1 \in D
      <3>1. /\ k + 1 \in 1 .. L /\ B + 2 + k \in Nat
            /\ B + 2 + (k + 1) = (B + 2 + k) + 1 /\ k + 1 \in 0 .. L
        BY <1>2, <2>2, <2>6
      <3>2. s[(B + 2 + k) + 1] # Quote
        BY <2>1, <2>2, <3>1
      <3>3. InString(s, (B + 2 + k) + 1) <=> (InString(s, B + 2 + k) <=> s[(B + 2 + k) + 1] # Quote)
        BY <3>1, InStringStep
      <3>4. InString(s, B + 2 + k)
        BY <2>6
      <3> QED BY <3>1, <3>2, <3>3, <3>4
    <2>7. \A k \in 0 .. L : InString(s, B + 2 + k)
      <3>1. \A k \in 0 .. L : k \in D
        <4> HIDE DEF D
        <4> QED BY <2>2, <2>5, <2>6, UpTo
      <3> QED BY <3>1
    <2>8. ~InString(s, B + 3 + L)
      <3>1. L \in 0 .. L /\ (B + 2 + L) + 1 = B + 3 + L /\ B + 2 + L \in Nat
        BY <1>2, <2>2
      <3>2. InString(s, (B + 2 + L) + 1) <=> (InString(s, B + 2 + L) <=> s[(B + 2 + L) + 1] # Quote)
        BY <3>1, InStringStep
      <3>3. InString(s, B + 2 + L) /\ s[(B + 2 + L) + 1] = Quote
        BY <2>1, <2>7, <3>1
      <3> QED BY <3>1, <3>2, <3>3
    <2>9. ASSUME NEW i \in 1 .. Len(s), ~InString(s, i)
          PROVE  i \in 1 .. B \/ i \in {B + 1, B + 3 + L}
      <3>1. CASE i >= B + 2 /\ i <= B + 2 + L
        <4>1. i - (B + 2) \in 0 .. L /\ B + 2 + (i - (B + 2)) = i
          BY <1>2, <2>2, <3>1
        <4>2. InString(s, B + 2 + (i - (B + 2)))
          BY <2>7, <4>1
        <4> QED BY <2>9, <4>1, <4>2
      <3>2. CASE ~(i >= B + 2 /\ i <= B + 2 + L)
        BY <1>2, <2>1, <2>2, <3>2
      <3> QED BY <3>1, <3>2
    <2>10. Closed(s)
      BY <2>1, <2>8 DEF Closed
    <2> QED BY <1>6, <2>3, <2>9, <2>10 DEF SaidOpen, s, L, B
  <1> QED BY <1>4, <1>5, <1>6, ComparisonParts

\* A word of the language other than the operator of a comparison is at most
\* in its string.
LEMMA SaidFree ==
    ASSUME NEW c \in Comparison, NEW w \in Sought, w # c.op,
           c.op \in {">", "<"} => w # "length"
    PROVE  Free(Said(c), w)
  <1> DEFINE s == Said(c)
             B == Before(c)
  <1>1. SaidPlaces(c) /\ SaidOpen(c)
    BY SaidIs, OpenIs
  <1>2. w \in Words /\ w # Quote
    BY DEF Sought
  <1>4. DOMAIN s = 1 .. Len(s)
    BY <1>1 DEF SaidPlaces
  <1>5. ASSUME NEW i \in 1 .. Len(s), ~InString(s, i)
        PROVE  s[i] # w
    <2>1. CASE i \in 1 .. B
      BY <1>1, <2>1 DEF SaidPlaces
    <2>2. CASE c.op \in {">", "<"} /\ i \in {B + 1, B + 2, B + 3}
      <3>1. s[B + 1] = "length" /\ s[B + 2] = c.op /\ s[B + 3] = c.lit[1]
        BY <1>1, <2>2 DEF SaidPlaces
      <3>2. c.lit[1] # w
        BY <1>2, <2>2, ComparisonParts
      <3> HIDE DEF s, B
      <3> QED BY <2>2, <3>1, <3>2
    <2>3. CASE c.op \in Quoted /\ i \in {B + 1, B + 3 + Len(c.lit)}
      <3>1. s[B + 1] = c.op /\ s[B + 3 + Len(c.lit)] = Quote
        BY <1>1, <2>3 DEF SaidPlaces
      <3> HIDE DEF s, B
      <3> QED BY <1>2, <2>3, <3>1
    <2> QED BY <1>1, <1>5, <2>1, <2>2, <2>3 DEF SaidOpen
  <1> HIDE DEF s
  <1> QED BY <1>4, <1>5 DEF Free, s

\* A comparison is sound, and it does not begin with "not".
LEMMA SaidSound ==
    ASSUME NEW c \in Comparison
    PROVE  Sound(Said(c), {"or", "and"}) /\ Head(Said(c)) # "not"
  <1> DEFINE s == Said(c)
  <1>1. SaidPlaces(c) /\ Closed(s)
    BY SaidIs, OpenIs DEF SaidOpen
  <1>2. s \in Seq(Token) /\ 4 <= Len(s) /\ s[1] = "steps"
    BY <1>1 DEF SaidPlaces
  <1>3. c.op # "or" /\ c.op # "and"
    BY ComparisonParts DEF Quoted
  <1>4. "or" \in Sought /\ "and" \in Sought /\ "or" # "length" /\ "and" # "length"
    BY DEF Sought, Words, Quote
  <1>5. Free(s, "or") /\ Free(s, "and")
    BY <1>3, <1>4, SaidFree
  <1> HIDE DEF s
  <1>6. s # <<>> /\ Head(s) = "steps"
    BY <1>2
  <1> QED BY <1>1, <1>2, <1>5, <1>6 DEF Sound, Texts, s

\* Where an operator is, its words are.
LEMMA OperatorPlace ==
    ASSUME NEW s \in Seq(Token), NEW op \in Seq(Token), op # <<>>,
           NEW i \in 1 .. Len(s) - Len(op) + 1, SubSeq(s, i, i + Len(op) - 1) = op
    PROVE  i \in 1 .. Len(s) /\ \A k \in 1 .. Len(op) : s[i + k - 1] = op[k]
  <1>1. Len(s) \in Nat /\ Len(op) \in Nat \ {0}
    OBVIOUS
  <1>2. i \in 1 .. Len(s) /\ i + Len(op) - 1 \in Int /\ i + Len(op) - 1 <= Len(s)
    BY <1>1
  <1>3. \A j \in i .. i + Len(op) - 1 : s[j] \in Token
    BY <1>1, <1>2
  <1> DEFINE n == i + Len(op) - 1
             t == SubSeq(s, i, n)
  <1>4. n - i + 1 = Len(op) /\ n \in Int
    BY <1>1, <1>2
  <1>5. \A k \in 1 .. n - i + 1 : t[k] = s[i + k - 1]
    <2> HIDE DEF n
    <2> QED BY <1>2, <1>3, <1>4, SubSeqProperties DEF n
  <1>6. t = op
    OBVIOUS
  <1> HIDE DEF n, t
  <1> QED BY <1>2, <1>4, <1>5, <1>6

\* An operator whose first word is in strings only is not found.
LEMMA OperatorAbsent ==
    ASSUME NEW s \in Seq(Token), NEW op \in Seq(Token), op # <<>>, Free(s, op[1])
    PROVE  FindOperator(s, op) = 0
  <1> DEFINE T == {i \in 1 .. Len(s) - Len(op) + 1 :
                     ~InString(s, i) /\ SubSeq(s, i, i + Len(op) - 1) = op}
  <1>1. T = {}
    <2> SUFFICES ASSUME NEW i \in T
                 PROVE  FALSE
      OBVIOUS
    <2>1. i \in 1 .. Len(s) /\ \A k \in 1 .. Len(op) : s[i + k - 1] = op[k]
      BY OperatorPlace
    <2>2. 1 \in 1 .. Len(op) /\ i + 1 - 1 = i /\ i \in DOMAIN s
      BY <2>1
    <2>3. s[i] = op[1] /\ ~InString(s, i)
      BY <2>1, <2>2
    <2> QED BY <2>2, <2>3 DEF Free
  <1>2. First(T) = 0
    <2> HIDE DEF T
    <2> QED BY <1>1 DEF First
  <1> QED BY <1>2 DEF FindOperator

\* What is made of the operator that is found
Compared(op, left, right) ==
    CASE op = <<"contains">>         -> Within(Literal(right), left)
      [] op = <<"length", ">">>      -> Len(left) > Threshold(right)
      [] op = <<"length", ">", "=">> -> Len(left) >= Threshold(right)
      [] op = <<"length", "<">>      -> Len(left) < Threshold(right)
      [] op = <<"==">>               -> left = Literal(right)
      [] op = <<"!=">>               -> left # Literal(right)

\* If one operator is found and no other, it is the one compared by.
LEMMA ComparisonBy ==
    ASSUME NEW s, NEW results, NEW k \in 1 .. 6,
           FindOperator(s, Operators[k]) # 0,
           \A m \in 1 .. 6 : m # k => FindOperator(s, Operators[m]) = 0
    PROVE  EvaluateComparison(s, results) =
              Compared(Operators[k],
                       Resolve(Left(s, FindOperator(s, Operators[k])), results),
                       Right(s, FindOperator(s, Operators[k]), Len(Operators[k])))
  <1> DEFINE found == {n \in DOMAIN Operators : FindOperator(s, Operators[n]) # 0}
             op    == Operators[Min(found)]
             at    == FindOperator(s, op)
             left  == Resolve(Left(s, at), results)
             right == Right(s, at, Len(op))
  <1>1. DOMAIN Operators = 1 .. 6
    BY DEF Operators
  <1>2. found = {k}
    BY <1>1
  <1>3. Min(found) = k
    <2>1. {k} \subseteq Nat /\ {k} # {}
      OBVIOUS
    <2>2. Min({k}) \in {k}
      BY <2>1, LeastOf
    <2> QED BY <1>2, <2>2
  <1>4. EvaluateComparison(s, results) = Compared(op, left, right)
    <2>1. found # {}
      BY <1>2
    <2> HIDE DEF found, op, at, left, right
    <2> QED BY <2>1, Zenon DEF EvaluateComparison, Compared, found, op, at, left, right
  <1>5. op = Operators[k]
    BY <1>3
  <1> HIDE DEF op, found
  <1> QED BY <1>4, <1>5

\* The operators by their numbers
LEMMA OperatorNumbers ==
    /\ Operators[1] = <<"contains">>
    /\ Operators[2] = <<"length", ">">>
    /\ Operators[3] = <<"length", ">", "=">>
    /\ Operators[4] = <<"length", "<">>
    /\ Operators[5] = <<"==">>
    /\ Operators[6] = <<"!=">>
  BY DEF Operators

\* The number of the operator of a comparison
Nth(op) ==
    CASE op = "contains" -> 1 [] op = ">" -> 2 [] op = "<" -> 4
      [] op = "==" -> 5 [] op = "!=" -> 6

\* Their words are tokens, and the first one is a word of the language.
LEMMA OperatorWords ==
    ASSUME NEW m \in 1 .. 6
    PROVE  /\ Operators[m] \in Seq(Token) /\ Operators[m] # <<>>
           /\ Len(Operators[m]) \in Nat \ {0}
           /\ Operators[m][1] \in {"contains", "length", "==", "!="}
  <1>1. "contains" \in Token /\ "length" \in Token /\ "==" \in Token /\ "!=" \in Token
        /\ ">" \in Token /\ "<" \in Token /\ "=" \in Token
    BY DEF Token, Language
  <1>2. CASE m = 1
    BY <1>1, <1>2, OperatorNumbers
  <1>3. CASE m = 2
    BY <1>1, <1>3, OperatorNumbers
  <1>4. CASE m = 3
    BY <1>1, <1>4, OperatorNumbers
  <1>5. CASE m = 4
    BY <1>1, <1>5, OperatorNumbers
  <1>6. CASE m = 5
    BY <1>1, <1>6, OperatorNumbers
  <1>7. CASE m = 6
    BY <1>1, <1>7, OperatorNumbers
  <1> QED BY <1>2, <1>3, <1>4, <1>5, <1>6, <1>7

\* An operator that begins with another word than that of the comparison is
\* not found.
LEMMA OtherAbsent ==
    ASSUME NEW c \in Comparison, NEW m \in 1 .. 6, Operators[m][1] # c.op,
           c.op \in {">", "<"} => Operators[m][1] # "length"
    PROVE  FindOperator(Said(c), Operators[m]) = 0
  <1>1. Operators[m] \in Seq(Token) /\ Operators[m] # <<>>
        /\ Operators[m][1] \in {"contains", "length", "==", "!="}
    BY OperatorWords
  <1>2. Operators[m][1] \in Sought
    BY <1>1 DEF Sought, Words, Quote
  <1>3. Free(Said(c), Operators[m][1])
    BY <1>2, SaidFree
  <1>4. Said(c) \in Seq(Token)
    BY SaidIs DEF SaidPlaces
  <1> QED BY <1>1, <1>3, <1>4, OperatorAbsent

\* Where a word of the language stands in a comparison, outside of strings
LEMMA WordPlace ==
    ASSUME NEW c \in Comparison, NEW w \in Sought \ {">", "<"},
           NEW i \in 1 .. Len(Said(c)), ~InString(Said(c), i), Said(c)[i] = w
    PROVE  i = Before(c) + 1
  <1> DEFINE s == Said(c)
             B == Before(c)
  <1>1. SaidPlaces(c) /\ SaidOpen(c)
    BY SaidIs, OpenIs
  <1>2. w \in Words /\ w # Quote
    BY DEF Sought
  <1>3. i \notin 1 .. B
    BY <1>1 DEF SaidPlaces
  <1>4. CASE c.op \in {">", "<"} /\ i \in {B + 1, B + 2, B + 3}
    <2>1. s[B + 2] = c.op /\ s[B + 3] = c.lit[1] /\ s[i] = w
      BY <1>1, <1>4 DEF SaidPlaces
    <2>2. c.lit[1] # w
      BY <1>2, <1>4, ComparisonParts
    <2> HIDE DEF s, B
    <2> QED BY <1>4, <2>1, <2>2 DEF B
  <1>5. CASE c.op \in Quoted /\ i \in {B + 1, B + 3 + Len(c.lit)}
    <2>1. s[B + 3 + Len(c.lit)] = Quote /\ s[i] = w
      BY <1>1, <1>5 DEF SaidPlaces
    <2> HIDE DEF s
    <2> QED BY <1>2, <1>5, <2>1
  <1> QED BY <1>1, <1>3, <1>4, <1>5 DEF SaidOpen

\* Of the operators that begin with "length", only that of the comparison
\* is found.
LEMMA LengthAbsent ==
    ASSUME NEW c \in Comparison, c.op \in {">", "<"}, NEW m \in {2, 3, 4},
           m # Nth(c.op)
    PROVE  FindOperator(Said(c), Operators[m]) = 0
  <1> DEFINE s == Said(c)
             B == Before(c)
             op == Operators[m]
             T == {i \in 1 .. Len(s) - Len(op) + 1 :
                     ~InString(s, i) /\ SubSeq(s, i, i + Len(op) - 1) = op}
  <1>1. s \in Seq(Token) /\ B \in Nat /\ s[B + 2] = c.op /\ s[B + 3] = c.lit[1]
    BY SaidIs DEF SaidPlaces
  <1>2. m \in 1 .. 6 /\ op \in Seq(Token) /\ op # <<>>
    BY OperatorWords
  <1>3. op[1] = "length" /\ Len(op) >= 2 /\ Len(op) \in Nat
        /\ (m = 2 => op[2] = ">") /\ (m = 4 => op[2] = "<")
        /\ (m = 3 => Len(op) = 3 /\ op[2] = ">" /\ op[3] = "=")
    <2>1. CASE m = 2
      BY <2>1, OperatorNumbers
    <2>2. CASE m = 3
      BY <2>2, OperatorNumbers
    <2>3. CASE m = 4
      BY <2>3, OperatorNumbers
    <2> QED BY <2>1, <2>2, <2>3
  <1> HIDE DEF s, op, B
  <1>4. T = {}
    <2> SUFFICES ASSUME NEW i \in T
                 PROVE  FALSE
      OBVIOUS
    <2>1. i \in 1 .. Len(s) - Len(op) + 1 /\ SubSeq(s, i, i + Len(op) - 1) = op
          /\ ~InString(s, i)
      OBVIOUS
    <2> HIDE DEF T
    <2>2. i \in 1 .. Len(s) /\ \A k \in 1 .. Len(op) : s[i + k - 1] = op[k]
      BY <1>1, <1>2, <2>1, OperatorPlace
    <2>3. 1 \in 1 .. Len(op) /\ 2 \in 1 .. Len(op) /\ i + 1 - 1 = i
      BY <1>3, <2>2
    <2>4. s[i] = "length"
      BY <1>3, <2>2, <2>3
    <2>5. i = B + 1
      <3>1. "length" \in Sought \ {">", "<"}
        BY DEF Sought, Words, Quote
      <3> QED BY <2>1, <2>2, <2>4, <3>1, WordPlace DEF s, B
    <2>6. c.op = op[2]
      <3>1. s[i + 2 - 1] = op[2] /\ i + 2 - 1 = B + 2
        BY <1>1, <2>2, <2>3, <2>5
      <3> QED BY <1>1, <3>1
    <2>7. m = 3
      BY <1>3, <2>6 DEF Nth
    <2>8. c.lit[1] = "="
      <3>0. Len(op) = 3
        BY <1>3, <2>7
      <3>1. 3 \in 1 .. Len(op) /\ i + 3 - 1 = B + 3
        BY <1>1, <2>5, <3>0
      <3>2. s[i + 3 - 1] = op[3]
        BY <2>2, <3>1
      <3> QED BY <1>1, <1>3, <2>7, <3>1, <3>2
    <2>9. c.lit[1] # "="
      BY ComparisonParts DEF Words
    <2> QED BY <2>8, <2>9
  <1>5. First(T) = 0
    <2> HIDE DEF T
    <2> QED BY <1>4 DEF First
  <1> QED BY <1>5 DEF FindOperator, s, op

\* The operator of a comparison is found right behind its subject.
LEMMA OwnFound ==
    ASSUME NEW c \in Comparison, c.op # "result"
    PROVE  /\ Nth(c.op) \in 1 .. 6
           /\ FindOperator(Said(c), Operators[Nth(c.op)]) = Before(c) + 1
           /\ Operators[Nth(c.op)] = IF c.op \in Quoted THEN <<c.op>> ELSE <<"length", c.op>>
  <1> DEFINE s == Said(c)
             B == Before(c)
             op == IF c.op \in Quoted THEN <<c.op>> ELSE <<"length", c.op>>
             T == {i \in 1 .. Len(s) - Len(op) + 1 :
                     ~InString(s, i) /\ SubSeq(s, i, i + Len(op) - 1) = op}
  <1>1. Nth(c.op) \in 1 .. 6 /\ Operators[Nth(c.op)] = op
    <2>1. CASE c.op = "contains"
      BY <2>1, OperatorNumbers DEF Nth, Quoted
    <2>2. CASE c.op = ">"
      BY <2>2, OperatorNumbers DEF Nth, Quoted
    <2>3. CASE c.op = "<"
      BY <2>3, OperatorNumbers DEF Nth, Quoted
    <2>4. CASE c.op = "=="
      BY <2>4, OperatorNumbers DEF Nth, Quoted
    <2>5. CASE c.op = "!="
      BY <2>5, OperatorNumbers DEF Nth, Quoted
    <2> QED BY <2>1, <2>2, <2>3, <2>4, <2>5, ComparisonParts DEF Quoted
  <1>2. op \in Seq(Token) /\ op # <<>> /\ Len(op) \in Nat \ {0}
        /\ op[1] \in Sought \ {">", "<"}
    <2>1. op \in Seq(Token) /\ op # <<>>
          /\ Len(op) \in Nat \ {0} /\ op[1] \in {"contains", "length", "==", "!="}
      <3> HIDE DEF op
      <3> QED BY <1>1, OperatorWords
    <2> HIDE DEF op
    <2> QED BY <2>1 DEF Sought, Words, Quote
  <1>3. SaidPlaces(c) /\ SaidOpen(c)
    BY SaidIs, OpenIs
  <1>4. B + 1 \in 1 .. Len(s) - Len(op) + 1
        /\ SubSeq(s, B + 1, (B + 1) + Len(op) - 1) = op
    <2>1. CASE c.op \in Quoted
      <3> DEFINE L == Len(c.lit)
      <3>1. /\ s \in Seq(Token) /\ Len(s) \in Nat /\ Len(s) = B + 3 + L
            /\ L \in Nat /\ s[B + 1] = c.op /\ B \in Nat
        BY <1>3, <2>1, ComparisonParts DEF SaidPlaces
      <3>2. op = <<c.op>> /\ Len(op) = 1
        BY <2>1
      <3> HIDE DEF s, op, B, L
      <3>3. /\ (B + 1) + Len(op) - 1 = B + 1 /\ B + 1 \in 1 .. Len(s) - Len(op) + 1
            /\ B + 1 \in 1 .. Len(s)
        BY <3>1, <3>2
      <3>4. SubSeq(s, B + 1, B + 1) = <<s[B + 1]>>
        BY <3>1, <3>3, SliceOne
      <3> QED BY <3>1, <3>2, <3>3, <3>4
    <2>2. CASE c.op \notin Quoted
      <3>1. c.op \in {">", "<"}
        BY <2>2, ComparisonParts
      <3>2. /\ s \in Seq(Token) /\ Len(s) = B + 3 /\ B \in Nat
            /\ s[B + 1] = "length" /\ s[B + 2] = c.op
        BY <1>3, <3>1 DEF SaidPlaces
      <3>3. op = <<"length", c.op>> /\ Len(op) = 2
        BY <2>2
      <3> HIDE DEF s, op, B
      <3>4. (B + 1) + Len(op) - 1 = B + 2 /\ B + 1 \in 1 .. Len(s) - Len(op) + 1
        BY <3>2, <3>3
      <3>5. SubSeq(s, B + 1, B + 2) = <<s[B + 1], s[B + 2]>>
        <4>1. B + 1 \in 1 .. Len(s) - 1 /\ (B + 1) + 1 = B + 2
          BY <3>2
        <4>2. SubSeq(s, B + 1, (B + 1) + 1) = <<s[B + 1], s[(B + 1) + 1]>>
          BY <3>2, <4>1, SliceTwo
        <4> QED BY <4>1, <4>2
      <3> QED BY <3>2, <3>3, <3>4, <3>5
    <2> QED BY <2>1, <2>2
  <1>6. s \in Seq(Token) /\ Len(s) \in Nat /\ B \in Nat
    BY <1>3 DEF SaidPlaces
  <1>5. ~InString(s, B + 1)
    <2>1. B + 1 <= Len(s)
      <3> HIDE DEF s, op, B
      <3> QED BY <1>2, <1>4, <1>6
    <2> QED BY <1>3, <2>1 DEF SaidOpen
  <1> HIDE DEF s, op, B
  <1>7. B + 1 \in T
    BY <1>4, <1>5
  <1>8. \A i \in T : i = B + 1
    <2> TAKE i \in T
    <2>1. i \in 1 .. Len(s) - Len(op) + 1 /\ SubSeq(s, i, i + Len(op) - 1) = op
          /\ ~InString(s, i)
      OBVIOUS
    <2> HIDE DEF T
    <2>2. i \in 1 .. Len(s) /\ \A k \in 1 .. Len(op) : s[i + k - 1] = op[k]
      BY <1>2, <1>6, <2>1, OperatorPlace
    <2>3. 1 \in 1 .. Len(op) /\ i + 1 - 1 = i
      BY <1>2, <2>2
    <2>4. s[i] = op[1]
      BY <2>2, <2>3
    <2> QED BY <1>2, <2>1, <2>2, <2>4, WordPlace DEF s, B
  <1>9. First(T) = B + 1
    <2>1. T = {B + 1}
      BY <1>7, <1>8
    <2>2. {B + 1} \subseteq Nat \ {0} /\ {B + 1} # {}
      BY <1>6
    <2>3. First({B + 1}) \in {B + 1}
      BY <2>2, FirstIs
    <2> HIDE DEF T
    <2> QED BY <2>1, <2>3
  <1>10. FindOperator(s, op) = B + 1
    BY <1>9 DEF FindOperator
  <1> QED BY <1>1, <1>10 DEF s, op, B

\* No other operator is found, even if it stands in the quotes.
LEMMA SaidOperators ==
    ASSUME NEW c \in Comparison, c.op # "result", NEW m \in 1 .. 6, m # Nth(c.op)
    PROVE  FindOperator(Said(c), Operators[m]) = 0
  <1>1. CASE c.op \in {">", "<"} /\ m \in {2, 3, 4}
    BY <1>1, LengthAbsent
  <1>2. CASE c.op \in {">", "<"} /\ m \in {1, 5, 6}
    <2>1. Operators[m][1] # c.op /\ Operators[m][1] # "length"
      <3>1. CASE m = 1
        BY <1>2, <3>1, OperatorNumbers
      <3>2. CASE m = 5
        BY <1>2, <3>2, OperatorNumbers
      <3>3. CASE m = 6
        BY <1>2, <3>3, OperatorNumbers
      <3> QED BY <1>2, <3>1, <3>2, <3>3
    <2> QED BY <2>1, OtherAbsent
  <1>3. CASE c.op \in Quoted
    <2>1. Operators[m][1] # c.op
      <3>1. CASE m = 1
        BY <1>3, <3>1, OperatorNumbers DEF Nth, Quoted
      <3>2. CASE m \in {2, 3, 4}
        BY <1>3, <3>2, OperatorNumbers DEF Quoted
      <3>3. CASE m = 5
        BY <1>3, <3>3, OperatorNumbers DEF Nth, Quoted
      <3>4. CASE m = 6
        BY <1>3, <3>4, OperatorNumbers DEF Nth, Quoted
      <3> QED BY <3>1, <3>2, <3>3, <3>4
    <2>2. c.op \notin {">", "<"}
      BY <1>3 DEF Quoted
    <2> QED BY <2>1, <2>2, OtherAbsent
  <1>4. c.op \in {">", "<"} \/ c.op \in Quoted
    BY ComparisonParts
  <1>5. m \in {2, 3, 4} \/ m \in {1, 5, 6}
    OBVIOUS
  <1> QED BY <1>1, <1>2, <1>3, <1>4, <1>5

-----------------------------------------------------------------------------
(* What a condition means                                                  *)

\* The answer of a step, or nothing
Answered(results, id) == IF id \in DOMAIN results THEN results[id] ELSE <<>>

\* The subject of a comparison stands for the answer of the step.
LEMMA SubjectResolves ==
    ASSUME NEW c \in Comparison, NEW results
    PROVE  Resolve(Subject(c), results) = Answered(results, c.id)
  <1> DEFINE u == Subject(c)
             L == Len(c.id)
             rest == SubSeq(u, 3, Len(u))
             T == {i \in DOMAIN rest : rest[i] = "."}
             id == SubSeq(rest, 1, L)
  <1>1. /\ u \in Seq(Token) /\ L \in Nat /\ Len(u) = L + 4
        /\ u[1] = "steps" /\ u[2] = "."
        /\ \A k \in 1 .. L : u[2 + k] = c.id[k]
        /\ u[L + 3] = "." /\ u[L + 4] = "result"
    BY SubjectIs DEF SubjectPlaces
  <1>2. c.id \in Seq(Token) /\ \A k \in 1 .. L : c.id[k] # "."
    BY ComparisonParts DEF Words
  <1> HIDE DEF u, L
  <1>3. /\ rest \in Seq(Token) /\ Len(rest) = L + 2
        /\ \A k \in 1 .. L + 2 : rest[k] = u[2 + k]
    <2>1. \A j \in 3 .. L + 4 : u[j] \in Token
      BY <1>1
    <2>2. /\ SubSeq(u, 3, L + 4) \in Seq(Token)
          /\ Len(SubSeq(u, 3, L + 4)) = IF 3 <= L + 4 THEN (L + 4) - 3 + 1 ELSE 0
          /\ \A k \in 1 .. (L + 4) - 3 + 1 : SubSeq(u, 3, L + 4)[k] = u[3 + k - 1]
      BY <1>1, <2>1, SubSeqProperties
    <2>3. rest = SubSeq(u, 3, L + 4)
      BY <1>1
    <2>4. 3 <= L + 4 /\ (L + 4) - 3 + 1 = L + 2 /\ \A k \in 1 .. L + 2 : 3 + k - 1 = 2 + k
      BY <1>1
    <2> HIDE DEF rest
    <2> QED BY <2>2, <2>3, <2>4
  <1> HIDE DEF rest
  <1>4. (\A k \in 1 .. L : rest[k] = c.id[k]) /\ rest[L + 1] = "." /\ rest[L + 2] = "result"
    <2>1. L + 1 \in 1 .. L + 2 /\ L + 2 \in 1 .. L + 2 /\ 2 + (L + 1) = L + 3
          /\ 2 + (L + 2) = L + 4 /\ \A k \in 1 .. L : k \in 1 .. L + 2
      BY <1>1
    <2> QED BY <1>1, <1>3, <2>1
  <1>5. T = {L + 1}
    <2>1. DOMAIN rest = 1 .. L + 2
      BY <1>3
    <2>2. L + 1 \in 1 .. L + 2
          /\ \A i \in 1 .. L + 2 : i \in 1 .. L \/ i = L + 1 \/ i = L + 2
      BY <1>1
    <2>3. \A i \in 1 .. L + 2 : rest[i] = "." => i = L + 1
      BY <1>2, <1>4, <2>2
    <2> QED BY <1>4, <2>1, <2>2, <2>3
  <1>6. First(T) = L + 1 /\ L + 1 # 0
    <2>1. {L + 1} \subseteq Nat \ {0} /\ {L + 1} # {}
      BY <1>1
    <2>2. First({L + 1}) \in {L + 1}
      BY <2>1, FirstIs
    <2> HIDE DEF T
    <2> QED BY <1>1, <1>5, <2>2
  <1>7. id = c.id
    <2>1. \A j \in 1 .. L : rest[j] \in Token
      BY <1>1, <1>3
    <2>2. /\ id \in Seq(Token) /\ Len(id) = IF 1 <= L THEN L - 1 + 1 ELSE 0
          /\ \A k \in 1 .. L - 1 + 1 : id[k] = rest[1 + k - 1]
      BY <1>1, <2>1, SubSeqProperties
    <2>3. L - 1 + 1 = L /\ (~(1 <= L) => L = 0) /\ \A k \in 1 .. L : 1 + k - 1 = k
      BY <1>1
    <2> HIDE DEF id
    <2>4. Len(id) = L /\ \A k \in 1 .. L : id[k] = c.id[k]
      BY <1>4, <2>2, <2>3
    <2> QED BY <1>2, <2>2, <2>4, SeqEqual DEF L
  <1>8. Right(u, 1, 2) = rest /\ Left(rest, L + 1) = id
    <2>1. 1 + 2 = 3 /\ (L + 1) - 1 = L
      BY <1>1
    <2> QED BY <2>1 DEF Right, Left, rest
  <1>9. Resolve(u, results) =
          IF Left(rest, L + 1) \in DOMAIN results THEN results[Left(rest, L + 1)] ELSE <<>>
    <2>1. Len(u) >= 2
      BY <1>1
    <2>2. First({i \in DOMAIN Right(u, 1, 2) : Right(u, 1, 2)[i] = "."}) = L + 1
      BY <1>6, <1>8
    <2> HIDE DEF T, id
    <2> QED BY <1>1, <1>6, <1>8, <2>1, <2>2, Zenon DEF Resolve
  <1> QED BY <1>7, <1>8, <1>9 DEF Answered, u

\* A text is within another one if there is a part before it.
LEMMA WithinIs ==
    ASSUME NEW part \in Texts, NEW s \in Texts
    PROVE  Within(part, s) <=> \E p \in Prefixes(s) : IsPrefix(p \o part, s)
  <1> DEFINE M == Len(part)
             N == Len(s)
  <1>1. M \in Nat /\ N \in Nat /\ s \in Seq(Token) /\ part \in Seq(Token)
    BY DEF Texts
  <1> HIDE DEF M, N
  <1>2. ASSUME NEW i \in 1 .. N - M + 1, SubSeq(s, i, i + M - 1) = part
        PROVE  \E p \in Prefixes(s) : IsPrefix(p \o part, s)
    <2> DEFINE p == SubSeq(s, 1, i - 1)
               n == i + M - 1
    <2>1. i \in Nat /\ i - 1 \in 0 .. N /\ n \in i - 1 .. N /\ n \in 0 .. N /\ 1 \in 1 .. N + 1
          /\ 1 - 1 = 0 /\ (i - 1) + 1 = i
      BY <1>1
    <2>2. p \in Prefixes(s)
      <3>1. i - 1 \in 0 .. Len(s)
        BY <2>1 DEF N
      <3> QED BY <3>1 DEF Prefixes
    <2> HIDE DEF n
    <2>3. SubSeq(s, 1, i - 1) \o SubSeq(s, (i - 1) + 1, n) = SubSeq(s, 1, n)
      <3>1. 1 \in 1 .. Len(s) + 1 /\ i - 1 \in 1 - 1 .. Len(s) /\ n \in i - 1 .. Len(s)
        BY <2>1 DEF N
      <3> QED BY <1>1, <3>1, ConcatAdjacentSubSeq
    <2>4. p \o part = SubSeq(s, 1, n)
      BY <1>2, <2>1, <2>3 DEF n
    <2> HIDE DEF p
    <2>5. Len(SubSeq(s, 1, n)) = n
      <3>1. \A j \in 1 .. n : s[j] \in Token
        BY <1>1, <2>1 DEF N
      <3>2. Len(SubSeq(s, 1, n)) = IF 1 <= n THEN n - 1 + 1 ELSE 0
        BY <2>1, <3>1, SubSeqProperties
      <3> QED BY <2>1, <3>2
    <2>6. n <= Len(s)
      BY <2>1 DEF N
    <2>7. SubSeq(SubSeq(s, 1, n), 1, n) = SubSeq(s, 1, n)
      <3>1. SubSeq(s, 1, n) \in Seq(Token)
        <4>1. \A j \in 1 .. n : s[j] \in Token
          BY <1>1, <2>1 DEF N
        <4> QED BY <2>1, <4>1, SubSeqProperties
      <3> QED BY <2>5, <3>1, SubSeqFull
    <2>8. IsPrefix(p \o part, s)
      BY <2>4, <2>5, <2>6, <2>7 DEF IsPrefix
    <2> QED BY <2>2, <2>8
  <1>3. ASSUME NEW l \in 0 .. N, IsPrefix(SubSeq(s, 1, l) \o part, s)
        PROVE  \E i \in 1 .. N - M + 1 : SubSeq(s, i, i + M - 1) = part
    <2> DEFINE p == SubSeq(s, 1, l)
               c == p \o part
               i == l + 1
    <2>1. p \in Seq(Token) /\ Len(p) = l
      <3>1. \A j \in 1 .. l : s[j] \in Token
        BY <1>1 DEF N
      <3>2. /\ p \in Seq(Token)
            /\ Len(p) = IF 1 <= l THEN l - 1 + 1 ELSE 0
        BY <3>1, SubSeqProperties
      <3> HIDE DEF p
      <3> QED BY <3>2
    <2> HIDE DEF p
    <2>2. Halves(Token, p, part)
      BY <1>1, <2>1, ConcatHalves
    <2>3. c \in Seq(Token) /\ Len(c) = l + M /\ \A k \in 1 .. M : c[l + k] = part[k]
      BY <2>1, <2>2 DEF Halves, M
    <2>4. Len(c) <= N /\ SubSeq(c, 1, Len(c)) = SubSeq(s, 1, Len(c))
      BY <1>3 DEF IsPrefix, p, N
    <2> HIDE DEF c
    <2>5. c = SubSeq(s, 1, l + M)
      BY <2>3, <2>4, SubSeqFull
    <2>6. l + M \in 0 .. N
      BY <1>1, <2>3, <2>4
    <2>7. \A j \in 1 .. l + M : c[j] = s[j]
      <3>1. \A j \in 1 .. l + M : s[j] \in Token
        BY <1>1, <2>6 DEF N
      <3>2. \A j \in 1 .. (l + M) - 1 + 1 : SubSeq(s, 1, l + M)[j] = s[1 + j - 1]
        BY <2>6, <3>1, SubSeqProperties
      <3>3. (l + M) - 1 + 1 = l + M /\ \A j \in 1 .. l + M : 1 + j - 1 = j
        BY <2>6
      <3> QED BY <2>5, <3>2, <3>3
    <2>8. i \in 1 .. N - M + 1 /\ i + M - 1 = l + M /\ l + M \in Int
      BY <1>1, <2>6
    <2> DEFINE d == SubSeq(s, i, l + M)
    <2>9. d \in Seq(Token) /\ Len(d) = M /\ \A k \in 1 .. M : d[k] = part[k]
      <3>1. \A j \in i .. l + M : s[j] \in Token
        BY <1>1, <2>6 DEF N
      <3>2. /\ d \in Seq(Token)
            /\ Len(d) = IF i <= l + M THEN (l + M) - i + 1 ELSE 0
            /\ \A k \in 1 .. (l + M) - i + 1 : d[k] = s[i + k - 1]
        <4> HIDE DEF i
        <4> QED BY <2>8, <3>1, SubSeqProperties
      <3>3. (l + M) - i + 1 = M /\ (i <= l + M <=> 1 <= M)
            /\ \A k \in 1 .. M : i + k - 1 = l + k /\ l + k \in 1 .. l + M
        BY <1>1
      <3> HIDE DEF d, i
      <3>4. Len(d) = M
        BY <1>1, <3>2, <3>3
      <3>5. \A k \in 1 .. M : d[k] = part[k]
        BY <2>3, <2>7, <3>2, <3>3
      <3> QED BY <3>2, <3>4, <3>5
    <2> HIDE DEF d
    <2>10. d = part
      BY <1>1, <2>9, SeqEqual DEF M
    <2> HIDE DEF i
    <2> QED BY <2>8, <2>10 DEF d
  <1> QED BY <1>2, <1>3 DEF Within, Prefixes, M, N

\* What stands left of the operator of a comparison is its subject.
LEMMA LeftIs ==
    ASSUME NEW c \in Comparison
    PROVE  Left(Said(c), Before(c) + 1) = Subject(c)
  <1> DEFINE s == Said(c)
             B == Before(c)
             t == SubSeq(s, 1, B)
             u == Subject(c)
  <1>1. /\ s \in Seq(Token) /\ Len(s) \in Nat /\ B \in Nat /\ 4 <= B /\ B <= Len(s)
        /\ \A k \in 1 .. B : s[k] = u[k]
    BY SaidIs DEF SaidPlaces
  <1>2. u \in Seq(Token) /\ Len(u) = B
    BY SubjectIs DEF SubjectPlaces, Before
  <1> HIDE DEF s, u, B
  <1>3. /\ t \in Seq(Token) /\ Len(t) = B /\ \A k \in 1 .. B : t[k] = s[k]
    <2>1. \A j \in 1 .. B : s[j] \in Token
      BY <1>1
    <2>2. /\ t \in Seq(Token) /\ Len(t) = IF 1 <= B THEN B - 1 + 1 ELSE 0
          /\ \A k \in 1 .. B - 1 + 1 : t[k] = s[1 + k - 1]
      BY <1>1, <2>1, SubSeqProperties
    <2>3. 1 <= B /\ B - 1 + 1 = B /\ \A k \in 1 .. B : 1 + k - 1 = k
      BY <1>1
    <2> HIDE DEF t
    <2> QED BY <2>2, <2>3
  <1> HIDE DEF t
  <1>4. \A k \in 1 .. B : t[k] = u[k]
    BY <1>1, <1>3
  <1>5. t = u
    BY <1>2, <1>3, <1>4, SeqEqual
  <1>6. (B + 1) - 1 = B
    BY <1>1
  <1> QED BY <1>5, <1>6 DEF Left, s, t, u, B

\* What stands right of "length >" and "length <" is the number.
LEMMA NumberIs ==
    ASSUME NEW c \in Comparison, c.op \in {">", "<"}
    PROVE  Threshold(Right(Said(c), Before(c) + 1, 2)) = Number[c.lit[1]]
  <1> DEFINE s == Said(c)
             B == Before(c)
  <1>1. s \in Seq(Token) /\ Len(s) = B + 3 /\ s[B + 3] = c.lit[1] /\ B \in Nat
    BY SaidIs DEF SaidPlaces
  <1>2. c.lit[1] \in DOMAIN Number
    BY ComparisonParts
  <1> HIDE DEF s, B
  <1>3. SubSeq(s, B + 3, B + 3) = <<s[B + 3]>>
    <2>1. B + 3 \in 1 .. Len(s)
      BY <1>1
    <2> QED BY <1>1, <2>1, SliceOne
  <1>4. (B + 1) + 2 = B + 3
    BY <1>1
  <1>5. Right(s, B + 1, 2) = <<c.lit[1]>>
    BY <1>1, <1>3, <1>4 DEF Right
  <1> QED BY <1>2, <1>5 DEF Threshold, s, B

\* What stands right of the other operators is the string.
LEMMA LiteralIs ==
    ASSUME NEW c \in Comparison, c.op \in Quoted
    PROVE  Literal(Right(Said(c), Before(c) + 1, 1)) = c.lit
  <1> DEFINE s == Said(c)
             L == Len(c.lit)
             B == Before(c)
             r == SubSeq(s, B + 2, B + 3 + L)
             t == SubSeq(r, 2, L + 1)
  <1>1. /\ s \in Seq(Token) /\ Len(s) = B + 3 + L /\ B \in Nat /\ s[B + 2] = Quote
        /\ \A k \in 1 .. L : s[B + 2 + k] = c.lit[k]
        /\ s[B + 3 + L] = Quote
    BY SaidIs DEF SaidPlaces
  <1>2. L \in Nat /\ c.lit \in Seq(Token)
    BY ComparisonParts
  <1> HIDE DEF s, B
  <1>3. Right(s, B + 1, 1) = r
    <2>1. (B + 1) + 1 = B + 2
      BY <1>1
    <2> HIDE DEF L
    <2> QED BY <1>1, <2>1 DEF Right
  <1>4. /\ r \in Seq(Token) /\ Len(r) = L + 2
        /\ \A k \in 1 .. L + 2 : r[k] = s[B + 1 + k]
    <2> HIDE DEF L
    <2>1. \A j \in B + 2 .. B + 3 + L : s[j] \in Token
      BY <1>1, <1>2
    <2>2. /\ r \in Seq(Token)
          /\ Len(r) = IF B + 2 <= B + 3 + L THEN (B + 3 + L) - (B + 2) + 1 ELSE 0
          /\ \A k \in 1 .. (B + 3 + L) - (B + 2) + 1 : r[k] = s[(B + 2) + k - 1]
      <3>1. B + 2 \in Int /\ B + 3 + L \in Int
        BY <1>1, <1>2
      <3> QED BY <2>1, <3>1, SubSeqProperties
    <2>3. /\ B + 2 <= B + 3 + L /\ (B + 3 + L) - (B + 2) + 1 = L + 2
          /\ \A k \in 1 .. L + 2 : (B + 2) + k - 1 = B + 1 + k
      BY <1>1, <1>2
    <2> HIDE DEF r
    <2> QED BY <2>2, <2>3
  <1> HIDE DEF r
  <1>5. r[1] = Quote /\ r[L + 2] = Quote /\ \A k \in 1 .. L : r[k + 1] = c.lit[k]
    <2> HIDE DEF L
    <2>1. 1 \in 1 .. L + 2 /\ L + 2 \in 1 .. L + 2 /\ B + 1 + 1 = B + 2
          /\ B + 1 + (L + 2) = B + 3 + L
          /\ \A k \in 1 .. L : k + 1 \in 1 .. L + 2 /\ B + 1 + (k + 1) = B + 2 + k
      BY <1>1, <1>2
    <2> QED BY <1>1, <1>4, <2>1
  <1>6. t \in Seq(Token) /\ Len(t) = L /\ \A k \in 1 .. L : t[k] = c.lit[k]
    <2>1. \A j \in 2 .. L + 1 : r[j] \in Token
      BY <1>2, <1>4
    <2> HIDE DEF L
    <2>2. /\ t \in Seq(Token)
          /\ Len(t) = IF 2 <= L + 1 THEN (L + 1) - 2 + 1 ELSE 0
          /\ \A k \in 1 .. (L + 1) - 2 + 1 : t[k] = r[2 + k - 1]
      BY <1>2, <2>1, SubSeqProperties
    <2>3. (2 <= L + 1 <=> 1 <= L) /\ (L + 1) - 2 + 1 = L /\ \A k \in 1 .. L : 2 + k - 1 = k + 1
      BY <1>2
    <2> HIDE DEF t
    <2>4. Len(t) = L
      BY <1>2, <2>2, <2>3
    <2> QED BY <1>5, <2>2, <2>3, <2>4
  <1> HIDE DEF t
  <1>7. t = c.lit
    BY <1>2, <1>6, SeqEqual
  <1>8. Len(r) >= 2 /\ Head(r) = Quote /\ Last(r) = Quote /\ Len(r) - 1 = L + 1
    BY <1>2, <1>4, <1>5 DEF Last
  <1>9. Literal(r) = SubSeq(r, 2, L + 1)
    <2> HIDE DEF L
    <2> QED BY <1>8, Zenon DEF Literal
  <1> QED BY <1>3, <1>7, <1>9 DEF s, t, B

\* The value of a comparison is what it means.
LEMMA SaidCompares ==
    ASSUME NEW c \in Comparison, NEW results, Answered(results, c.id) \in Texts
    PROVE  EvaluateComparison(Said(c), results) <=> Holds(c, Answered(results, c.id))
  <1> DEFINE s == Said(c)
             v == Answered(results, c.id)
             k == Nth(c.op)
  <1>1. CASE c.op = "result"
    <2>1. \A m \in 1 .. 6 : FindOperator(s, Operators[m]) = 0
      <3> TAKE m \in 1 .. 6
      <3>1. Operators[m][1] # c.op /\ c.op \notin {">", "<"}
        BY <1>1, OperatorWords
      <3> QED BY <3>1, OtherAbsent
    <2>2. s = Subject(c)
      <3>1. Subject(c) \in Seq(Token)
        BY SubjectIs DEF SubjectPlaces
      <3>2. Rest(c) = <<>>
        BY <1>1 DEF Rest
      <3> QED BY <3>1, <3>2, ConcatEmptySeq DEF Said
    <2> HIDE DEF s
    <2>3. EvaluateComparison(s, results) = (Resolve(s, results) # <<>>)
      <3>1. {n \in DOMAIN Operators : FindOperator(s, Operators[n]) # 0} = {}
        <4>1. DOMAIN Operators = 1 .. 6
          BY DEF Operators
        <4> QED BY <2>1, <4>1
      <3> QED BY <3>1, Zenon DEF EvaluateComparison
    <2>4. Resolve(s, results) = v
      BY <2>2, SubjectResolves
    <2>5. Holds(c, v) <=> v # <<>>
      BY <1>1 DEF Holds
    <2> HIDE DEF v
    <2> QED BY <2>3, <2>4, <2>5 DEF s, v
  <1>2. CASE c.op # "result"
    <2> DEFINE op == Operators[k]
               right == Right(s, Before(c) + 1, Len(op))
    <2>1. k \in 1 .. 6 /\ FindOperator(s, op) = Before(c) + 1
          /\ op = IF c.op \in Quoted THEN <<c.op>> ELSE <<"length", c.op>>
      BY <1>2, OwnFound
    <2>2. \A m \in 1 .. 6 : m # k => FindOperator(s, Operators[m]) = 0
      BY <1>2, SaidOperators
    <2>3. EvaluateComparison(s, results)
            = Compared(op, Resolve(Left(s, Before(c) + 1), results), right)
      <3> HIDE DEF s, k
      <3>1. FindOperator(s, Operators[k]) = Before(c) + 1 /\ FindOperator(s, Operators[k]) # 0
        <4>1. Before(c) \in Nat
          BY SaidIs DEF SaidPlaces
        <4> QED BY <2>1, <4>1
      <3>2. EvaluateComparison(s, results) =
              Compared(Operators[k],
                       Resolve(Left(s, FindOperator(s, Operators[k])), results),
                       Right(s, FindOperator(s, Operators[k]), Len(Operators[k])))
        BY <2>1, <2>2, <3>1, ComparisonBy
      <3> QED BY <3>1, <3>2
    <2>4. Resolve(Left(s, Before(c) + 1), results) = v
      BY LeftIs, SubjectResolves
    <2> HIDE DEF v, k, op
    <2>5. CASE c.op \in Quoted
      <3>1. op = <<c.op>> /\ Len(op) = 1
        BY <2>1, <2>5
      <3>2. Literal(right) = c.lit
        BY <2>5, <3>1, LiteralIs
      <3> HIDE DEF right, s
      <3>3. CASE c.op = "contains"
        <4>1. Compared(op, v, right) = Within(c.lit, v)
          BY <3>1, <3>2, <3>3 DEF Compared
        <4>2. c.lit \in Texts /\ v \in Texts
          BY ComparisonParts DEF Texts, v
        <4>3. Within(c.lit, v) <=> \E p \in Prefixes(v) : IsPrefix(p \o c.lit, v)
          BY <4>2, WithinIs
        <4>4. Holds(c, v) <=> \E p \in Prefixes(v) : IsPrefix(p \o c.lit, v)
          BY <3>3 DEF Holds
        <4> QED BY <2>3, <2>4, <4>1, <4>3, <4>4 DEF s, v
      <3>4. CASE c.op = "=="
        <4>1. Compared(op, v, right) = (v = c.lit)
          BY <3>1, <3>2, <3>4 DEF Compared
        <4>2. Holds(c, v) <=> v = c.lit
          BY <3>4 DEF Holds
        <4> QED BY <2>3, <2>4, <4>1, <4>2 DEF s, v
      <3>5. CASE c.op = "!="
        <4>1. Compared(op, v, right) = (v # c.lit)
          BY <3>1, <3>2, <3>5 DEF Compared
        <4>2. Holds(c, v) <=> v # c.lit
          BY <3>5 DEF Holds
        <4> QED BY <2>3, <2>4, <4>1, <4>2 DEF s, v
      <3> QED BY <2>5, <3>3, <3>4, <3>5 DEF Quoted
    <2>6. CASE c.op \in {">", "<"}
      <3>1. op = <<"length", c.op>> /\ Len(op) = 2
        BY <2>1, <2>6 DEF Quoted
      <3>2. Threshold(right) = Number[c.lit[1]]
        BY <2>6, <3>1, NumberIs
      <3> HIDE DEF right, s
      <3>3. CASE c.op = ">"
        <4>1. Compared(op, v, right) = (Len(v) > Number[c.lit[1]])
          BY <3>1, <3>2, <3>3 DEF Compared
        <4>2. Holds(c, v) <=> Len(v) > Number[c.lit[1]]
          BY <3>3 DEF Holds
        <4> QED BY <2>3, <2>4, <4>1, <4>2 DEF s, v
      <3>4. CASE c.op = "<"
        <4>1. Compared(op, v, right) = (Len(v) < Number[c.lit[1]])
          BY <3>1, <3>2, <3>4 DEF Compared
        <4>2. Holds(c, v) <=> Len(v) < Number[c.lit[1]]
          BY <3>4 DEF Holds
        <4> QED BY <2>3, <2>4, <4>1, <4>2 DEF s, v
      <3> QED BY <2>6, <3>3, <3>4
    <2> QED BY <1>2, <2>5, <2>6, ComparisonParts
  <1> QED BY <1>1, <1>2

\* What a comparison with its "not" is
LEMMA WrittenIs ==
    ASSUME NEW c \in Comparison
    PROVE  Written(c, Quote) = IF c.neg THEN <<"not">> \o Said(c) ELSE Said(c)
  <1> DEFINE n == IF c.neg THEN <<"not">> ELSE <<>>
             p == Subject(c)
             r == Rest(c)
  <1>1. Written(c, Quote) = (n \o p) \o r
    BY Zenon DEF Written, Subject, Rest
  <1>2. p \in Seq(Token) /\ n \in Seq(Token)
    <2>1. p \in Seq(Token)
      BY SubjectIs DEF SubjectPlaces
    <2>2. n \in Seq(Token)
      <3>1. "not" \in Token
        BY DEF Token, Language
      <3>2. CASE c.neg
        BY <3>1, <3>2
      <3>3. CASE ~c.neg
        BY <3>3
      <3> QED BY <3>2, <3>3
    <2> QED BY <2>1, <2>2
  <1>3. r \in Seq(Token)
    <2>1. SaidPlaces(c)
      BY SaidIs
    <2>2. CASE c.op = "result"
      BY <2>2 DEF Rest
    <2>3. CASE c.op \in {">", "<"}
      <3>1. <<"length", c.op>> \in Seq(Token) /\ c.lit \in Seq(Token)
        BY <2>3, ComparisonParts DEF Token, Language
      <3>2. r = <<"length", c.op>> \o c.lit
        BY <2>3 DEF Rest
      <3> HIDE DEF r
      <3> QED BY <3>1, <3>2, ConcatProperties
    <2>4. CASE c.op \in Quoted
      <3> DEFINE w == <<c.op, Quote>>
                 q == <<Quote>>
      <3>1. w \in Seq(Token) /\ q \in Seq(Token) /\ c.lit \in Seq(Token)
        BY <2>4, ComparisonParts DEF Token, Language, Quoted
      <3>2. r = (w \o c.lit) \o q
        BY <2>4 DEF Rest, Quoted
      <3> HIDE DEF r, w, q
      <3>3. w \o c.lit \in Seq(Token)
        BY <3>1, ConcatProperties
      <3> QED BY <3>1, <3>2, <3>3, ConcatProperties
    <2> QED BY <2>2, <2>3, <2>4, ComparisonParts
  <1> HIDE DEF n, p, r
  <1>4. (n \o p) \o r = n \o (p \o r)
    BY <1>2, <1>3, ConcatAssociative
  <1>5. p \o r = Said(c) /\ Said(c) \in Seq(Token)
    BY SaidIs DEF Said, p, r, SaidPlaces
  <1>6. <<>> \o Said(c) = Said(c)
    BY <1>5, ConcatEmptySeq
  <1> QED BY <1>1, <1>4, <1>5, <1>6 DEF n

\* What a comparison means is true or false.
LEMMA HoldsType ==
    ASSUME NEW c \in Comparison, NEW v
    PROVE  Holds(c, v) \in BOOLEAN
  <1>1. CASE c.op = "result"
    BY <1>1 DEF Holds
  <1>2. CASE c.op = ">"
    BY <1>2 DEF Holds
  <1>3. CASE c.op = "<"
    BY <1>3 DEF Holds
  <1>4. CASE c.op = "contains"
    BY <1>4 DEF Holds
  <1>5. CASE c.op = "=="
    BY <1>5 DEF Holds
  <1>6. CASE c.op = "!="
    BY <1>6 DEF Holds
  <1> QED BY <1>1, <1>2, <1>3, <1>4, <1>5, <1>6, ComparisonParts DEF Quoted

\* A comparison as it is written is sound, and it is worth what it means.
LEMMA WrittenEvaluates ==
    ASSUME NEW c \in Comparison, NEW results, Answered(results, c.id) \in Texts
    PROVE  /\ Sound(Written(c, Quote), {"or", "and"})
           /\ Evaluate(Written(c, Quote), results)
                <=> Holds(c, Answered(results, c.id)) # c.neg
  <1> DEFINE s == Said(c)
             n == <<"not">>
             w == n \o s
             E == [t \in Texts |-> Evaluate(t, results)]
  <1>1. Sound(s, {"or", "and"}) /\ Head(s) # "not"
    BY SaidSound
  <1>2. s \in Texts /\ s # <<>> /\ Closed(s) /\ Free(s, "or") /\ Free(s, "and")
    BY <1>1 DEF Sound
  <1>3. EvaluateComparison(s, results) <=> Holds(c, Answered(results, c.id))
    BY SaidCompares
  <1> HIDE DEF s
  <1>4. Evaluate(s, results) <=> Holds(c, Answered(results, c.id))
    <2>1. Evaluate(s, results) = Judged(E, s, results)
      BY <1>2, EvaluateIs DEF EvaluatesBy
    <2>2. FindKeyword(s, "or") = 0 /\ FindKeyword(s, "and") = 0
      BY <1>2, NotFound DEF Texts
    <2> HIDE DEF E
    <2>3. Judged(E, s, results) = EvaluateComparison(s, results)
      BY <1>1, <1>2, <2>2, Zenon DEF Judged
    <2> QED BY <1>3, <2>1, <2>3
  <1>5. CASE ~c.neg
    <2>1. Written(c, Quote) = s
      BY <1>5, WrittenIs DEF s
    <2>2. Holds(c, Answered(results, c.id)) # c.neg <=> Holds(c, Answered(results, c.id))
      <3>1. c.neg = FALSE
        BY <1>5, ComparisonParts
      <3>2. Holds(c, Answered(results, c.id)) \in BOOLEAN
        BY HoldsType
      <3> QED BY <3>1, <3>2
    <2> QED BY <1>1, <1>4, <2>1, <2>2
  <1>6. CASE c.neg
    <2>1. Written(c, Quote) = w
      BY <1>6, WrittenIs DEF s
    <2>2. n \in Seq(Token) /\ s \in Seq(Token) /\ "not" \in Token /\ "not" # Quote
          /\ "or" # "not" /\ "and" # "not" /\ Len(n) = 1 /\ n[1] = "not"
      <3>1. "not" \in Token /\ "not" # Quote
        BY DEF Token, Language, Quote
      <3>2. n \in Seq(Token)
        BY <3>1, OneToken
      <3> QED BY <1>2, <3>1, <3>2 DEF Texts
    <2>3. Closed(n) /\ Free(n, "or") /\ Free(n, "and")
      BY <2>2, OneWord
    <2> HIDE DEF n
    <2>4. Behind(Token, n, s) /\ Halves(Token, n, s)
      BY <2>2, <2>3, ClosedConcat, ConcatHalves
    <2>5. Closed(w) /\ Free(w, "or") /\ Free(w, "and")
      BY <1>2, <2>3, <2>4 DEF Behind
    <2>6. /\ w \in Seq(Token) /\ Len(s) \in Nat \ {0} /\ Len(w) = 1 + Len(s)
          /\ w[1] = "not" /\ \A i \in 1 .. Len(s) : w[1 + i] = s[i]
      <3>1. Len(s) \in Nat \ {0} /\ 1 \in 1 .. 1
        BY <1>2, <2>2
      <3> HIDE DEF w
      <3> QED BY <2>2, <2>4, <3>1 DEF Halves, w
    <2> HIDE DEF w
    <2>7. w # <<>> /\ Len(w) > 1 /\ Head(w) = "not"
      BY <2>6
    <2>8. Tail(w) = s
      <3>1. /\ Tail(w) \in Seq(Token) /\ Len(Tail(w)) = Len(w) - 1
            /\ \A i \in 1 .. Len(Tail(w)) : Tail(w)[i] = w[i + 1]
        BY <2>6, <2>7, HeadTailProperties
      <3>2. Len(Tail(w)) = Len(s) /\ \A i \in 1 .. Len(s) : Tail(w)[i] = s[i]
        BY <2>6, <3>1
      <3> QED BY <2>2, <3>1, <3>2, SeqEqual
    <2>9. Evaluate(w, results) <=> ~Evaluate(s, results)
      <3>1. Evaluate(w, results) = Judged(E, w, results)
        BY <2>6, EvaluateIs DEF EvaluatesBy, Texts
      <3>2. FindKeyword(w, "or") = 0 /\ FindKeyword(w, "and") = 0
        BY <2>5, <2>6, NotFound
      <3>3. E[s] = Evaluate(s, results)
        BY <1>2
      <3> HIDE DEF E
      <3>4. Judged(E, w, results) = ~E[s]
        BY <2>7, <2>8, <3>2, Zenon DEF Judged
      <3> QED BY <3>1, <3>3, <3>4
    <2>10. Holds(c, Answered(results, c.id)) # c.neg <=> ~Holds(c, Answered(results, c.id))
      <3>1. c.neg = TRUE
        BY <1>6, ComparisonParts
      <3>2. Holds(c, Answered(results, c.id)) \in BOOLEAN
        BY HoldsType
      <3> QED BY <3>1, <3>2
    <2>11. Sound(w, {"or", "and"})
      BY <2>5, <2>6, <2>7 DEF Sound, Texts
    <2> QED BY <1>4, <2>1, <2>9, <2>10, <2>11
  <1> QED BY <1>5, <1>6

\* What a condition means when the results are these
True(cond, results) ==
    cond = <<>> \/ \E d \in DOMAIN cond : \A k \in DOMAIN cond[d] :
       Holds(cond[d][k], Answered(results, cond[d][k].id)) # cond[d][k].neg

\* A conjunction
LEMMA ConjunctionEvaluates ==
    ASSUME NEW results, \A id : Answered(results, id) \in Texts,
           NEW cs \in Seq(Comparison), cs # <<>>
    PROVE  /\ Sound(Conjunction(cs, Quote), {"or"})
           /\ Evaluate(Conjunction(cs, Quote), results)
                <=> \A k \in DOMAIN cs :
                       Holds(cs[k], Answered(results, cs[k].id)) # cs[k].neg
  <1> DEFINE texts == [k \in DOMAIN cs |-> Written(cs[k], Quote)]
  <1>1. DOMAIN cs = 1 .. Len(cs) /\ Len(cs) \in Nat \ {0}
        /\ \A k \in 1 .. Len(cs) : cs[k] \in Comparison
    OBVIOUS
  <1>2. ASSUME NEW k \in 1 .. Len(cs)
        PROVE  /\ Sound(Written(cs[k], Quote), {"or", "and"})
               /\ Evaluate(Written(cs[k], Quote), results)
                    <=> Holds(cs[k], Answered(results, cs[k].id)) # cs[k].neg
    BY <1>1, WrittenEvaluates
  <1>3. texts \in Seq(Texts) /\ Len(texts) = Len(cs) /\ texts # <<>>
        /\ \A k \in 1 .. Len(cs) : texts[k] = Written(cs[k], Quote)
    <2>1. \A k \in 1 .. Len(cs) : Written(cs[k], Quote) \in Texts
      BY <1>2 DEF Sound
    <2>2. texts = [k \in 1 .. Len(cs) |-> Written(cs[k], Quote)]
      BY <1>1
    <2>3. texts \in [1 .. Len(cs) -> Texts]
      BY <2>1, <2>2
    <2>4. \A k \in 1 .. Len(cs) : texts[k] = Written(cs[k], Quote)
      BY <2>2
    <2> HIDE DEF texts
    <2>5. texts \in Seq(Texts) /\ Len(texts) = Len(cs)
      BY <1>1, <2>3
    <2> QED BY <1>1, <2>4, <2>5
  <1> HIDE DEF texts
  <1>4. \A k \in 1 .. Len(texts) : Sound(texts[k], {"or", "and"})
    BY <1>2, <1>3
  <1>5. /\ Sound(Joined(texts, "and"), {"or"})
        /\ Evaluate(Joined(texts, "and"), results)
             <=> \A k \in 1 .. Len(texts) : Evaluate(texts[k], results)
    BY <1>3, <1>4, JoinedAnd
  <1>6. Conjunction(cs, Quote) = Joined(texts, "and")
    BY DEF Conjunction, texts
  <1>7. (\A k \in 1 .. Len(texts) : Evaluate(texts[k], results))
          <=> \A k \in DOMAIN cs : Holds(cs[k], Answered(results, cs[k].id)) # cs[k].neg
    BY <1>1, <1>2, <1>3
  <1> QED BY <1>5, <1>6, <1>7

\* A condition as it is written is worth what it means.
LEMMA TextEvaluates ==
    ASSUME NEW results, \A id : Answered(results, id) \in Texts,
           NEW cond \in Seq(Seq(Comparison) \ {<<>>})
    PROVE  Evaluate(Text(cond, Quote), results) <=> True(cond, results)
  <1> DEFINE texts == [d \in DOMAIN cond |-> Conjunction(cond[d], Quote)]
  <1>1. CASE cond = <<>>
    <2>1. Text(cond, Quote) = <<>> /\ <<>> \in Texts
      BY <1>1 DEF Text, Texts
    <2>2. EvaluatesBy(<<>>, results)
      BY <2>1, EvaluateIs
    <2>3. Evaluate(<<>>, results)
      BY <2>2, Zenon DEF EvaluatesBy, Judged
    <2> QED BY <1>1, <2>1, <2>3 DEF True
  <1>2. CASE cond # <<>>
    <2>1. DOMAIN cond = 1 .. Len(cond) /\ Len(cond) \in Nat \ {0}
          /\ \A d \in 1 .. Len(cond) : cond[d] \in Seq(Comparison) /\ cond[d] # <<>>
      BY <1>2
    <2>2. ASSUME NEW d \in 1 .. Len(cond)
          PROVE  /\ Sound(Conjunction(cond[d], Quote), {"or"})
                 /\ Evaluate(Conjunction(cond[d], Quote), results)
                      <=> \A k \in DOMAIN cond[d] :
                             Holds(cond[d][k], Answered(results, cond[d][k].id)) # cond[d][k].neg
      BY <2>1, ConjunctionEvaluates
    <2>3. texts \in Seq(Texts) /\ Len(texts) = Len(cond) /\ texts # <<>>
          /\ \A d \in 1 .. Len(cond) : texts[d] = Conjunction(cond[d], Quote)
      <3>1. \A d \in 1 .. Len(cond) : Conjunction(cond[d], Quote) \in Texts
        BY <2>2 DEF Sound
      <3>2. texts = [d \in 1 .. Len(cond) |-> Conjunction(cond[d], Quote)]
        BY <2>1
      <3>3. texts \in [1 .. Len(cond) -> Texts]
        BY <3>1, <3>2
      <3>4. \A d \in 1 .. Len(cond) : texts[d] = Conjunction(cond[d], Quote)
        BY <3>2
      <3> HIDE DEF texts
      <3>5. Len(cond) \in Nat
        BY <2>1
      <3>6. \A N \in Nat : \A t \in [1 .. N -> Texts] : t \in Seq(Texts) /\ Len(t) = N
        OBVIOUS
      <3>7. texts \in Seq(Texts) /\ Len(texts) = Len(cond)
        BY <3>3, <3>5, <3>6
      <3> QED BY <2>1, <3>4, <3>7
    <2> HIDE DEF texts
    <2>4. \A d \in 1 .. Len(texts) : Sound(texts[d], {"or"})
      BY <2>2, <2>3
    <2>5. Evaluate(Joined(texts, "or"), results)
            <=> \E d \in 1 .. Len(texts) : Evaluate(texts[d], results)
      BY <2>3, <2>4, JoinedOr
    <2>6. Text(cond, Quote) = Joined(texts, "or")
      BY <1>2 DEF Text, texts
    <2>7. (\E d \in 1 .. Len(texts) : Evaluate(texts[d], results))
            <=> \E d \in DOMAIN cond : \A k \in DOMAIN cond[d] :
                   Holds(cond[d][k], Answered(results, cond[d][k].id)) # cond[d][k].neg
      BY <2>1, <2>2, <2>3
    <2> QED BY <1>2, <2>5, <2>6, <2>7 DEF True
  <1> QED BY <1>1, <1>2

-----------------------------------------------------------------------------
(* Which steps run                                                         *)

\* Before a step runs, its condition is worth what it means for the author.
LEMMA RunsIs ==
    ASSUME Documented(Skill), Shape, Recorded, NEW i \in current .. Len(steps)
    PROVE  Runs(i) <=> Meant(i)
  <1>1. /\ current \in Nat /\ Len(steps) \in Nat /\ i \in 1 .. Len(steps)
        /\ DOMAIN steps = 1 .. Len(steps) /\ \A j \in DOMAIN answer : j < i
    <2>1. current \in Nat /\ current >= 1 /\ Len(steps) \in Nat
          /\ DOMAIN steps = 1 .. Len(steps)
      BY SkillType DEF Shape
    <2>2. \A j \in DOMAIN answer : j \in 1 .. current - 1
      BY DEF Shape
    <2> QED BY <2>1, <2>2
  <1>2. \A id : Answered(stepResults, id) \in Texts
    <2>1. <<>> \in Texts
      BY DEF Texts
    <2> QED BY <2>1, ResultIs DEF Answered
  <1>3. ASSUME NEW id
        PROVE  Latest(i, id) = Answered(stepResults, id)
    <2>1. Earlier(i, id) = With(id)
      BY <1>1 DEF Earlier, With
    <2>2. id \in DOMAIN stepResults <=> With(id) # {}
      BY DEF Recorded, With
    <2> QED BY <2>1, <2>2 DEF Latest, Answered, Recorded
  <1> DEFINE cond == steps[i].meant
  <1>4. cond \in Seq(Seq(Comparison) \ {<<>>}) /\ steps[i].when = Text(cond, Quote)
    BY <1>1 DEF Documented, Shape
  <1>5. Runs(i) <=> True(cond, stepResults)
    <2> HIDE DEF cond
    <2> QED BY <1>2, <1>4, TextEvaluates DEF Runs
  <1>6. True(cond, stepResults) <=> Meant(i)
    BY <1>3 DEF True, Meant
  <1> QED BY <1>5, <1>6

\* What a step up to the active one is meant to do does not change when the
\* active one gets its answer.
LEMMA MeantStays ==
    ASSUME Shape, PostStep, NEW i \in 1 .. active
    PROVE  Meant(i)' <=> Meant(i)
  <1>1. PICK r \in Result :
           /\ active \in 1 .. Len(steps) /\ active \notin DOMAIN answer
           /\ active = current /\ steps' = steps
           /\ answer' = [j \in DOMAIN answer \cup {active} |->
                            IF j = active THEN r ELSE answer[j]]
    BY PostStepIs
  <1>2. current \in Nat /\ active \in Nat /\ DOMAIN answer \subseteq 1 .. current - 1
    BY <1>1, SkillType DEF Shape
  <1>3. ASSUME NEW id
        PROVE  Latest(i, id)' = Latest(i, id)
    <2> DEFINE J == Earlier(i, id)
    <2>1. Earlier(i, id)' = J
      BY <1>1, <1>2 DEF Earlier
    <2>2. CASE J = {}
      BY <2>1, <2>2 DEF Latest
    <2>3. CASE J # {}
      <3>1. J \subseteq 1 .. current - 1 /\ current - 1 \in Nat
        <4>1. J \subseteq DOMAIN answer
          BY DEF Earlier
        <4>2. current >= 1
          BY <1>1, <1>2
        <4> HIDE DEF J
        <4> QED BY <1>2, <4>1, <4>2
      <3>2. Max(J) \in J
        <4> HIDE DEF J
        <4> QED BY <2>3, <3>1, Greatest
      <3>3. Max(J) \in DOMAIN answer
        BY <3>2 DEF Earlier
      <3>4. answer'[Max(J)] = answer[Max(J)]
        <4> HIDE DEF J
        <4> QED BY <1>1, <3>3
      <3> QED BY <2>1, <2>3, <3>4 DEF Latest
    <2> QED BY <2>2, <2>3
  <1> QED BY <1>1, <1>3 DEF Meant

\* Every step of the workflow keeps the decisions right.
LEMMA RunsNext ==
    ASSUME Documented(Skill), Shape, Recorded, RunsAsWritten, [Next]_vars
    PROVE  RunsAsWritten'
  <1>1. current \in Nat /\ current >= 1 /\ active \in Nat /\ Len(steps) \in Nat
        /\ DOMAIN steps = 1 .. Len(steps) /\ current <= Len(steps) + 1
    BY SkillType DEF Shape
  <1>2. \A j \in DOMAIN answer : j \in Nat /\ j < current
    BY <1>1 DEF Shape
  <1>3. \A i \in 1 .. Len(steps) : i < current \/ i = active =>
           ((i \in DOMAIN answer \/ i = active) <=> Meant(i))
    BY <1>1 DEF RunsAsWritten, Decided
  <1>4. CASE PreStep
    <2>1. PICK k \in current .. Len(steps) :
             /\ Runs(k) /\ \A j \in current .. k - 1 : ~Runs(j)
             /\ current' = k /\ active' = k
      BY <1>4 DEF PreStep
    <2>2. steps' = steps /\ answer' = answer /\ pc = "pre"
      BY <1>4 DEF PreStep
    <2>3. \A i : Meant(i)' <=> Meant(i)
      BY <2>2 DEF Meant, Latest, Earlier
    <2>4. ASSUME NEW i \in 1 .. Len(steps), i < k \/ i = k
          PROVE  (i \in DOMAIN answer \/ i = k) <=> Meant(i)
      <3>1. CASE i < current
        <4>1. active # 0 => active \in DOMAIN answer
          BY <2>2 DEF Shape
        <4>2. i # k
          BY <1>1, <2>1, <3>1
        <4> QED BY <1>3, <3>1, <4>1, <4>2
      <3>2. CASE i \in current .. k - 1
        <4>1. i \in current .. Len(steps) /\ i # k
          BY <1>1, <2>1, <3>2
        <4>2. ~Meant(i)
          BY <2>1, <3>2, <4>1, RunsIs
        <4>3. i \notin DOMAIN answer
          BY <1>1, <1>2, <3>2
        <4> QED BY <4>1, <4>2, <4>3
      <3>3. CASE i = k
        BY <2>1, <3>3, RunsIs
      <3> QED BY <1>1, <2>1, <2>4, <3>1, <3>2, <3>3
    <2> QED BY <1>1, <2>1, <2>2, <2>3, <2>4 DEF RunsAsWritten, Decided
  <1>5. CASE NoStepLeft
    <2>1. /\ \A i \in current .. Len(steps) : ~Runs(i)
          /\ current' = Len(steps) + 1 /\ active' = active
          /\ steps' = steps /\ answer' = answer /\ pc = "pre"
      BY <1>5 DEF NoStepLeft
    <2>2. \A i : Meant(i)' <=> Meant(i)
      BY <2>1 DEF Meant, Latest, Earlier
    <2>3. ASSUME NEW i \in 1 .. Len(steps)
          PROVE  (i \in DOMAIN answer \/ i = active) <=> Meant(i)
      <3>1. CASE i < current
        BY <1>3, <3>1
      <3>2. CASE ~(i < current)
        <4>1. i \in current .. Len(steps)
          BY <1>1, <3>2
        <4>2. ~Meant(i)
          BY <2>1, <4>1, RunsIs
        <4>3. i \notin DOMAIN answer
          BY <1>1, <1>2, <3>2
        <4>4. i # active
          <5>1. active < current
            BY <2>1 DEF Shape
          <5> QED BY <1>1, <3>2, <5>1
        <4> QED BY <4>2, <4>3, <4>4
      <3> QED BY <3>1, <3>2
    <2> QED BY <1>1, <2>1, <2>2, <2>3 DEF RunsAsWritten, Decided
  <1>6. CASE PostStep
    <2>1. PICK r \in Result :
             /\ active = current /\ current' = active + 1
             /\ steps' = steps /\ active' = active
             /\ answer' = [j \in DOMAIN answer \cup {active} |->
                              IF j = active THEN r ELSE answer[j]]
      BY <1>6, PostStepIs
    <2>2. DOMAIN answer' = DOMAIN answer \cup {active}
      BY <2>1
    <2>3. \A i \in 1 .. active : Meant(i)' <=> Meant(i)
      BY <1>6, MeantStays
    <2>4. ASSUME NEW i \in 1 .. Len(steps), i < active + 1 \/ i = active
          PROVE  (i \in DOMAIN answer' \/ i = active) <=> Meant(i)'
      <3>1. i \in 1 .. active /\ (i < current \/ i = active)
        BY <1>1, <2>1, <2>4
      <3>2. (i \in DOMAIN answer \/ i = active) <=> Meant(i)
        BY <1>3, <3>1
      <3>3. Meant(i)' <=> Meant(i)
        BY <2>3, <3>1
      <3>4. i \in DOMAIN answer' \/ i = active <=> i \in DOMAIN answer \/ i = active
        BY <2>2
      <3> QED BY <3>2, <3>3, <3>4
    <2> QED BY <1>1, <2>1, <2>4 DEF RunsAsWritten, Decided
  <1>7. CASE UNCHANGED vars \/ JudgeFails
    <2>1. /\ steps' = steps /\ current' = current
          /\ active' = active /\ answer' = answer
      BY <1>7 DEF vars, JudgeFails
    <2>2. \A i : Meant(i)' <=> Meant(i)
      BY <2>1 DEF Meant, Latest, Earlier
    <2>3. Decided' = Decided
      BY <2>1 DEF Decided
    <2> QED BY <2>1, <2>2, <2>3 DEF RunsAsWritten
  <1> QED BY <1>4, <1>5, <1>6, <1>7 DEF Next

\* A step runs if what its condition means is true of the answers of the
\* steps before it, and is skipped otherwise, for every skill whose conditions
\* are written as the documentation says.
THEOREM RunsRight ==
    ASSUME Documented(Skill)
    PROVE  Spec => []RunsAsWritten
  <1> DEFINE Inv == Shape /\ Recorded /\ RunsAsWritten
  <1>1. Init => Inv
    <2>1. ASSUME Init
          PROVE  RunsAsWritten
      <3>1. DOMAIN steps = 1 .. Len(steps) /\ current = 1 /\ active = 0
        BY <2>1, SkillType DEF Init
      <3>2. Decided = {}
        BY <3>1 DEF Decided
      <3> QED BY <3>2 DEF RunsAsWritten
    <2> QED BY <2>1, ShapeInit
  <1>2. Inv /\ [Next]_vars => Inv'
    <2>1. ASSUME Inv, [Next]_vars
          PROVE  Inv'
      BY <2>1, ShapeNext, RecordedNext, RunsNext
    <2> QED BY <2>1
  <1>3. Inv => RunsAsWritten
    OBVIOUS
  <1> QED BY <1>1, <1>2, <1>3, PTL DEF Spec
=============================================================================
