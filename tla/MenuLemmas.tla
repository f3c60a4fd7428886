----------------------------- MODULE MenuLemmas -----------------------------
(***************************************************************************)
(* What the operators of MenuPlanner and RouterMenu compute, for any       *)
(* sequences: the lemmas the proofs about their users rest on.  Each goes  *)
(* by the least index at which it would fail.                              *)
(***************************************************************************)
EXTENDS RouterMenu, WellFoundedInduction, FiniteSetTheorems, TLAPS

\* Every set of naturals has a least element.
LEMMA Least ==
  ASSUME NEW S \in SUBSET Nat, S # {}
  PROVE  \E n \in S : \A m \in S : n <= m
<1>1. PICK x \in S : \A y \in S : ~(<<y, x>> \in OpToRel(<, Nat))
  BY NatLessThanWellFounded, WFMin
<1>2. \A y \in S : ~(y < x)
  BY <1>1 DEF OpToRel
<1> QED BY <1>2

\* So a set that holds 0, and n whenever it holds n - 1, holds every number up to any.
LEMMA UpTo ==
  ASSUME NEW n \in Nat, NEW P, 0 \in P, \A i \in 1 .. n : i - 1 \in P => i \in P
  PROVE  \A i \in 0 .. n : i \in P
<1> DEFINE S == {i \in 0 .. n : i \notin P}
<1> SUFFICES ASSUME S # {} PROVE FALSE
  OBVIOUS
<1>0. S \in SUBSET Nat
  OBVIOUS
<1> HIDE DEF S
<1>1. PICK i \in S : \A m \in S : i <= m
  BY <1>0, Least
<1> USE DEF S
<1>2. i \in 1 .. n /\ i - 1 \in 0 .. n /\ i - 1 \notin S
  BY <1>1
<1> QED BY <1>1, <1>2

-----------------------------------------------------------------------------
\* Only(s, T): the prefixes it is built from.

TakenUpTo(s, T, n, f) ==
  f = [i \in 0 .. n |-> IF i = 0 THEN <<>> ELSE Taking(f[i - 1], s[i], T)]

\* The recursion of Only has a solution up to any length.
LEMMA TakenExist ==
  ASSUME NEW s, NEW T, NEW n \in Nat
  PROVE  \E f : TakenUpTo(s, T, n, f)
<1> DEFINE P == {i \in 0 .. n : \E f : TakenUpTo(s, T, i, f)}
<1>1. 0 \in P
  <2> DEFINE f == [i \in 0 .. 0 |-> <<>>]
  <2>1. f = [i \in 0 .. 0 |-> IF i = 0 THEN <<>> ELSE Taking(f[i - 1], s[i], T)]
    OBVIOUS
  <2> HIDE DEF f
  <2> QED BY <2>1 DEF TakenUpTo
<1>2. ASSUME NEW k \in 1 .. n, k - 1 \in P PROVE k \in P
  <2>1. PICK f : TakenUpTo(s, T, k - 1, f)
    BY <1>2
  <2>2. f = [i \in 0 .. k - 1 |-> IF i = 0 THEN <<>> ELSE Taking(f[i - 1], s[i], T)]
    BY <2>1 DEF TakenUpTo
  <2> DEFINE g == [i \in 0 .. k |-> IF i = 0 THEN <<>> ELSE Taking(f[i - 1], s[i], T)]
  <2>3. \A i \in 0 .. k - 1 : g[i] = f[i]
    BY <2>2
  <2>4. ASSUME NEW i \in 0 .. k, i # 0 PROVE g[i] = Taking(g[i - 1], s[i], T)
    <3>1. i - 1 \in 0 .. k - 1
      BY <2>4
    <3>2. g[i] = Taking(f[i - 1], s[i], T)
      BY <2>4
    <3> QED BY <2>3, <3>1, <3>2
  <2>5. g[0] = <<>> /\ DOMAIN g = 0 .. k
    OBVIOUS
  <2>6. g = [i \in 0 .. k |-> IF i = 0 THEN <<>> ELSE Taking(g[i - 1], s[i], T)]
    BY <2>4, <2>5
  <2> HIDE DEF g
  <2> QED BY <2>6 DEF TakenUpTo
<1> HIDE DEF P
<1>3. n \in P
  BY <1>1, <1>2, UpTo
<1> QED BY <1>3 DEF P

\* So Only(s, T) is the last of a row of prefixes, each of which takes one more
\* element of s or leaves it out.
Builds(f, S, s, T) ==
  /\ f \in [0 .. Len(s) -> Seq(S)]
  /\ f[0] = <<>>
  /\ \A i \in 1 .. Len(s) : f[i] = Taking(f[i - 1], s[i], T)
  /\ Only(s, T) = f[Len(s)]

\* Those prefixes exist, for every sequence.
LEMMA OnlyBuilds ==
  ASSUME NEW S, NEW s \in Seq(S), NEW T
  PROVE  \E f : Builds(f, S, s, T)
<1> DEFINE K == CHOOSE f : f = [i \in 0 .. Len(s) |->
                                  IF i = 0 THEN <<>> ELSE Taking(f[i - 1], s[i], T)]
<1>l. Len(s) \in Nat
  OBVIOUS
<1>1. K = [i \in 0 .. Len(s) |-> IF i = 0 THEN <<>> ELSE Taking(K[i - 1], s[i], T)]
  BY <1>l, TakenExist DEF TakenUpTo
<1>2. Only(s, T) = K[Len(s)]
  BY DEF Only
<1> HIDE DEF K
<1>3. DOMAIN K = 0 .. Len(s) /\ K[0] = <<>>
  BY <1>1
<1>4. \A i \in 1 .. Len(s) : K[i] = Taking(K[i - 1], s[i], T)
  BY <1>1
<1> DEFINE P == {i \in 0 .. Len(s) : K[i] \in Seq(S)}
<1>5. 0 \in P
  BY <1>3
<1>6. ASSUME NEW i \in 1 .. Len(s), i - 1 \in P PROVE i \in P
  <2>1. K[i - 1] \in Seq(S) /\ s[i] \in S
    BY <1>6
  <2>2. Taking(K[i - 1], s[i], T) \in Seq(S)
    BY <2>1 DEF Taking
  <2> QED BY <2>2, <1>4
<1> HIDE DEF P
<1>7. \A i \in 0 .. Len(s) : i \in P
  BY <1>l, <1>5, <1>6, UpTo
<1>8. \A i \in 0 .. Len(s) : K[i] \in Seq(S)
  BY <1>7 DEF P
<1>9. K \in [0 .. Len(s) -> Seq(S)]
  <2>1. K = [i \in 0 .. Len(s) |-> K[i]]
    BY <1>1
  <2> QED BY <2>1, <1>8
<1>10. Builds(K, S, s, T)
  BY <1>2, <1>3, <1>4, <1>9 DEF Builds
<1> QED BY <1>10

\* One of those prefixes and the next.
LEMMA BuildsOne ==
  ASSUME NEW S, NEW s \in Seq(S), NEW T, NEW f, Builds(f, S, s, T), NEW i \in 1 .. Len(s)
  PROVE  /\ f[i - 1] \in Seq(S) /\ s[i] \in S /\ i - 1 \in 0 .. Len(s) /\ i \in 0 .. Len(s)
         /\ f[i] = Taking(f[i - 1], s[i], T)
         /\ s[i] \in T => f[i] = Append(f[i - 1], s[i])
         /\ s[i] \notin T => f[i] = f[i - 1]
<1>1. f[i - 1] \in Seq(S) /\ s[i] \in S /\ i - 1 \in 0 .. Len(s) /\ i \in 0 .. Len(s)
  BY DEF Builds
<1>2. f[i] = Taking(f[i - 1], s[i], T)
  BY DEF Builds
<1> QED BY <1>1, <1>2 DEF Taking

\* The empty sequence, and one more element.
LEMMA OnlyEmpty ==
  ASSUME NEW T
  PROVE  Only(<<>>, T) = <<>>
<1>1. <<>> \in Seq({}) /\ Len(<<>>) = 0
  OBVIOUS
<1>2. PICK f : Builds(f, {}, <<>>, T)
  BY <1>1, OnlyBuilds
<1> QED BY <1>1, <1>2 DEF Builds

\* It keeps the elements of s that are in T and no others.
LEMMA OnlyRange ==
  ASSUME NEW S, NEW s \in Seq(S), NEW T
  PROVE  /\ Only(s, T) \in Seq(S)
         /\ Len(Only(s, T)) <= Len(s)
         /\ \A k \in 1 .. Len(Only(s, T)) :
              \E j \in 1 .. Len(s) : s[j] \in T /\ Only(s, T)[k] = s[j]
         /\ \A j \in 1 .. Len(s) :
              s[j] \in T => \E k \in 1 .. Len(Only(s, T)) : Only(s, T)[k] = s[j]
<1>f. PICK f : Builds(f, S, s, T)
  BY OnlyBuilds
<1> DEFINE Good(i) ==
      /\ Len(f[i]) <= i
      /\ \A k \in 1 .. Len(f[i]) : \E j \in 1 .. i : s[j] \in T /\ f[i][k] = s[j]
      /\ \A j \in 1 .. i : s[j] \in T => \E k \in 1 .. Len(f[i]) : f[i][k] = s[j]
<1> DEFINE P == {i \in 0 .. Len(s) : Good(i)}
<1>l. Len(s) \in Nat
  OBVIOUS
<1>1. 0 \in P
  BY <1>f DEF Builds
<1>2. ASSUME NEW i \in 1 .. Len(s), i - 1 \in P PROVE i \in P
  <2> i - 1 \in 0 .. Len(s) /\ i \in 0 .. Len(s) /\ f[i - 1] \in Seq(S) /\ s[i] \in S
    BY <1>f, BuildsOne
  <2>0. Good(i - 1)
    BY <1>2
  <2>1. CASE s[i] \notin T
    <3>1. f[i] = f[i - 1]
      BY <1>f, <2>1, BuildsOne
    <3>2. \A j \in 1 .. i : s[j] \in T => j \in 1 .. i - 1
      BY <2>1
    <3>3. \A j \in 1 .. i - 1 : j \in 1 .. i
      OBVIOUS
    <3>4. Good(i)
      BY <2>0, <3>1, <3>2, <3>3
    <3> QED BY <3>4
  <2>2. CASE s[i] \in T
    <3>1. f[i] = Append(f[i - 1], s[i])
      BY <1>f, <2>2, BuildsOne
    <3>2. Len(f[i]) = Len(f[i - 1]) + 1 /\ f[i][Len(f[i])] = s[i]
          /\ \A k \in 1 .. Len(f[i - 1]) : f[i][k] = f[i - 1][k]
      BY <3>1
    <3>3. ASSUME NEW k \in 1 .. Len(f[i]) PROVE \E j \in 1 .. i : s[j] \in T /\ f[i][k] = s[j]
      <4>1. CASE k = Len(f[i])
        BY <2>2, <3>2, <4>1
      <4>2. CASE k # Len(f[i])
        <5>1. k \in 1 .. Len(f[i - 1])
          BY <3>2, <4>2
        <5> QED BY <5>1, <3>2, <2>0
      <4> QED BY <4>1, <4>2
    <3>4. ASSUME NEW j \in 1 .. i, s[j] \in T PROVE \E k \in 1 .. Len(f[i]) : f[i][k] = s[j]
      <4>1. CASE j = i
        <5>1. Len(f[i]) \in 1 .. Len(f[i])
          BY <3>2
        <5> QED BY <3>2, <4>1, <5>1
      <4>2. CASE j # i
        <5>1. j \in 1 .. i - 1
          BY <4>2
        <5>2. PICK k \in 1 .. Len(f[i - 1]) : f[i - 1][k] = s[j]
          BY <2>0, <3>4, <5>1
        <5>3. k \in 1 .. Len(f[i])
          BY <3>2
        <5> QED BY <3>2, <5>2, <5>3
      <4> QED BY <4>1, <4>2
    <3>5. Len(f[i]) <= i
      BY <3>2, <2>0
    <3> QED BY <3>3, <3>4, <3>5
  <2> QED BY <2>1, <2>2
<1> HIDE DEF P
<1>3. \A i \in 0 .. Len(s) : i \in P
  BY <1>l, <1>1, <1>2, UpTo
<1>4. Good(Len(s))
  BY <1>l, <1>3 DEF P
<1>5. Only(s, T) = f[Len(s)] /\ f[Len(s)] \in Seq(S)
  BY <1>f, <1>l DEF Builds
<1> QED BY <1>4, <1>5

\* One more element is kept or left out.
LEMMA OnlyAppend ==
  ASSUME NEW S, NEW s \in Seq(S), NEW x \in S, NEW T
  PROVE  Only(Append(s, x), T) = Taking(Only(s, T), x, T)
<1> DEFINE t == Append(s, x)
<1>l. Len(s) \in Nat /\ t \in Seq(S) /\ Len(t) = Len(s) + 1 /\ t[Len(s) + 1] = x
      /\ \A i \in 1 .. Len(s) : t[i] = s[i]
  OBVIOUS
<1> HIDE DEF t
<1>f. PICK f : Builds(f, S, s, T)
  BY OnlyBuilds
<1>g. PICK g : Builds(g, S, t, T)
  BY <1>l, OnlyBuilds
<1> DEFINE P == {i \in 0 .. Len(s) : g[i] = f[i]}
<1>1. 0 \in P
  BY <1>f, <1>g, <1>l DEF Builds
<1>2. ASSUME NEW i \in 1 .. Len(s), i - 1 \in P PROVE i \in P
  <2>1. i \in 1 .. Len(t) /\ t[i] = s[i] /\ g[i - 1] = f[i - 1]
    BY <1>2, <1>l
  <2>2. f[i] = Taking(f[i - 1], s[i], T)
    BY <1>f DEF Builds
  <2>3. g[i] = Taking(f[i - 1], s[i], T)
    BY <1>g, <2>1 DEF Builds
  <2> QED BY <2>2, <2>3
<1> HIDE DEF P
<1>3. \A i \in 0 .. Len(s) : i \in P
  BY <1>l, <1>1, <1>2, UpTo
<1>4. g[Len(s)] = Only(s, T)
  BY <1>f, <1>l, <1>3 DEF P, Builds
<1>5. Len(t) \in 1 .. Len(t) /\ Len(t) - 1 = Len(s) /\ t[Len(t)] = x
  BY <1>l
<1>6. g[Len(t)] = Taking(g[Len(t) - 1], t[Len(t)], T)
  BY <1>g, <1>5 DEF Builds
<1>7. Only(t, T) = g[Len(t)]
  BY <1>g DEF Builds
<1> QED BY <1>4, <1>5, <1>6, <1>7 DEF t

\* Taking from a sequence all of whose elements, or none, are wanted.
LEMMA OnlyAll ==
  ASSUME NEW S, NEW s \in Seq(S), NEW T
  PROVE  /\ (\A i \in 1 .. Len(s) : s[i] \in T) => Only(s, T) = s
         /\ (\A i \in 1 .. Len(s) : s[i] \notin T) => Only(s, T) = <<>>
<1>f. PICK f : Builds(f, S, s, T)
  BY OnlyBuilds
<1>l. Len(s) \in Nat
  OBVIOUS
<1>1. ASSUME \A i \in 1 .. Len(s) : s[i] \in T PROVE Only(s, T) = s
  <2> DEFINE P == {i \in 0 .. Len(s) : Len(f[i]) = i /\ \A k \in 1 .. i : f[i][k] = s[k]}
  <2>1. 0 \in P
    BY <1>f DEF Builds
  <2>2. ASSUME NEW i \in 1 .. Len(s), i - 1 \in P PROVE i \in P
    <3>1. f[i - 1] \in Seq(S) /\ s[i] \in S /\ f[i] = Append(f[i - 1], s[i])
      BY <1>1, <1>f, BuildsOne
    <3>2. Len(f[i - 1]) = i - 1 /\ \A k \in 1 .. i - 1 : f[i - 1][k] = s[k]
      BY <2>2
    <3>3. Len(f[i]) = i
      BY <3>1, <3>2
    <3>4. ASSUME NEW k \in 1 .. i PROVE f[i][k] = s[k]
      <4>1. CASE k = i
        BY <3>1, <3>2, <4>1
      <4>2. CASE k # i
        BY <3>1, <3>2, <4>2
      <4> QED BY <4>1, <4>2
    <3> QED BY <3>3, <3>4
  <2> HIDE DEF P
  <2>3. \A i \in 0 .. Len(s) : i \in P
    BY <1>l, <2>1, <2>2, UpTo
  <2>4. f[Len(s)] \in Seq(S) /\ Len(f[Len(s)]) = Len(s) /\ \A k \in 1 .. Len(s) : f[Len(s)][k] = s[k]
    BY <1>f, <1>l, <2>3 DEF P, Builds
  <2>5. f[Len(s)] = s
    BY <2>4
  <2> QED BY <1>f, <2>5 DEF Builds
<1>2. ASSUME \A i \in 1 .. Len(s) : s[i] \notin T PROVE Only(s, T) = <<>>
  <2> DEFINE P == {i \in 0 .. Len(s) : f[i] = <<>>}
  <2>1. 0 \in P
    BY <1>f DEF Builds
  <2>2. ASSUME NEW i \in 1 .. Len(s), i - 1 \in P PROVE i \in P
    BY <1>2, <2>2, <1>f, BuildsOne
  <2> HIDE DEF P
  <2>3. \A i \in 0 .. Len(s) : i \in P
    BY <1>l, <2>1, <2>2, UpTo
  <2> QED BY <1>f, <1>l, <2>3 DEF P, Builds
<1> QED BY <1>1, <1>2

\* Only the elements of s matter.
LEMMA OnlySame ==
  ASSUME NEW S, NEW s \in Seq(S), NEW T, NEW U,
         \A i \in 1 .. Len(s) : s[i] \in T <=> s[i] \in U
  PROVE  Only(s, T) = Only(s, U)
<1>f. PICK f : Builds(f, S, s, T)
  BY OnlyBuilds
<1>g. PICK g : Builds(g, S, s, U)
  BY OnlyBuilds
<1>l. Len(s) \in Nat
  OBVIOUS
<1> DEFINE P == {i \in 0 .. Len(s) : f[i] = g[i]}
<1>1. 0 \in P
  BY <1>f, <1>g DEF Builds
<1>2. ASSUME NEW i \in 1 .. Len(s), i - 1 \in P PROVE i \in P
  <2>1. f[i - 1] = g[i - 1]
    BY <1>2
  <2>2. f[i] = Taking(f[i - 1], s[i], T) /\ g[i] = Taking(g[i - 1], s[i], U)
    BY <1>f, <1>g DEF Builds
  <2>3. s[i] \in T <=> s[i] \in U
    OBVIOUS
  <2>4. Taking(f[i - 1], s[i], T) = Taking(g[i - 1], s[i], U)
    BY <2>1, <2>3, Zenon DEF Taking
  <2> QED BY <2>2, <2>4
<1> HIDE DEF P
<1>3. \A i \in 0 .. Len(s) : i \in P
  BY <1>l, <1>1, <1>2, UpTo
<1> QED BY <1>f, <1>g, <1>l, <1>3 DEF P, Builds

\* Taking twice.
LEMMA OnlyOnly ==
  ASSUME NEW S, NEW s \in Seq(S), NEW T, NEW U
  PROVE  Only(Only(s, T), U) = Only(s, T \cap U)
<1>f. PICK f : Builds(f, S, s, T)
  BY OnlyBuilds
<1>g. PICK g : Builds(g, S, s, T \cap U)
  BY OnlyBuilds
<1>l. Len(s) \in Nat
  OBVIOUS
<1> DEFINE P == {i \in 0 .. Len(s) : Only(f[i], U) = g[i]}
<1>1. 0 \in P
  BY <1>f, <1>g, OnlyEmpty DEF Builds
<1>2. ASSUME NEW i \in 1 .. Len(s), i - 1 \in P PROVE i \in P
  <2>1. Only(f[i - 1], U) = g[i - 1]
    BY <1>2
  <2>2. /\ f[i - 1] \in Seq(S) /\ s[i] \in S
        /\ s[i] \in T => f[i] = Append(f[i - 1], s[i])
        /\ s[i] \notin T => f[i] = f[i - 1]
    BY ONLY s \in Seq(S), i \in 1 .. Len(s), <1>f, BuildsOne
  <2>3. Only(Append(f[i - 1], s[i]), U) = Taking(g[i - 1], s[i], U)
    BY <2>1, <2>2, OnlyAppend
  <2>4. g[i] = Taking(g[i - 1], s[i], T \cap U)
    BY <1>g DEF Builds
  <2>5. CASE s[i] \in T
    <3>1. f[i] = Append(f[i - 1], s[i])
      BY <2>2, <2>5
    <3>2. Taking(g[i - 1], s[i], T \cap U) = Taking(g[i - 1], s[i], U)
      BY <2>5, Zenon DEF Taking
    <3>3. Only(f[i], U) = g[i]
      BY <2>3, <2>4, <3>1, <3>2, Zenon
    <3> QED BY <3>3
  <2>6. CASE s[i] \notin T
    <3>1. f[i] = f[i - 1]
      BY <2>2, <2>6
    <3>2. Taking(g[i - 1], s[i], T \cap U) = g[i - 1]
      BY <2>6, Zenon DEF Taking
    <3> QED BY <2>1, <2>4, <3>1, <3>2
  <2> QED BY <2>5, <2>6
<1> HIDE DEF P
<1>3. \A i \in 0 .. Len(s) : i \in P
  BY <1>l, <1>1, <1>2, UpTo
<1> QED BY <1>f, <1>g, <1>l, <1>3 DEF P, Builds

\* Concatenation under a name of its own, which the provers match more easily.
Joined(s, t) == s \o t

\* What a concatenation holds.
LEMMA JoinedType ==
  ASSUME NEW S, NEW s \in Seq(S), NEW t \in Seq(S)
  PROVE  /\ Joined(s, t) \in Seq(S) /\ Len(Joined(s, t)) = Len(s) + Len(t)
         /\ \A i \in 1 .. Len(s) : Joined(s, t)[i] = s[i]
         /\ \A i \in 1 .. Len(t) : Joined(s, t)[Len(s) + i] = t[i]
BY DEF Joined

\* Taking one more element after joining.
LEMMA JoinedTaking ==
  ASSUME NEW S, NEW s \in Seq(S), NEW t \in Seq(S), NEW x \in S
  PROVE  \A T : Taking(Joined(s, t), x, T) = Joined(s, Taking(t, x, T))
<1>1. Append(t, x) \in Seq(S) /\ Len(Append(t, x)) = Len(t) + 1
  OBVIOUS
<1>2. s \o t \in Seq(S) /\ Append(s \o t, x) \in Seq(S) /\ s \o Append(t, x) \in Seq(S)
  BY <1>1
<1>3. Len(Append(s \o t, x)) = Len(s) + Len(t) + 1 /\ Len(s \o Append(t, x)) = Len(s) + Len(t) + 1
  BY <1>1, <1>2
<1>4. ASSUME NEW i \in 1 .. Len(s) + Len(t) + 1 PROVE Append(s \o t, x)[i] = (s \o Append(t, x))[i]
  <2>1. CASE i <= Len(s)
    BY <2>1, <1>1, <1>2
  <2>2. CASE i > Len(s) /\ i <= Len(s) + Len(t)
    BY <2>2, <1>1, <1>2
  <2>3. CASE i = Len(s) + Len(t) + 1
    BY <2>3, <1>1, <1>2
  <2> QED BY <2>1, <2>2, <2>3
<1> DEFINE u == Append(s \o t, x)
           v == s \o Append(t, x)
<1>5. u \in Seq(S) /\ v \in Seq(S) /\ Len(u) = Len(v) /\ \A i \in 1 .. Len(u) : u[i] = v[i]
  BY <1>2, <1>3, <1>4
<1> HIDE DEF u, v
<1>6. u = v
  BY <1>5
<1>7. Append(s \o t, x) = s \o Append(t, x)
  BY <1>6 DEF u, v
<1> QED BY <1>7, Zenon DEF Taking, Joined

\* Taking from one sequence after another.
LEMMA OnlyJoined ==
  ASSUME NEW S, NEW s \in Seq(S), NEW t \in Seq(S), NEW T
  PROVE  Only(Joined(s, t), T) = Joined(Only(s, T), Only(t, T))
<1> DEFINE st(i) == Joined(s, SubSeq(t, 1, i))
<1>g. PICK g : Builds(g, S, t, T)
  BY OnlyBuilds
<1>l. Len(t) \in Nat /\ Only(s, T) \in Seq(S)
  BY OnlyRange
<1> DEFINE P == {i \in 0 .. Len(t) : Only(st(i), T) = Joined(Only(s, T), g[i])}
<1>1. 0 \in P
  <2>1. st(0) = s
    BY DEF Joined
  <2>2. Joined(Only(s, T), g[0]) = Only(s, T)
    BY <1>g, <1>l DEF Builds, Joined
  <2> HIDE DEF st
  <2> QED BY <1>l, <2>1, <2>2
<1>2. ASSUME NEW i \in 1 .. Len(t), i - 1 \in P PROVE i \in P
  <2>1. st(i - 1) \in Seq(S) /\ t[i] \in S /\ st(i) = Append(st(i - 1), t[i])
    BY DEF Joined
  <2>2. Only(st(i - 1), T) = Joined(Only(s, T), g[i - 1])
    BY <1>2
  <2> HIDE DEF st
  <2>3. Only(st(i), T) = Taking(Joined(Only(s, T), g[i - 1]), t[i], T)
    BY <2>1, <2>2, OnlyAppend
  <2>4. g[i - 1] \in Seq(S) /\ g[i] = Taking(g[i - 1], t[i], T) /\ t[i] \in S
    BY <1>g, BuildsOne
  <2>5. Taking(Joined(Only(s, T), g[i - 1]), t[i], T) = Joined(Only(s, T), Taking(g[i - 1], t[i], T))
    BY <1>l, <2>4, JoinedTaking
  <2>6. Only(st(i), T) = Joined(Only(s, T), g[i])
    BY <2>3, <2>4, <2>5
  <2> QED BY <2>6
<1> HIDE DEF P
<1>3. \A i \in 0 .. Len(t) : i \in P
  BY <1>l, <1>1, <1>2, UpTo
<1> HIDE DEF st
<1>4. Only(st(Len(t)), T) = Joined(Only(s, T), g[Len(t)])
  BY <1>l, <1>3 DEF P
<1>5. st(Len(t)) = Joined(s, t)
  <2>1. SubSeq(t, 1, Len(t)) = t
    OBVIOUS
  <2> QED BY <2>1 DEF st
<1> QED BY <1>g, <1>4, <1>5 DEF Builds

\* Of elements that are not repeated none is repeated.
LEMMA OnlyInjective ==
  ASSUME NEW S, NEW s \in Seq(S), NEW T,
         \A i, j \in 1 .. Len(s) : s[i] = s[j] /\ s[i] \in T => i = j
  PROVE  \A i, j \in 1 .. Len(Only(s, T)) : Only(s, T)[i] = Only(s, T)[j] => i = j
<1>f. PICK f : Builds(f, S, s, T)
  BY OnlyBuilds
<1>l. Len(s) \in Nat
  OBVIOUS
<1> DEFINE P == {i \in 0 .. Len(s) :
                   /\ \A k \in 1 .. Len(f[i]) : \E j \in 1 .. i : f[i][k] = s[j]
                   /\ \A j, k \in 1 .. Len(f[i]) : f[i][j] = f[i][k] => j = k}
<1>1. 0 \in P
  BY <1>f DEF Builds
<1>2. ASSUME NEW i \in 1 .. Len(s), i - 1 \in P PROVE i \in P
  <2>0. f[i - 1] \in Seq(S) /\ s[i] \in S /\ i - 1 \in 0 .. Len(s) /\ i \in 0 .. Len(s)
    BY <1>f, BuildsOne
  <2>1. /\ \A k \in 1 .. Len(f[i - 1]) : \E j \in 1 .. i - 1 : f[i - 1][k] = s[j]
        /\ \A j, k \in 1 .. Len(f[i - 1]) : f[i - 1][j] = f[i - 1][k] => j = k
    BY <1>2
  <2>2. CASE s[i] \notin T
    <3>1. f[i] = f[i - 1]
      BY <1>f, <2>2, BuildsOne
    <3>2. \A j \in 1 .. i - 1 : j \in 1 .. i
      OBVIOUS
    <3> QED BY <2>0, <2>1, <3>1, <3>2
  <2>3. CASE s[i] \in T
    <3>1. f[i] = Append(f[i - 1], s[i])
      BY <1>f, <2>3, BuildsOne
    <3>2. Len(f[i]) = Len(f[i - 1]) + 1 /\ f[i][Len(f[i])] = s[i]
          /\ \A k \in 1 .. Len(f[i - 1]) : f[i][k] = f[i - 1][k]
      BY <2>0, <3>1
    <3>3. \A k \in 1 .. Len(f[i]) : k = Len(f[i]) \/ k \in 1 .. Len(f[i - 1])
      BY <2>0, <3>2
    <3>4. \A j \in 1 .. i - 1 : j \in 1 .. i /\ s[j] # s[i]
      BY <2>3
    <3>5. ASSUME NEW k \in 1 .. Len(f[i]) PROVE \E j \in 1 .. i : f[i][k] = s[j]
      <4>1. CASE k = Len(f[i])
        BY <3>2, <4>1
      <4>2. CASE k \in 1 .. Len(f[i - 1])
        BY <2>1, <3>2, <3>4, <4>2
      <4> QED BY <3>3, <4>1, <4>2
    <3>6. ASSUME NEW k \in 1 .. Len(f[i - 1]) PROVE f[i][k] # s[i]
      <4>1. PICK j \in 1 .. i - 1 : f[i - 1][k] = s[j]
        BY <2>1
      <4>2. f[i][k] = s[j] /\ s[j] # s[i]
        BY <3>2, <3>4, <4>1
      <4> QED BY <4>2
    <3>7. \A j, k \in 1 .. Len(f[i]) : f[i][j] = f[i][k] => j = k
      BY <2>1, <3>2, <3>3, <3>6
    <3> QED BY <2>0, <3>5, <3>7
  <2> QED BY <2>2, <2>3
<1> HIDE DEF P
<1>3. \A i \in 0 .. Len(s) : i \in P
  BY <1>l, <1>1, <1>2, UpTo
<1>4. \A j, k \in 1 .. Len(f[Len(s)]) : f[Len(s)][j] = f[Len(s)][k] => j = k
  BY <1>l, <1>3 DEF P
<1> QED BY <1>f, <1>4 DEF Builds

-----------------------------------------------------------------------------
\* Elements of a sequence, and sequences without repetition.

In(x, s)    == \E i \in 1 .. Len(s) : s[i] = x
Distinct(s) == \A i, j \in 1 .. Len(s) : s[i] = s[j] => i = j

\* Only(s, T) holds the elements of s that are in T ...
LEMMA InOnly ==
  ASSUME NEW S, NEW s \in Seq(S), NEW T, NEW x
  PROVE  In(x, Only(s, T)) <=> In(x, s) /\ x \in T
<1> DEFINE u == Only(s, T)
<1>1. /\ \A k \in 1 .. Len(u) : \E j \in 1 .. Len(s) : s[j] \in T /\ u[k] = s[j]
      /\ \A j \in 1 .. Len(s) : s[j] \in T => \E k \in 1 .. Len(u) : u[k] = s[j]
  BY OnlyRange
<1> HIDE DEF u
<1>2. In(x, u) <=> In(x, s) /\ x \in T
  BY <1>1 DEF In
<1> QED BY <1>2 DEF u

\* ... none twice if s holds none twice.
LEMMA DistinctOnly ==
  ASSUME NEW S, NEW s \in Seq(S), NEW T, Distinct(s)
  PROVE  Distinct(Only(s, T))
BY OnlyInjective DEF Distinct

\* Membership in a sequence and in its range.
LEMMA InRange ==
  ASSUME NEW S, NEW s \in Seq(S), NEW x
  PROVE  /\ x \in Range(s) <=> In(x, s)
         /\ In(x, s) => x \in S
BY DEF In, Range

\* A concatenation holds what its parts hold ...
LEMMA InJoined ==
  ASSUME NEW S, NEW s \in Seq(S), NEW t \in Seq(S), NEW x
  PROVE  In(x, Joined(s, t)) <=> In(x, s) \/ In(x, t)
<1> DEFINE u == Joined(s, t)
<1>1. /\ u \in Seq(S) /\ Len(u) = Len(s) + Len(t)
      /\ \A i \in 1 .. Len(s) : u[i] = s[i]
      /\ \A i \in 1 .. Len(t) : u[Len(s) + i] = t[i]
  BY DEF Joined
<1> HIDE DEF u
<1>2. ASSUME In(x, u) PROVE In(x, s) \/ In(x, t)
  <2>1. PICK i \in 1 .. Len(u) : u[i] = x
    BY <1>2 DEF In
  <2>2. CASE i <= Len(s)
    BY <1>1, <2>1, <2>2 DEF In
  <2>3. CASE i > Len(s)
    <3>1. i - Len(s) \in 1 .. Len(t) /\ Len(s) + (i - Len(s)) = i
      BY <1>1, <2>3
    <3> QED BY <1>1, <2>1, <3>1 DEF In
  <2> QED BY <1>1, <2>2, <2>3
<1>3. ASSUME In(x, s) PROVE In(x, u)
  <2>1. PICK i \in 1 .. Len(s) : s[i] = x
    BY <1>3 DEF In
  <2>2. i \in 1 .. Len(u)
    BY <1>1
  <2> QED BY <1>1, <2>1, <2>2 DEF In
<1>4. ASSUME In(x, t) PROVE In(x, u)
  <2>1. PICK i \in 1 .. Len(t) : t[i] = x
    BY <1>4 DEF In
  <2>2. Len(s) + i \in 1 .. Len(u)
    BY <1>1
  <2> QED BY <1>1, <2>1, <2>2 DEF In
<1>5. In(x, u) <=> In(x, s) \/ In(x, t)
  BY <1>2, <1>3, <1>4
<1> QED BY <1>5 DEF u

\* ... none twice if neither part does and they share none.
LEMMA DistinctJoined ==
  ASSUME NEW S, NEW s \in Seq(S), NEW t \in Seq(S), Distinct(s), Distinct(t),
         \A x : ~(In(x, s) /\ In(x, t))
  PROVE  Distinct(Joined(s, t))
<1> DEFINE u == Joined(s, t)
<1>1. /\ u \in Seq(S) /\ Len(u) = Len(s) + Len(t)
      /\ \A i \in 1 .. Len(s) : u[i] = s[i]
      /\ \A i \in 1 .. Len(t) : u[Len(s) + i] = t[i]
  BY DEF Joined
<1> HIDE DEF u
<1>2. ASSUME NEW i \in 1 .. Len(s) PROVE In(u[i], s)
  BY <1>1 DEF In
<1>3. ASSUME NEW i \in 1 .. Len(u), i > Len(s)
      PROVE  /\ i - Len(s) \in 1 .. Len(t) /\ u[i] = t[i - Len(s)] /\ In(u[i], t)
  <2>1. i - Len(s) \in 1 .. Len(t) /\ Len(s) + (i - Len(s)) = i
    BY <1>1, <1>3
  <2>2. u[i] = t[i - Len(s)]
    BY <1>1, <2>1
  <2> QED BY <2>1, <2>2 DEF In
<1>4. ASSUME NEW i \in 1 .. Len(u), NEW j \in 1 .. Len(u), u[i] = u[j] PROVE i = j
  <2>1. CASE i <= Len(s) /\ j <= Len(s)
    BY <1>1, <1>4, <2>1 DEF Distinct
  <2>2. CASE i > Len(s) /\ j > Len(s)
    <3>1. i - Len(s) = j - Len(s)
      BY <1>3, <1>4, <2>2 DEF Distinct
    <3> QED BY <1>1, <3>1
  <2>3. CASE i <= Len(s) /\ j > Len(s)
    BY <1>2, <1>3, <1>4, <2>3
  <2>4. CASE i > Len(s) /\ j <= Len(s)
    BY <1>2, <1>3, <1>4, <2>4
  <2> QED BY <1>1, <2>1, <2>2, <2>3, <2>4
<1> QED BY <1>4 DEF u, Distinct

\* Sequences of the same length with the same elements.
LEMMA SeqSame ==
  ASSUME NEW S, NEW s \in Seq(S), NEW t \in Seq(S), Len(s) = Len(t), \A i \in 1 .. Len(t) : s[i] = t[i]
  PROVE  s = t
<1>1. DOMAIN s = 1 .. Len(s) /\ DOMAIN t = 1 .. Len(t)
  OBVIOUS
<1>2. DOMAIN s = DOMAIN t /\ \A i \in DOMAIN t : s[i] = t[i]
  BY <1>1
<1>3. s = [i \in DOMAIN s |-> s[i]] /\ t = [i \in DOMAIN t |-> t[i]]
  OBVIOUS
<1> QED BY <1>2, <1>3

\* A sequence is the concatenation of two that agree with it piece by piece.
Pieces(p, q, s) ==
  /\ Len(s) = Len(p) + Len(q)
  /\ \A i \in 1 .. Len(p) : p[i] = s[i]
  /\ \A i \in 1 .. Len(q) : q[i] = s[Len(p) + i]

\* Such a sequence is theirs joined.
LEMMA JoinedIs ==
  ASSUME NEW S, NEW s \in Seq(S), NEW p \in Seq(S), NEW q \in Seq(S), Pieces(p, q, s)
  PROVE  Joined(p, q) = s
<1>0. /\ Len(s) = Len(p) + Len(q)
      /\ \A i \in 1 .. Len(p) : p[i] = s[i]
      /\ \A i \in 1 .. Len(q) : q[i] = s[Len(p) + i]
  BY DEF Pieces
<1>1. p \o q \in Seq(S) /\ Len(p \o q) = Len(s)
  BY <1>0
<1>2. ASSUME NEW i \in 1 .. Len(s) PROVE (p \o q)[i] = s[i]
  <2>1. CASE i <= Len(p)
    BY <1>0, <2>1
  <2>2. CASE i > Len(p)
    <3>1. i - Len(p) \in 1 .. Len(q) /\ Len(p) + (i - Len(p)) = i
      BY <1>0, <2>2
    <3>2. (p \o q)[i] = q[i - Len(p)]
      BY <1>0, <2>2
    <3> QED BY <1>0, <3>1, <3>2
  <2> QED BY <1>0, <2>1, <2>2
<1> DEFINE j == p \o q
<1>3. j \in Seq(S) /\ Len(j) = Len(s) /\ \A i \in 1 .. Len(s) : j[i] = s[i]
  BY <1>1, <1>2
<1> HIDE DEF j
<1>4. j = s
  BY <1>3, SeqSame
<1> QED BY <1>4 DEF j, Joined

\* A sequence cut in two.
LEMMA Cut ==
  ASSUME NEW S, NEW s \in Seq(S), NEW n \in 0 .. Len(s)
  PROVE  /\ SubSeq(s, 1, n) \in Seq(S) /\ SubSeq(s, n + 1, Len(s)) \in Seq(S)
         /\ Joined(SubSeq(s, 1, n), SubSeq(s, n + 1, Len(s))) = s
         /\ \A x : In(x, SubSeq(s, 1, n)) => In(x, s)
         /\ \A x : In(x, SubSeq(s, n + 1, Len(s))) => In(x, s)
         /\ Distinct(s) => /\ Distinct(SubSeq(s, 1, n)) /\ Distinct(SubSeq(s, n + 1, Len(s)))
                           /\ \A x : ~(In(x, SubSeq(s, 1, n)) /\ In(x, SubSeq(s, n + 1, Len(s))))
<1> DEFINE p == SubSeq(s, 1, n)
           q == SubSeq(s, n + 1, Len(s))
<1>1. /\ p \in Seq(S) /\ q \in Seq(S) /\ Len(p) = n /\ Len(q) = Len(s) - n
      /\ \A i \in 1 .. n : p[i] = s[i]
      /\ \A i \in 1 .. Len(s) - n : q[i] = s[n + i]
  OBVIOUS
<1> HIDE DEF p, q
<1>2. Joined(p, q) = s
  <2>1. Len(s) = Len(p) + Len(q)
    BY <1>1
  <2>2. \A i \in 1 .. Len(p) : p[i] = s[i]
    BY <1>1
  <2>3. \A i \in 1 .. Len(q) : q[i] = s[Len(p) + i]
    BY <1>1
  <2>4. p \in Seq(S) /\ q \in Seq(S)
    BY <1>1
  <2>5. Pieces(p, q, s)
    BY <2>1, <2>2, <2>3 DEF Pieces
  <2> QED BY <2>4, <2>5, JoinedIs
<1>3. \A x : In(x, p) => \E i \in 1 .. n : s[i] = x
  BY <1>1 DEF In
<1>4. \A x : In(x, q) => \E i \in n + 1 .. Len(s) : s[i] = x
  <2> SUFFICES ASSUME NEW x, In(x, q) PROVE \E i \in n + 1 .. Len(s) : s[i] = x
    OBVIOUS
  <2>1. PICK i \in 1 .. Len(s) - n : q[i] = x
    BY <1>1 DEF In
  <2>2. n + i \in n + 1 .. Len(s)
    OBVIOUS
  <2> QED BY <1>1, <2>1, <2>2
<1>5. (\A i \in 1 .. n : i \in 1 .. Len(s)) /\ (\A i \in n + 1 .. Len(s) : i \in 1 .. Len(s))
  OBVIOUS
<1>6. \A x : (In(x, p) => In(x, s)) /\ (In(x, q) => In(x, s))
  BY <1>3, <1>4, <1>5 DEF In
<1>7. ASSUME Distinct(s) PROVE Distinct(p) /\ Distinct(q) /\ \A x : ~(In(x, p) /\ In(x, q))
  <2>1. Distinct(p)
    BY <1>1, <1>7 DEF Distinct
  <2>2. Distinct(q)
    <3> SUFFICES ASSUME NEW i \in 1 .. Len(q), NEW j \in 1 .. Len(q), q[i] = q[j] PROVE i = j
      BY DEF Distinct
    <3>0. i \in 1 .. Len(s) - n /\ j \in 1 .. Len(s) - n
      BY <1>1
    <3>1. n + i \in 1 .. Len(s) /\ n + j \in 1 .. Len(s)
      BY <3>0
    <3>a. s[n + i] = s[n + j]
      BY <1>1, <3>0
    <3>2. n + i = n + j
      BY <1>7, <3>1, <3>a DEF Distinct
    <3> QED BY <1>1, <3>2
  <2>3. ASSUME NEW x, In(x, p), In(x, q) PROVE FALSE
    <3>1. PICK i \in 1 .. n : s[i] = x
      BY <1>3, <2>3
    <3>2. PICK j \in n + 1 .. Len(s) : s[j] = x
      BY <1>4, <2>3
    <3>3. i = j
      BY <1>5, <1>7, <3>1, <3>2 DEF Distinct
    <3> QED BY <3>3
  <2> QED BY <2>1, <2>2, <2>3
<1> QED BY <1>1, <1>2, <1>6, <1>7 DEF p, q

\* The place of an element.
LEMMA MinIn ==
  ASSUME NEW S \in SUBSET Nat, S # {}
  PROVE  Min(S) \in S /\ \A y \in S : Min(S) <= y
BY Least DEF Min

\* Where SelectInSeq finds an element that is there.
LEMMA PlaceOf ==
  ASSUME NEW S, NEW s \in Seq(S), NEW x, In(x, s)
  PROVE  /\ SelectInSeq(s, LAMBDA y : y = x) \in 1 .. Len(s)
         /\ s[SelectInSeq(s, LAMBDA y : y = x)] = x
<1> DEFINE I == {i \in 1 .. Len(s) : s[i] = x}
<1>1. I \in SUBSET Nat /\ I # {}
  BY DEF In
<1>2. SelectInSeq(s, LAMBDA y : y = x) = Min(I)
  BY <1>1 DEF SelectInSeq
<1> HIDE DEF I
<1>3. Min(I) \in I
  BY <1>1, MinIn
<1> QED BY <1>2, <1>3 DEF I

-----------------------------------------------------------------------------
\* Menus.

\* Every row is in the menu's order once, under an id the counter has passed.
Orderly(m) ==
  /\ m.next \in Nat /\ 0 < m.next
  /\ \A id \in DOMAIN m.rows : id \in Nat /\ 0 < id /\ id < m.next
  /\ m.order \in Seq(DOMAIN m.rows) /\ Distinct(m.order)
  /\ \A id \in DOMAIN m.rows : In(id, m.order)

\* A menu as it is found is orderly.
LEMMA OrderlyFound ==
  ASSUME NEW S, NEW rows \in Seq(S)
  PROVE  Orderly(MenuOf(rows))
<1> DEFINE m == MenuOf(rows)
<1>1. /\ DOMAIN m.rows = 1 .. Len(rows) /\ m.next = Len(rows) + 1
      /\ m.order = [i \in 1 .. Len(rows) |-> i]
  BY DEF MenuOf
<1> HIDE DEF m
<1>2. m.order \in Seq(DOMAIN m.rows) /\ Len(m.order) = Len(rows)
  BY <1>1
<1>3. Distinct(m.order) /\ \A id \in DOMAIN m.rows : In(id, m.order)
  BY <1>1, <1>2 DEF Distinct, In
<1>4. Orderly(m)
  BY <1>1, <1>2, <1>3 DEF Orderly
<1> QED BY <1>4 DEF m

\* PUT: the new row goes to the end.
LEMMA OrderlyCreate ==
  ASSUME NEW m, Orderly(m), NEW row
  PROVE  /\ Orderly(Create(m, row))
         /\ \A T : m.next \notin T => Only(Create(m, row).order, T) = Only(m.order, T)
<1> DEFINE c == Create(m, row)
           D == DOMAIN m.rows \cup {m.next}
<1>1. DOMAIN c.rows = D /\ c.next = m.next + 1 /\ c.order = Append(m.order, m.next)
  BY DEF Create
<1>2. m.order \in Seq(D)
  BY DEF Orderly
<1>3. m.next \in D /\ m.next \in Nat /\ \A i \in 1 .. Len(m.order) : m.order[i] # m.next
  BY DEF Orderly
<1>t. ASSUME NEW T, m.next \notin T PROVE Only(c.order, T) = Only(m.order, T)
  <2>1. Only(Append(m.order, m.next), T) = Taking(Only(m.order, T), m.next, T)
    BY <1>2, <1>3, OnlyAppend
  <2>2. Taking(Only(m.order, T), m.next, T) = Only(m.order, T)
    BY <1>t, Zenon DEF Taking
  <2> QED BY <1>1, <2>1, <2>2, Zenon
<1> HIDE DEF c, D
<1>4. c.order \in Seq(D) /\ Len(c.order) = Len(m.order) + 1 /\ c.order[Len(m.order) + 1] = m.next
      /\ \A i \in 1 .. Len(m.order) : c.order[i] = m.order[i]
  BY <1>1, <1>2, <1>3
<1>5. \A i \in 1 .. Len(c.order) : i \in 1 .. Len(m.order) \/ i = Len(m.order) + 1
  BY <1>2, <1>4
<1>6. Distinct(c.order)
  <2>1. Distinct(m.order)
    BY DEF Orderly
  <2> QED BY <1>3, <1>4, <1>5, <2>1 DEF Distinct
<1>7. \A id \in D : In(id, c.order)
  <2>1. \A id \in DOMAIN m.rows : In(id, m.order)
    BY DEF Orderly
  <2>2. ASSUME NEW id, In(id, m.order) PROVE In(id, c.order)
    <3>1. PICK i \in 1 .. Len(m.order) : m.order[i] = id
      BY <2>2 DEF In
    <3>2. i \in 1 .. Len(c.order) /\ c.order[i] = id
      BY <1>2, <1>4, <3>1
    <3> QED BY <3>2 DEF In
  <2>3. In(m.next, c.order)
    <3>1. Len(m.order) + 1 \in 1 .. Len(c.order)
      BY <1>2, <1>4
    <3> QED BY <1>4, <3>1 DEF In
  <2> QED BY <2>1, <2>2, <2>3 DEF D
<1>8. \A id \in D : id \in Nat /\ 0 < id /\ id < c.next
  <2>1. m.next \in Nat /\ 0 < m.next /\ \A id \in DOMAIN m.rows : id \in Nat /\ 0 < id /\ id < m.next
    BY DEF Orderly
  <2> QED BY <1>1, <2>1 DEF D
<1>9. Orderly(c)
  BY <1>1, <1>3, <1>4, <1>6, <1>7, <1>8 DEF Orderly
<1> QED BY <1>9, <1>t DEF c

\* PATCH: the rows and their order stay.
LEMMA OrderlyUpdate ==
  ASSUME NEW m, Orderly(m), NEW id, NEW fields
  PROVE  /\ Orderly(Update(m, id, fields))
         /\ Update(m, id, fields).order = m.order
<1> DEFINE u == Update(m, id, fields)
<1>1. DOMAIN u.rows = DOMAIN m.rows /\ u.next = m.next /\ u.order = m.order
  BY DEF Update
<1> HIDE DEF u
<1>2. Orderly(u)
  BY <1>1 DEF Orderly
<1> QED BY <1>1, <1>2 DEF u

\* DELETE: the others stay in order.
LEMMA OrderlyDelete ==
  ASSUME NEW m, Orderly(m), NEW id
  PROVE  /\ Orderly(Delete(m, id))
         /\ \A T : id \notin T => Only(Delete(m, id).order, T) = Only(m.order, T)
<1> DEFINE d == Delete(m, id)
           D == DOMAIN m.rows
           E == DOMAIN m.rows \ {id}
<1>1. DOMAIN d.rows = E /\ d.next = m.next /\ d.order = Only(m.order, E)
  BY DEF Delete
<1>2. m.order \in Seq(D) /\ Distinct(m.order)
  BY DEF Orderly
<1>3. \A x : In(x, d.order) <=> In(x, m.order) /\ x \in E
  BY <1>1, <1>2, InOnly
<1>4. d.order \in Seq(D) /\ Distinct(d.order)
  BY <1>1, <1>2, OnlyRange, DistinctOnly
<1>t. ASSUME NEW T, id \notin T PROVE Only(d.order, T) = Only(m.order, T)
  <2>1. Only(Only(m.order, E), T) = Only(m.order, E \cap T)
    BY <1>2, OnlyOnly
  <2>2. \A i \in 1 .. Len(m.order) : m.order[i] \in E \cap T <=> m.order[i] \in T
    BY <1>t, <1>2
  <2>3. Only(m.order, E \cap T) = Only(m.order, T)
    BY <1>2, <2>2, OnlySame
  <2> QED BY <1>1, <2>1, <2>3
<1> HIDE DEF d
<1>5. \A i \in 1 .. Len(d.order) : d.order[i] \in E
  BY <1>3 DEF In
<1>6. d.order \in Seq(E)
  BY <1>4, <1>5
<1>7. \A x \in E : In(x, d.order)
  BY <1>3 DEF Orderly
<1>8. Orderly(d)
  BY <1>1, <1>4, <1>6, <1>7 DEF Orderly
<1> QED BY <1>8, <1>t DEF d

\* What a move asks for: rows of the menu, none twice, in front of another or at the end.
Placeable(m, ids, before) ==
  /\ ids \in Seq(DOMAIN m.rows) /\ Distinct(ids)
  /\ before = NoID \/ (before \in DOMAIN m.rows /\ ~In(before, ids))

\* A block of one row.
LEMMA OneOf ==
  ASSUME NEW S, NEW x \in S
  PROVE  <<x>> \in Seq(S) /\ Len(<<x>>) = 1 /\ <<x>>[1] = x
OBVIOUS

\* One element of a sequence, on its own.
LEMMA OnlyOne ==
  ASSUME NEW S, NEW s \in Seq(S), Distinct(s), NEW x, In(x, s)
  PROVE  Only(s, {x}) = <<x>>
<1> DEFINE u == Only(s, {x})
<1>1. u \in Seq(S) /\ \A k \in 1 .. Len(u) : u[k] = x
  BY OnlyRange
<1>2. Distinct(u)
  BY DistinctOnly
<1>3. In(x, u)
  BY InOnly
<1> HIDE DEF u
<1>4. Len(u) = 1
  <2>1. Len(u) \in Nat /\ Len(u) >= 1
    BY <1>1, <1>3 DEF In
  <2>2. ASSUME Len(u) > 1 PROVE FALSE
    <3>1. 1 \in 1 .. Len(u) /\ 2 \in 1 .. Len(u)
      BY <2>1, <2>2
    <3>2. u[1] = x /\ u[2] = x
      BY <1>1, <3>1
    <3>3. u[1] = u[2] => 1 = 2
      BY <1>2, <3>1 DEF Distinct
    <3> QED BY <3>2, <3>3
  <2> DEFINE k == Len(u)
  <2>3. k \in Nat /\ k >= 1 /\ ~(k > 1)
    BY <2>1, <2>2
  <2> HIDE DEF k
  <2>4. k = 1
    BY <2>3
  <2> QED BY <2>4 DEF k
<1>5. u[1] = x
  BY <1>1, <1>4
<1>6. u = <<x>>
  BY <1>1, <1>4, <1>5
<1> QED BY <1>6 DEF u

\* A move of one row in front of another, or to the end.
LEMMA OnePlaceable ==
  ASSUME NEW m, NEW id \in DOMAIN m.rows, NEW before, before = NoID \/ (before \in DOMAIN m.rows /\ before # id)
  PROVE  Placeable(m, <<id>>, before)
<1>1. <<id>> \in Seq(DOMAIN m.rows) /\ Len(<<id>>) = 1 /\ <<id>>[1] = id
  BY OneOf
<1>2. Distinct(<<id>>) /\ \A y : In(y, <<id>>) => y = id
  BY <1>1 DEF Distinct, In
<1> QED BY <1>1, <1>2 DEF Placeable

Staying(m, ids) == Only(m.order, DOMAIN m.rows \ Range(ids))
Around(rest, n, ids) == Joined(Joined(SubSeq(rest, 1, n), ids), SubSeq(rest, n + 1, Len(rest)))

\* POST move: the rows that are not moved stay in order, around the block.
LEMMA MoveCuts ==
  ASSUME NEW m, Orderly(m), NEW ids, NEW before, Placeable(m, ids, before)
  PROVE  \E n \in 0 .. Len(Staying(m, ids)) :
           /\ Move(m, ids, before).order = Around(Staying(m, ids), n, ids)
           /\ before = NoID => n = Len(Staying(m, ids))
           /\ before # NoID => n < Len(Staying(m, ids)) /\ Staying(m, ids)[n + 1] = before
<1> DEFINE D    == DOMAIN m.rows
           rest == Only(m.order, D \ Range(ids))
           n    == IF before = NoID THEN Len(rest)
                   ELSE SelectInSeq(rest, LAMBDA x : x = before) - 1
<1>1. m.order \in Seq(D)
  BY DEF Orderly
<1>2. rest \in Seq(D)
  BY <1>1, OnlyRange
<1>3. Move(m, ids, before).order = Around(rest, n, ids)
  BY DEF Move, Joined, Around
<1>4. CASE before = NoID
  <2>1. n = Len(rest)
    BY <1>4
  <2>2. Len(rest) \in 0 .. Len(rest)
    BY <1>2
  <2> HIDE DEF rest, n
  <2> QED BY <1>3, <1>4, <2>1, <2>2 DEF rest, Staying
<1>5. CASE before # NoID
  <2>1. before \in D \ Range(ids)
    BY <1>5, InRange DEF Placeable
  <2>2. In(before, m.order)
    BY <2>1 DEF Orderly
  <2>3. In(before, rest)
    BY <1>1, <2>1, <2>2, InOnly
  <2> DEFINE k == SelectInSeq(rest, LAMBDA x : x = before)
  <2>4. n = k - 1
    BY <1>5
  <2> HIDE DEF rest
  <2>5. k \in 1 .. Len(rest) /\ rest[k] = before
    BY <1>2, <2>3, PlaceOf
  <2> HIDE DEF n, k
  <2>6. Len(rest) \in Nat
    BY <1>2
  <2>7. n \in 0 .. Len(rest) /\ n < Len(rest) /\ n + 1 = k
    BY <2>4, <2>5, <2>6
  <2> QED BY <1>3, <1>5, <2>5, <2>7 DEF rest, Staying
<1> QED BY <1>4, <1>5

\* POST move keeps the menu orderly, changes no row, and keeps the order of the rows
\* it does not name.
LEMMA OrderlyMove ==
  ASSUME NEW m, Orderly(m), NEW ids, NEW before, Placeable(m, ids, before)
  PROVE  /\ Orderly(Move(m, ids, before))
         /\ Move(m, ids, before).rows = m.rows
         /\ \A T : (\A x \in T : ~In(x, ids)) => Only(Move(m, ids, before).order, T) = Only(m.order, T)
<1> DEFINE v    == Move(m, ids, before)
           D    == DOMAIN m.rows
           rest == Staying(m, ids)
<1>1. v.rows = m.rows /\ v.next = m.next
  BY DEF Move
<1>2. PICK n \in 0 .. Len(rest) : v.order = Around(rest, n, ids)
  BY MoveCuts
<1> DEFINE p == SubSeq(rest, 1, n)
           q == SubSeq(rest, n + 1, Len(rest))
<1>3. m.order \in Seq(D) /\ Distinct(m.order) /\ ids \in Seq(D) /\ Distinct(ids)
  BY DEF Orderly, Placeable
<1>4. rest \in Seq(D) /\ Distinct(rest)
  BY <1>3, OnlyRange, DistinctOnly DEF Staying
<1>5. \A x : In(x, rest) <=> In(x, m.order) /\ x \in D \ Range(ids)
  BY <1>3, InOnly DEF Staying
<1>r. \A T : Only(rest, T) = Only(m.order, (D \ Range(ids)) \cap T)
  BY <1>3, OnlyOnly DEF Staying
<1> HIDE DEF rest, v
<1>6. /\ p \in Seq(D) /\ q \in Seq(D) /\ Joined(p, q) = rest
      /\ \A x : (In(x, p) => In(x, rest)) /\ (In(x, q) => In(x, rest))
      /\ Distinct(p) /\ Distinct(q) /\ \A x : ~(In(x, p) /\ In(x, q))
  BY <1>4, Cut
<1> HIDE DEF p, q
<1>7. v.order = Joined(Joined(p, ids), q)
  BY <1>2 DEF p, q, Around
<1>8. Joined(p, ids) \in Seq(D)
  BY <1>3, <1>6, JoinedType
<1>9. v.order \in Seq(D)
  BY <1>6, <1>7, <1>8, JoinedType
<1>10. \A x : In(x, Joined(p, ids)) <=> In(x, p) \/ In(x, ids)
  BY <1>3, <1>6, InJoined
<1>11. \A x : In(x, v.order) <=> In(x, p) \/ In(x, ids) \/ In(x, q)
  BY <1>6, <1>7, <1>8, <1>10, InJoined
<1>12. \A x : In(x, rest) <=> In(x, p) \/ In(x, q)
  BY <1>6, InJoined
<1>13. \A x : In(x, ids) => x \in Range(ids) /\ x \in D
  BY <1>3, InRange
<1>14. Distinct(v.order)
  <2>1. Distinct(Joined(p, ids))
    BY <1>3, <1>5, <1>6, <1>13, DistinctJoined
  <2>2. \A x : ~(In(x, Joined(p, ids)) /\ In(x, q))
    BY <1>5, <1>6, <1>10, <1>13
  <2> QED BY <1>6, <1>7, <1>8, <2>1, <2>2, DistinctJoined
<1>15. \A x \in D : In(x, v.order)
  <2> SUFFICES ASSUME NEW x \in D PROVE In(x, v.order)
    OBVIOUS
  <2>1. CASE x \in Range(ids)
    BY <1>3, <1>11, <2>1, InRange
  <2>2. CASE x \notin Range(ids)
    <3>1. In(x, m.order)
      BY DEF Orderly
    <3> QED BY <1>5, <1>11, <1>12, <2>2, <3>1
  <2> QED BY <2>1, <2>2
<1>16. Orderly(v)
  BY <1>1, <1>9, <1>14, <1>15 DEF Orderly
<1>17. ASSUME NEW T, \A x \in T : ~In(x, ids) PROVE Only(v.order, T) = Only(m.order, T)
  <2>1. Only(v.order, T) = Joined(Only(Joined(p, ids), T), Only(q, T))
    BY <1>6, <1>7, <1>8, OnlyJoined
  <2>2. Only(Joined(p, ids), T) = Joined(Only(p, T), Only(ids, T))
    BY <1>3, <1>6, OnlyJoined
  <2>3. Only(ids, T) = <<>>
    <3>1. \A i \in 1 .. Len(ids) : ids[i] \notin T
      BY <1>17 DEF In
    <3> QED BY <1>3, <3>1, OnlyAll
  <2>4. Joined(Only(p, T), <<>>) = Only(p, T)
    <3>1. Only(p, T) \in Seq(D)
      BY <1>6, OnlyRange
    <3> QED BY <3>1 DEF Joined
  <2>5. Only(v.order, T) = Joined(Only(p, T), Only(q, T))
    BY <2>1, <2>2, <2>3, <2>4
  <2>6. Joined(Only(p, T), Only(q, T)) = Only(rest, T)
    BY <1>6, OnlyJoined
  <2>7. \A i \in 1 .. Len(m.order) : m.order[i] \in (D \ Range(ids)) \cap T <=> m.order[i] \in T
    <3>1. \A x \in T : x \notin Range(ids)
      BY <1>3, <1>17, InRange
    <3> QED BY <1>3, <3>1
  <2>8. Only(m.order, (D \ Range(ids)) \cap T) = Only(m.order, T)
    BY <1>3, <2>7, OnlySame
  <2> QED BY <1>r, <2>5, <2>6, <2>8
<1> QED BY <1>1, <1>16, <1>17 DEF v

-----------------------------------------------------------------------------
\* The planner.

\* A row is claimed only if it fits and nothing has claimed it before.
LEMMA ClaimIs ==
  ASSUME NEW spc, NEW w, NEW c, DOMAIN c \in SUBSET Nat, NEW claimed
  PROVE  \/ Claim(spc, w, c, claimed) \in {NoID, Ambiguous}
         \/ \E k \in DOMAIN c : /\ Fits(spc, w, c[k]) /\ c[k].id \notin claimed
                                /\ Claim(spc, w, c, claimed) = c[k].id
<1> DEFINE rows == Candidates(spc, w, c, claimed)
<1>1. \A k \in rows : k \in DOMAIN c /\ Fits(spc, w, c[k]) /\ c[k].id \notin claimed
  BY DEF Candidates
<1>2. Claim(spc, w, c, claimed) =
        IF rows = {} THEN NoID ELSE IF Indistinguishable(c, rows) THEN c[Min(rows)].id ELSE Ambiguous
  BY DEF Claim
<1> HIDE DEF rows
<1>3. ASSUME rows # {} PROVE Min(rows) \in rows
  <2>1. rows \in SUBSET Nat
    BY <1>1
  <2> QED BY <1>3, <2>1, MinIn
<1> QED BY <1>1, <1>2, <1>3

ClaimRow(spc, d, c, n, f) ==
  f = [i \in 0 .. n |-> IF i = 0 THEN <<>> ELSE Claiming(spc, d[i], c, f[i - 1])]

\* The recursion of Matched has a solution up to any length.
LEMMA ClaimsExist ==
  ASSUME NEW spc, NEW d, NEW c, NEW n \in Nat
  PROVE  \E f : ClaimRow(spc, d, c, n, f)
<1> DEFINE P == {i \in 0 .. n : \E f : ClaimRow(spc, d, c, i, f)}
<1>1. 0 \in P
  <2> DEFINE f == [i \in 0 .. 0 |-> <<>>]
  <2>1. f = [i \in 0 .. 0 |-> IF i = 0 THEN <<>> ELSE Claiming(spc, d[i], c, f[i - 1])]
    OBVIOUS
  <2> HIDE DEF f
  <2> QED BY <2>1 DEF ClaimRow
<1>2. ASSUME NEW k \in 1 .. n, k - 1 \in P PROVE k \in P
  <2>1. PICK f : ClaimRow(spc, d, c, k - 1, f)
    BY <1>2
  <2>2. f = [i \in 0 .. k - 1 |-> IF i = 0 THEN <<>> ELSE Claiming(spc, d[i], c, f[i - 1])]
    BY <2>1 DEF ClaimRow
  <2> DEFINE g == [i \in 0 .. k |-> IF i = 0 THEN <<>> ELSE Claiming(spc, d[i], c, f[i - 1])]
  <2>3. \A i \in 0 .. k - 1 : g[i] = f[i]
    BY <2>2
  <2>4. ASSUME NEW i \in 0 .. k, i # 0 PROVE g[i] = Claiming(spc, d[i], c, g[i - 1])
    <3>1. i - 1 \in 0 .. k - 1
      BY <2>4
    <3>2. g[i] = Claiming(spc, d[i], c, f[i - 1])
      BY <2>4
    <3> QED BY <2>3, <3>1, <3>2
  <2>5. g[0] = <<>> /\ DOMAIN g = 0 .. k
    OBVIOUS
  <2>6. g = [i \in 0 .. k |-> IF i = 0 THEN <<>> ELSE Claiming(spc, d[i], c, g[i - 1])]
    BY <2>4, <2>5
  <2> HIDE DEF g
  <2> QED BY <2>6 DEF ClaimRow
<1> HIDE DEF P
<1>3. \A i \in 0 .. n : i \in P
  BY <1>1, <1>2, UpTo
<1>4. n \in P
  BY <1>3
<1> QED BY <1>4 DEF P

\* What the first desired rows claim: rows that fit, and no row twice.
Apart(mt) == \A i, j \in 1 .. Len(mt) : mt[i] = mt[j] => i = j \/ mt[i] \in {NoID, Ambiguous}
Suits(spc, w, c, id) ==
  id \in {NoID, Ambiguous} \/ \E k \in DOMAIN c : Fits(spc, w, c[k]) /\ id = c[k].id

\* One more desired row.
Claimed(spc, w, c, mt, u) ==
  /\ u \in Seq(Int) /\ Len(u) = Len(mt) + 1 /\ Apart(u)
  /\ \A i \in 1 .. Len(mt) : u[i] = mt[i]
  /\ Suits(spc, w, c, u[Len(mt) + 1])

\* One more desired row claims a row nobody has claimed, or none.
LEMMA ClaimingIs ==
  ASSUME NEW spc, NEW w, NEW c, DOMAIN c \in SUBSET Nat, \A k \in DOMAIN c : c[k].id \in Nat,
         NEW mt \in Seq(Int), Apart(mt)
  PROVE  Claimed(spc, w, c, mt, Claiming(spc, w, c, mt))
<1> DEFINE x == Claim(spc, w, c, Range(mt))
           u == Claiming(spc, w, c, mt)
<1>1. \/ x \in {NoID, Ambiguous}
      \/ \E k \in DOMAIN c : Fits(spc, w, c[k]) /\ c[k].id \notin Range(mt) /\ x = c[k].id
  BY ClaimIs
<1>2. u = Append(mt, x)
  BY DEF Claiming
<1> HIDE DEF x, u
<1>3. x \in Int
  BY <1>1 DEF NoID, Ambiguous
<1>4. u \in Seq(Int) /\ Len(u) = Len(mt) + 1 /\ u[Len(mt) + 1] = x
      /\ \A i \in 1 .. Len(mt) : u[i] = mt[i]
  BY <1>2, <1>3
<1>5. Suits(spc, w, c, x)
  BY <1>1 DEF Suits
<1>6. \A i \in 1 .. Len(mt) : mt[i] = x => x \in {NoID, Ambiguous}
  <2>1. \A i \in 1 .. Len(mt) : mt[i] \in Range(mt)
    BY DEF Range
  <2> QED BY <1>1, <2>1
<1>7. \A i \in 1 .. Len(u) : i \in 1 .. Len(mt) \/ i = Len(mt) + 1
  BY <1>4
<1>8. Apart(u)
  BY <1>4, <1>6, <1>7 DEF Apart
<1> QED BY <1>4, <1>5, <1>8 DEF u, Claimed

\* Every desired row is matched to a row that fits it, and no row is matched twice.
LEMMA MatchedIs ==
  ASSUME NEW spc, NEW W, NEW d \in Seq(W), NEW c, DOMAIN c \in SUBSET Nat,
         \A k \in DOMAIN c : c[k].id \in Nat
  PROVE  /\ Matched(spc, d, c) \in Seq(Int) /\ Len(Matched(spc, d, c)) = Len(d)
         /\ \A i \in 1 .. Len(d) : Suits(spc, d[i], c, Matched(spc, d, c)[i])
         /\ Apart(Matched(spc, d, c))
<1> DEFINE K == CHOOSE f : f = [i \in 0 .. Len(d) |->
                                  IF i = 0 THEN <<>> ELSE Claiming(spc, d[i], c, f[i - 1])]
<1>l. Len(d) \in Nat
  OBVIOUS
<1>1. K = [i \in 0 .. Len(d) |-> IF i = 0 THEN <<>> ELSE Claiming(spc, d[i], c, K[i - 1])]
  BY <1>l, ClaimsExist DEF ClaimRow
<1>2. Matched(spc, d, c) = K[Len(d)]
  BY DEF Matched
<1> HIDE DEF K
<1>3. K[0] = <<>> /\ \A i \in 1 .. Len(d) : K[i] = Claiming(spc, d[i], c, K[i - 1])
  BY <1>1, <1>l
<1> DEFINE Good(i) == /\ K[i] \in Seq(Int) /\ Len(K[i]) = i /\ Apart(K[i])
                      /\ \A j \in 1 .. i : Suits(spc, d[j], c, K[i][j])
<1> DEFINE P == {i \in 0 .. Len(d) : Good(i)}
<1>4. 0 \in P
  <2>1. K[0] = <<>>
    BY <1>3
  <2>2. K[0] \in Seq(Int) /\ Len(K[0]) = 0
    BY <2>1
  <2>3. Apart(K[0])
    BY <2>2 DEF Apart
  <2>4. Good(0)
    BY <2>2, <2>3
  <2> QED BY <1>l, <2>4
<1>5. ASSUME NEW i \in 1 .. Len(d), i - 1 \in P PROVE i \in P
  <2>1. Good(i - 1)
    BY <1>5
  <2>2. K[i] = Claiming(spc, d[i], c, K[i - 1])
    BY <1>3
  <2>3. /\ K[i] \in Seq(Int) /\ Len(K[i]) = Len(K[i - 1]) + 1 /\ Apart(K[i])
        /\ \A j \in 1 .. Len(K[i - 1]) : K[i][j] = K[i - 1][j]
        /\ Suits(spc, d[i], c, K[i][Len(K[i - 1]) + 1])
    <3>1. K[i - 1] \in Seq(Int) /\ Apart(K[i - 1])
      BY <2>1
    <3>2. Claimed(spc, d[i], c, K[i - 1], Claiming(spc, d[i], c, K[i - 1]))
      BY <3>1, ClaimingIs
    <3>3. Claimed(spc, d[i], c, K[i - 1], K[i])
      BY <2>2, <3>2
    <3> QED BY <3>3 DEF Claimed
  <2>4. Len(K[i]) = i /\ Suits(spc, d[i], c, K[i][i]) /\ \A j \in 1 .. i - 1 : K[i][j] = K[i - 1][j]
    BY <2>1, <2>3
  <2>5. \A j \in 1 .. i : j = i \/ j \in 1 .. i - 1
    OBVIOUS
  <2>6. Good(i)
    BY <2>1, <2>3, <2>4, <2>5
  <2> QED BY <2>6
<1> HIDE DEF P
<1>6. \A i \in 0 .. Len(d) : i \in P
  BY <1>l, <1>4, <1>5, UpTo
<1>7. Good(Len(d))
  BY <1>l, <1>6 DEF P
<1> QED BY <1>2, <1>7

\* The rows of a reading a plan may address: none without an id, none ignored.
Ours(spc, c) == {c[k].id : k \in {k \in DOMAIN c : c[k].id # NoID /\ ~Ignored(spc, c[k])}}

\* What a step of a plan may ask for.
Sound(spc, d, c, x) ==
  /\ x.op \in {"create", "update", "delete", "move"}
  /\ x.op = "create" => \E i \in 1 .. Len(d) : x.row = d[i]
  /\ x.op = "update" => /\ x.id \in Ours(spc, c)
                        /\ \E i \in 1 .. Len(d) : DOMAIN x.row \subseteq DOMAIN d[i]
  /\ x.op = "delete" => x.id \in Ours(spc, c) /\ spc.unlisted = "prune"
  /\ x.op = "move" => /\ x.order \in Seq(Ours(spc, c)) /\ Distinct(x.order)
                      /\ x.before = NoID \/ (x.before \in Ours(spc, c) /\ ~In(x.before, x.order))

\* A sequence whose elements are all in a set.
LEMMA SeqIn ==
  ASSUME NEW S, NEW T, NEW s \in Seq(S), \A i \in 1 .. Len(s) : s[i] \in T
  PROVE  s \in Seq(T)
OBVIOUS

\* A function on 1 .. n is a sequence of length n.
LEMMA RangeSeq ==
  ASSUME NEW n \in Nat, NEW f, f = [i \in 1 .. n |-> f[i]]
  PROVE  f \in Seq(Range(f)) /\ Len(f) = n
<1>1. f \in [1 .. n -> Range(f)]
  BY DEF Range
<1> QED BY <1>1

\* A desired row that is matched is matched to one of those rows.
LEMMA SuitsOurs ==
  ASSUME NEW spc, NEW w, NEW c, NEW id, Suits(spc, w, c, id), id # NoID, id # Ambiguous
  PROVE  id \in Ours(spc, c)
BY DEF Suits, Fits, Ours

\* Creates and updates.
LEMMA WritesSound ==
  ASSUME NEW spc, NEW W, NEW d \in Seq(W), NEW c, NEW mt \in Seq(Int), Len(mt) = Len(d),
         \A i \in 1 .. Len(d) : Suits(spc, d[i], c, mt[i]) /\ mt[i] # Ambiguous
  PROVE  /\ Writes(spc, d, c, mt) \in Seq(Range(Writes(spc, d, c, mt)))
         /\ \A k \in 1 .. Len(Writes(spc, d, c, mt)) : Sound(spc, d, c, Writes(spc, d, c, mt)[k])
         /\ Len(d) = 0 => Writes(spc, d, c, mt) = <<>>
<1> DEFINE Diff(i)  == Changes(d[i], ById(c, mt[i]))
           Write(i) == IF mt[i] = NoID THEN CreateStep(d[i]) ELSE UpdateStep(mt[i], Diff(i))
           open     == {i \in DOMAIN d : mt[i] = NoID \/ (spc.key # NoKey /\ DOMAIN Diff(i) # {})}
           written  == Only([i \in DOMAIN d |-> i], open)
           wr       == Writes(spc, d, c, mt)
<1>1. wr = [k \in DOMAIN written |-> Write(written[k])]
  BY DEF Writes
<1>2. [i \in DOMAIN d |-> i] \in Seq(1 .. Len(d)) /\ Len([i \in DOMAIN d |-> i]) = Len(d)
  OBVIOUS
<1>3. written \in Seq(1 .. Len(d)) /\ Len(written) <= Len(d)
  BY <1>2, OnlyRange
<1>4. ASSUME NEW i \in 1 .. Len(d) PROVE Sound(spc, d, c, Write(i))
  <2>1. CASE mt[i] = NoID
    <3>1. Write(i).op = "create" /\ Write(i).row = d[i]
      BY <2>1 DEF CreateStep, Step
    <3> QED BY <3>1 DEF Sound
  <2>2. CASE mt[i] # NoID
    <3>1. Write(i).op = "update" /\ Write(i).id = mt[i] /\ Write(i).row = Diff(i)
      BY <2>2 DEF UpdateStep, Step
    <3>2. DOMAIN Diff(i) \subseteq DOMAIN d[i]
      BY DEF Changes
    <3>3. mt[i] \in Ours(spc, c)
      BY <2>2, SuitsOurs
    <3> QED BY <3>1, <3>2, <3>3 DEF Sound
  <2> QED BY <2>1, <2>2
<1> HIDE DEF written, wr, Write
<1>5. Len(written) \in Nat /\ DOMAIN written = 1 .. Len(written)
  BY <1>3
<1>6. wr = [k \in 1 .. Len(written) |-> wr[k]]
  BY <1>1, <1>5
<1>7. wr \in Seq(Range(wr)) /\ Len(wr) = Len(written)
  BY <1>5, <1>6, RangeSeq
<1>8. \A k \in 1 .. Len(wr) : Sound(spc, d, c, wr[k])
  BY <1>1, <1>3, <1>4, <1>5, <1>7
<1>9. Len(d) = 0 => wr = <<>>
  BY <1>3, <1>5, <1>7
<1> QED BY <1>7, <1>8, <1>9 DEF wr

\* Deletes: under Prune and of no ignored row; and if there is none, nothing is left
\* to delete.
LEMMA DeletesSound ==
  ASSUME NEW spc, NEW d, NEW R, NEW c \in Seq(R), NEW mt
  PROVE  /\ Deletes(spc, c, mt) \in Seq(Range(Deletes(spc, c, mt)))
         /\ \A k \in 1 .. Len(Deletes(spc, c, mt)) :
              Deletes(spc, c, mt)[k].op = "delete" /\ Sound(spc, d, c, Deletes(spc, c, mt)[k])
         /\ (Deletes(spc, c, mt) = <<>> /\ spc.unlisted = "prune") => Ours(spc, c) \subseteq Range(mt)
<1> DEFINE T == {row \in Range(c) : /\ spc.unlisted = "prune"
                                    /\ row.id # NoID
                                    /\ row.id \notin Range(mt)
                                    /\ ~Ignored(spc, row)}
           unlisted == Only(c, T)
           dl       == Deletes(spc, c, mt)
<1>1. dl = [i \in DOMAIN unlisted |-> DeleteStep(unlisted[i])]
  BY DEF Deletes
<1>2. unlisted \in Seq(R)
  BY OnlyRange
<1>3. \A row : In(row, unlisted) <=> In(row, c) /\ row \in T
  BY InOnly
<1> HIDE DEF unlisted, dl
<1>4. Len(unlisted) \in Nat /\ DOMAIN unlisted = 1 .. Len(unlisted)
  BY <1>2
<1>5. dl = [k \in 1 .. Len(unlisted) |-> dl[k]]
  BY <1>1, <1>4
<1>6. dl \in Seq(Range(dl)) /\ Len(dl) = Len(unlisted)
  BY <1>4, <1>5, RangeSeq
<1>7. ASSUME NEW k \in 1 .. Len(dl) PROVE dl[k].op = "delete" /\ Sound(spc, d, c, dl[k])
  <2>1. unlisted[k] \in T
    BY <1>3, <1>6 DEF In
  <2>2. dl[k] = DeleteStep(unlisted[k])
    BY <1>1, <1>4, <1>6
  <2>3. dl[k].op = "delete" /\ dl[k].id = unlisted[k].id
    BY <2>2 DEF DeleteStep, Step
  <2>4. unlisted[k].id \in Ours(spc, c)
    BY <2>1 DEF Ours, Range
  <2> QED BY <2>1, <2>3, <2>4 DEF Sound
<1>8. ASSUME dl = <<>>, spc.unlisted = "prune" PROVE Ours(spc, c) \subseteq Range(mt)
  <2>1. Len(unlisted) = 0
    BY <1>6, <1>8
  <2>2. ASSUME NEW k \in DOMAIN c, c[k].id # NoID, ~Ignored(spc, c[k]), c[k].id \notin Range(mt) PROVE FALSE
    <3>1. c[k] \in T
      BY <1>8, <2>2 DEF Range
    <3>2. In(c[k], c)
      BY DEF In
    <3>3. In(c[k], unlisted)
      BY <1>3, <3>1, <3>2
    <3> QED BY <2>1, <3>3 DEF In
  <2> QED BY <2>2 DEF Ours
<1> QED BY <1>6, <1>7, <1>8 DEF dl

\* Moves: of matched rows, none twice, and never in front of themselves.
LEMMA ReorderSound ==
  ASSUME NEW spc, NEW W, NEW d \in Seq(W), NEW c, NEW mt \in Seq(Int), Len(mt) = Len(d),
         \A i \in 1 .. Len(d) : Suits(spc, d[i], c, mt[i]) /\ mt[i] # Ambiguous,
         Apart(mt)
  PROVE  /\ Reorder(spc, c, mt) \in Seq(Range(Reorder(spc, c, mt)))
         /\ \A k \in 1 .. Len(Reorder(spc, c, mt)) :
              Reorder(spc, c, mt)[k].op = "move" /\ Sound(spc, d, c, Reorder(spc, c, mt)[k])
         /\ Len(d) = 0 => Reorder(spc, c, mt) = <<>>
<1> DEFINE ids  == Range(mt) \ {NoID}
           goal == Only(mt, ids)
           have == Only([k \in DOMAIN c |-> c[k].id], ids)
           n    == Len(goal)
           ro   == Reorder(spc, c, mt)
<1>1. ro = IF ~spc.ordered \/ n < 2 \/ goal = have THEN <<>>
           ELSE IF Len(have) = Len(c) THEN <<MoveStep(goal, NoID)>>
           ELSE [i \in 1 .. n - 1 |-> MoveStep(<<goal[n - i]>>, goal[n - i + 1])]
  BY DEF Reorder
<1>2. goal \in Seq(Int) /\ n <= Len(mt)
  BY OnlyRange
<1>3. \A x : In(x, goal) <=> In(x, mt) /\ x \in ids
  BY InOnly
<1>4. \A x : In(x, goal) => x \in Ours(spc, c)
  <2> SUFFICES ASSUME NEW x, In(x, goal) PROVE x \in Ours(spc, c)
    OBVIOUS
  <2>1. PICK i \in 1 .. Len(mt) : mt[i] = x
    BY <1>3 DEF In
  <2>2. x # NoID /\ x # Ambiguous /\ Suits(spc, d[i], c, x)
    BY <1>3, <2>1
  <2> QED BY <2>2, SuitsOurs
<1>5. Distinct(goal)
  <2>1. \A i, j \in 1 .. Len(mt) : mt[i] = mt[j] /\ mt[i] \in ids => i = j
    BY DEF Apart
  <2> QED BY <2>1, OnlyInjective DEF Distinct
<1> SUFFICES /\ ro \in Seq(Range(ro))
             /\ \A k \in 1 .. Len(ro) : ro[k].op = "move" /\ Sound(spc, d, c, ro[k])
             /\ Len(d) = 0 => ro = <<>>
  OBVIOUS
<1> HIDE DEF goal, have, ro, ids
<1>6. n \in Nat /\ \A i \in 1 .. n : goal[i] \in Ours(spc, c)
  BY <1>2, <1>4 DEF In
<1>7. CASE ~spc.ordered \/ n < 2 \/ goal = have
  <2>1. ro = <<>>
    BY <1>1, <1>7
  <2> QED BY <2>1
<1>8. CASE ~(~spc.ordered \/ n < 2 \/ goal = have) /\ Len(have) = Len(c)
  <2>1. ro = <<MoveStep(goal, NoID)>>
    BY <1>1, <1>8
  <2>2. ro[1] = MoveStep(goal, NoID) /\ Len(ro) = 1 /\ ro \in Seq(Range(ro))
    BY <2>1 DEF Range
  <2>3. goal \in Seq(Ours(spc, c))
    BY <1>2, <1>6, SeqIn
  <2>4. ro[1].op = "move" /\ ro[1].order = goal /\ ro[1].before = NoID
    BY <2>2 DEF MoveStep, Step
  <2>5. Sound(spc, d, c, ro[1])
    BY <1>5, <2>3, <2>4 DEF Sound
  <2> QED BY <1>2, <1>8, <2>2, <2>4, <2>5
<1>9. CASE ~(~spc.ordered \/ n < 2 \/ goal = have) /\ Len(have) # Len(c)
  <2>1. ro = [i \in 1 .. n - 1 |-> MoveStep(<<goal[n - i]>>, goal[n - i + 1])]
    BY <1>1, <1>9
  <2>2. n - 1 \in Nat
    BY <1>6, <1>9
  <2>3. ro = [i \in 1 .. n - 1 |-> ro[i]]
    BY <2>1
  <2>4. ro \in Seq(Range(ro)) /\ Len(ro) = n - 1
    BY <2>2, <2>3, RangeSeq
  <2>5. ASSUME NEW i \in 1 .. n - 1 PROVE ro[i].op = "move" /\ Sound(spc, d, c, ro[i])
    <3>1. n - i \in 1 .. n /\ n - i + 1 \in 1 .. n /\ n - i # n - i + 1
      BY <2>2
    <3>2. goal[n - i] \in Ours(spc, c) /\ goal[n - i + 1] \in Ours(spc, c)
      BY <1>6, <3>1
    <3>3. goal[n - i] # goal[n - i + 1]
      BY <1>5, <3>1 DEF Distinct
    <3>4. ro[i].op = "move" /\ ro[i].order = <<goal[n - i]>> /\ ro[i].before = goal[n - i + 1]
      BY <2>1 DEF MoveStep, Step
    <3>5. ro[i].order \in Seq(Ours(spc, c)) /\ Len(ro[i].order) = 1 /\ ro[i].order[1] = goal[n - i]
      BY <3>2, <3>4
    <3>6. Distinct(ro[i].order) /\ ~In(ro[i].before, ro[i].order)
      BY <3>3, <3>4, <3>5 DEF Distinct, In
    <3> QED BY <3>2, <3>4, <3>5, <3>6 DEF Sound
  <2>6. Len(d) # 0
    <3>1. ~(n < 2)
      BY <1>9
    <3> QED BY <1>2, <1>6, <3>1
  <2>7. \A k \in 1 .. Len(ro) : ro[k].op = "move" /\ Sound(spc, d, c, ro[k])
    BY <2>4, <2>5
  <2> QED BY <2>4, <2>6, <2>7
<1> QED BY <1>7, <1>8, <1>9

\* plan: every step is sound; and a plan for no rows under Prune is empty only if
\* there is no row to delete.
LEMMA PlanSound ==
  ASSUME NEW spc, NEW W, NEW d \in Seq(W), NEW R, NEW c \in Seq(R),
         \A k \in 1 .. Len(c) : c[k].id \in Nat
  PROVE  /\ \A i \in DOMAIN Plan(spc, d, c).steps : Sound(spc, d, c, Plan(spc, d, c).steps[i])
         /\ (/\ Plan(spc, d, c).err = "none" /\ Len(d) = 0 /\ spc.unlisted = "prune"
             /\ ~HasDelete(Plan(spc, d, c).steps))
              => Ours(spc, c) = {} /\ Plan(spc, d, c).steps = <<>>
<1> DEFINE p  == Plan(spc, d, c)
           mt == Matched(spc, d, c)
           wr == Writes(spc, d, c, mt)
           dl == Deletes(spc, c, mt)
           ro == Reorder(spc, c, mt)
<1> SUFFICES /\ \A i \in DOMAIN p.steps : Sound(spc, d, c, p.steps[i])
             /\ (p.err = "none" /\ Len(d) = 0 /\ spc.unlisted = "prune" /\ ~HasDelete(p.steps))
                  => Ours(spc, c) = {} /\ p.steps = <<>>
  OBVIOUS
<1>1. \/ p.steps = <<>> /\ p.err # "none"
      \/ p.steps = wr \o dl \o ro /\ Ambiguous \notin Range(mt)
  <2>1. p \in {Refuse("ErrNoUnlistedPolicy"), Refuse("ErrEmptyIgnoreSelector"), Steps(spc, d, c, mt)}
    BY DEF Plan
  <2>2. CASE p \in {Refuse("ErrNoUnlistedPolicy"), Refuse("ErrEmptyIgnoreSelector")}
    BY <2>2 DEF Refuse
  <2>3. CASE p = Steps(spc, d, c, mt) /\ Ambiguous \in Range(mt)
    BY <2>3 DEF Steps, Refuse
  <2>4. CASE p = Steps(spc, d, c, mt) /\ Ambiguous \notin Range(mt)
    <3>1. Steps(spc, d, c, mt) = [err |-> "none", matched |-> mt, steps |-> wr \o dl \o ro]
      BY <2>4 DEF Steps
    <3> HIDE DEF wr, dl, ro
    <3> QED BY <2>4, <3>1
  <2> QED BY <2>1, <2>2, <2>3, <2>4
<1>2. DOMAIN c \in SUBSET Nat /\ \A k \in DOMAIN c : c[k].id \in Nat
  OBVIOUS
<1>3. /\ mt \in Seq(Int) /\ Len(mt) = Len(d) /\ Apart(mt)
      /\ \A i \in 1 .. Len(d) : Suits(spc, d[i], c, mt[i])
  BY <1>2, MatchedIs
<1> HIDE DEF p, mt
<1>4. CASE p.steps = <<>> /\ p.err # "none"
  <2>1. DOMAIN p.steps = {}
    BY <1>4
  <2> QED BY <1>4, <2>1
<1>5. CASE p.steps = wr \o dl \o ro /\ Ambiguous \notin Range(mt)
  <2>1. \A i \in 1 .. Len(d) : Suits(spc, d[i], c, mt[i]) /\ mt[i] # Ambiguous
    BY <1>3, <1>5 DEF Range
  <2>2. /\ wr \in Seq(Range(wr))
        /\ Len(d) = 0 => wr = <<>>
        /\ \A k \in 1 .. Len(wr) : Sound(spc, d, c, wr[k])
    BY <1>3, <2>1, WritesSound
  <2>3. /\ dl \in Seq(Range(dl))
        /\ \A k \in 1 .. Len(dl) : dl[k].op = "delete" /\ Sound(spc, d, c, dl[k])
        /\ dl = <<>> /\ spc.unlisted = "prune" => Ours(spc, c) \subseteq Range(mt)
    BY DeletesSound
  <2>4. /\ ro \in Seq(Range(ro))
        /\ Len(d) = 0 => ro = <<>>
        /\ \A k \in 1 .. Len(ro) : Sound(spc, d, c, ro[k])
    BY <1>3, <2>1, ReorderSound
  <2> HIDE DEF wr, dl, ro
  <2> DEFINE U == Range(wr) \cup Range(dl) \cup Range(ro)
  <2>5. wr \in Seq(U) /\ dl \in Seq(U) /\ ro \in Seq(U)
    <3>1. \A f : f \in Seq(Range(f)) /\ Range(f) \subseteq U => f \in Seq(U)
      OBVIOUS
    <3> QED BY <2>2, <2>3, <2>4, <3>1
  <2> HIDE DEF U
  <2>6. p.steps = Joined(Joined(wr, dl), ro)
    BY <1>5 DEF Joined
  <2>7. Joined(wr, dl) \in Seq(U) /\ p.steps \in Seq(U)
    BY <2>5, <2>6, JoinedType
  <2>8. \A x : In(x, p.steps) <=> In(x, wr) \/ In(x, dl) \/ In(x, ro)
    BY <2>5, <2>6, <2>7, InJoined
  <2>9. ASSUME NEW i \in DOMAIN p.steps PROVE Sound(spc, d, c, p.steps[i])
    <3>0. DOMAIN p.steps = 1 .. Len(p.steps)
      BY <2>7
    <3>1. In(p.steps[i], p.steps)
      BY <3>0 DEF In
    <3> QED BY <2>2, <2>3, <2>4, <2>8, <3>1 DEF In
  <2>10. ASSUME Len(d) = 0, spc.unlisted = "prune", ~HasDelete(p.steps)
         PROVE  Ours(spc, c) = {} /\ p.steps = <<>>
    <3>1. dl = <<>>
      <4>1. \A x : ~In(x, dl)
        <5> SUFFICES ASSUME NEW x, In(x, dl) PROVE FALSE
          OBVIOUS
        <5>1. In(x, p.steps) /\ x.op = "delete"
          BY <2>3, <2>8 DEF In
        <5> QED BY <2>7, <2>10, <5>1 DEF In, HasDelete
      <4>2. Len(dl) = 0
        <5>1. Len(dl) \in Nat
          BY <2>3
        <5>2. ASSUME Len(dl) # 0 PROVE FALSE
          <6>1. 1 \in 1 .. Len(dl)
            BY <5>1, <5>2
          <6>2. In(dl[1], dl)
            BY <6>1 DEF In
          <6> QED BY <4>1, <6>2
        <5> QED BY <5>2
      <4> QED BY <2>3, <4>2
    <3>2. Range(mt) = {}
      BY <1>3, <2>10 DEF Range
    <3>3. wr = <<>> /\ ro = <<>>
      BY <2>2, <2>4, <2>10
    <3>4. p.steps = <<>>
      BY <2>6, <3>1, <3>3 DEF Joined
    <3> QED BY <2>3, <2>10, <3>1, <3>2, <3>4
  <2> QED BY <2>9, <2>10
<1> QED BY <1>1, <1>4, <1>5

\* GET: the reading of an orderly menu.
LEMMA ListIs ==
  ASSUME NEW m, Orderly(m), NEW spc
  PROVE  /\ List(m) \in Seq(Range(List(m)))
         /\ \A k \in 1 .. Len(List(m)) : List(m)[k].id \in Nat
         /\ Ours(spc, List(m)) =
              {id \in DOMAIN m.rows : ~\E sel \in spc.ignore : Subset(sel, m.rows[id])}
<1> DEFINE c == List(m)
           D == DOMAIN m.rows
<1> SUFFICES /\ c \in Seq(Range(c))
             /\ \A k \in 1 .. Len(c) : c[k].id \in Nat
             /\ Ours(spc, c) = {id \in D : ~\E sel \in spc.ignore : Subset(sel, m.rows[id])}
  OBVIOUS
<1>1. m.order \in Seq(D) /\ \A id \in D : id \in Nat /\ 0 < id /\ In(id, m.order)
  BY DEF Orderly
<1>2. Len(m.order) \in Nat /\ DOMAIN m.order = 1 .. Len(m.order) /\ \A i \in 1 .. Len(m.order) : m.order[i] \in D
  BY <1>1
<1>3. c = [i \in 1 .. Len(m.order) |-> [id |-> m.order[i], fields |-> m.rows[m.order[i]]]]
  BY <1>2 DEF List
<1> HIDE DEF c
<1>4. c = [i \in 1 .. Len(m.order) |-> c[i]]
  BY <1>3
<1>5. c \in Seq(Range(c)) /\ Len(c) = Len(m.order)
  BY <1>2, <1>4, RangeSeq
<1>6. DOMAIN c = 1 .. Len(m.order)
      /\ \A k \in 1 .. Len(m.order) : c[k].id = m.order[k] /\ c[k].fields = m.rows[m.order[k]]
  BY <1>3
<1>7. \A k \in 1 .. Len(c) : c[k].id \in Nat
  BY <1>1, <1>2, <1>5, <1>6
<1>8. \A k \in DOMAIN c : Ignored(spc, c[k]) <=> \E sel \in spc.ignore : Subset(sel, m.rows[m.order[k]])
  BY <1>6 DEF Ignored
<1>9. \A k \in DOMAIN c : c[k].id \in D /\ c[k].id # NoID
  BY <1>1, <1>2, <1>6 DEF NoID
<1>10. ASSUME NEW id \in D PROVE \E k \in DOMAIN c : c[k].id = id /\ m.order[k] = id
  <2>1. PICK k \in 1 .. Len(m.order) : m.order[k] = id
    BY <1>1 DEF In
  <2> QED BY <1>6, <2>1
<1> DEFINE Hidden(id) == \E sel \in spc.ignore : Subset(sel, m.rows[id])
<1> HIDE DEF Hidden
<1>11. \A k \in DOMAIN c : Ignored(spc, c[k]) <=> Hidden(c[k].id)
  BY <1>6, <1>8 DEF Hidden
<1>12. \A id : id \in Ours(spc, c) <=> \E k \in DOMAIN c : id = c[k].id /\ id # NoID /\ ~Ignored(spc, c[k])
  BY DEF Ours
<1>13. \A id : id \in Ours(spc, c) <=> id \in D /\ ~Hidden(id)
  BY <1>9, <1>10, <1>11, <1>12
<1>14. Ours(spc, c) = {id \in D : ~Hidden(id)}
  BY <1>13
<1> QED BY <1>5, <1>7, <1>14 DEF Hidden

-----------------------------------------------------------------------------
\* Rows in order: which of a menu's rows stand as they should, and what a move adds.

\* What is taken comes in the order of the sequence.
LEMMA OnlyMonotone ==
  ASSUME NEW S, NEW s \in Seq(S), Distinct(s), NEW T
  PROVE  \A j, k \in 1 .. Len(Only(s, T)), a, b \in 1 .. Len(s) :
           (j < k /\ Only(s, T)[j] = s[a] /\ Only(s, T)[k] = s[b]) => a < b
<1>f. PICK f : Builds(f, S, s, T)
  BY OnlyBuilds
<1>l. Len(s) \in Nat
  OBVIOUS
<1> DEFINE Ordered(u) == \A j, k \in 1 .. Len(u), a, b \in 1 .. Len(s) :
                           (j < k /\ u[j] = s[a] /\ u[k] = s[b]) => a < b
           Early(u, i) == \A k \in 1 .. Len(u) : \A a \in 1 .. Len(s) : u[k] = s[a] => a <= i
           P == {i \in 0 .. Len(s) : Ordered(f[i]) /\ Early(f[i], i)}
<1>1. 0 \in P
  <2>1. f[0] = <<>>
    BY <1>f DEF Builds
  <2>2. Len(f[0]) = 0
    BY <2>1
  <2> QED BY <1>l, <2>2
<1>2. ASSUME NEW i \in 1 .. Len(s), i - 1 \in P PROVE i \in P
  <2>0. f[i - 1] \in Seq(S) /\ s[i] \in S /\ i - 1 \in 0 .. Len(s) /\ i \in 0 .. Len(s)
    BY <1>f, BuildsOne
  <2>1. Ordered(f[i - 1]) /\ Early(f[i - 1], i - 1)
    BY <1>2
  <2>2. CASE s[i] \notin T
    <3>1. f[i] = f[i - 1]
      BY <1>f, <2>2, BuildsOne
    <3>2. Early(f[i], i)
      BY <2>0, <2>1, <3>1
    <3>3. Ordered(f[i])
      BY <2>1, <3>1
    <3> QED BY <2>0, <3>2, <3>3
  <2>3. CASE s[i] \in T
    <3>1. f[i] = Append(f[i - 1], s[i])
      BY <1>f, <2>3, BuildsOne
    <3>2. Len(f[i]) = Len(f[i - 1]) + 1 /\ f[i][Len(f[i])] = s[i] /\ Len(f[i - 1]) \in Nat
          /\ \A k \in 1 .. Len(f[i - 1]) : f[i][k] = f[i - 1][k]
      BY <2>0, <3>1
    <3>3. \A k \in 1 .. Len(f[i]) : k = Len(f[i]) \/ k \in 1 .. Len(f[i - 1])
      BY <3>2
    <3>4. \A a \in 1 .. Len(s) : s[i] = s[a] => a = i
      BY DEF Distinct
    <3>5. Early(f[i], i)
      <4> SUFFICES ASSUME NEW k \in 1 .. Len(f[i]), NEW a \in 1 .. Len(s), f[i][k] = s[a] PROVE a <= i
        OBVIOUS
      <4>1. CASE k = Len(f[i])
        BY <3>2, <3>4, <4>1
      <4>2. CASE k \in 1 .. Len(f[i - 1])
        <5>1. f[i - 1][k] = s[a]
          BY <3>2, <4>2
        <5>2. a <= i - 1
          BY <2>1, <4>2, <5>1
        <5> QED BY <5>2
      <4> QED BY <3>3, <4>1, <4>2
    <3>6. Ordered(f[i])
      <4> SUFFICES ASSUME NEW j \in 1 .. Len(f[i]), NEW k \in 1 .. Len(f[i]), NEW a \in 1 .. Len(s),
                          NEW b \in 1 .. Len(s), j < k, f[i][j] = s[a], f[i][k] = s[b]
                   PROVE  a < b
        OBVIOUS
      <4>1. j \in 1 .. Len(f[i - 1]) /\ f[i - 1][j] = s[a]
        BY <3>2, <3>3
      <4>2. CASE k = Len(f[i])
        <5>1. b = i
          BY <3>2, <3>4, <4>2
        <5>2. a <= i - 1
          BY <2>1, <4>1
        <5> QED BY <5>1, <5>2
      <4>3. CASE k \in 1 .. Len(f[i - 1])
        <5>1. f[i - 1][k] = s[b]
          BY <3>2, <4>3
        <5> QED BY <2>1, <4>1, <4>3, <5>1
      <4> QED BY <3>3, <4>2, <4>3
    <3> QED BY <2>0, <3>5, <3>6
  <2> QED BY <2>2, <2>3
<1> HIDE DEF P
<1>3. \A i \in 0 .. Len(s) : i \in P
  BY <1>l, <1>1, <1>2, UpTo
<1>4. Ordered(f[Len(s)])
  BY <1>l, <1>3 DEF P
<1> QED BY <1>f, <1>4 DEF Builds

-----------------------------------------------------------------------------
\* Sorting.  Rows w of a menu are sorted from the k-th on when the menu has these in
\* the order of w.

\* The end of a sequence.
LEMMA Ending ==
  ASSUME NEW S, NEW s \in Seq(S), NEW k \in 1 .. Len(s)
  PROVE  /\ SubSeq(s, k, Len(s)) \in Seq(S) /\ Len(SubSeq(s, k, Len(s))) = Len(s) - k + 1
         /\ \A i \in 1 .. Len(s) - k + 1 : SubSeq(s, k, Len(s))[i] = s[k - 1 + i]
<1>1. k \in Nat /\ Len(s) \in Nat /\ \A i \in k .. Len(s) : s[i] \in S
  OBVIOUS
<1>2. SubSeq(s, k, Len(s)) \in Seq(S)
  BY <1>1
<1>3. Len(SubSeq(s, k, Len(s))) = Len(s) - k + 1
  BY <1>1
<1>4. \A i \in 1 .. Len(s) - k + 1 : SubSeq(s, k, Len(s))[i] = s[k - 1 + i]
  BY <1>1
<1> QED BY <1>2, <1>3, <1>4

FromOn(w, k)    == {w[i] : i \in k .. Len(w)}
Sorted(m, w, k) == Only(m.order, FromOn(w, k)) = SubSeq(w, k, Len(w))

\* The last row is sorted by itself.
LEMMA LastSorted ==
  ASSUME NEW m, Orderly(m), NEW w \in Seq(DOMAIN m.rows), Len(w) > 0
  PROVE  Sorted(m, w, Len(w))
<1> DEFINE n == Len(w)
           x == w[n]
<1>1. n \in Nat /\ n \in 1 .. n /\ x \in DOMAIN m.rows
  OBVIOUS
<1>2. FromOn(w, n) = {x}
  BY <1>1 DEF FromOn
<1>3. SubSeq(w, n, n) = <<x>>
  <2> DEFINE u == SubSeq(w, n, n)
  <2>1. u \in Seq(DOMAIN m.rows) /\ Len(u) = 1 /\ u[1] = x
    <3>1. /\ u \in Seq(DOMAIN m.rows) /\ Len(u) = n - n + 1
          /\ \A i \in 1 .. n - n + 1 : u[i] = w[n - 1 + i]
      BY <1>1, Ending
    <3>2. 1 \in 1 .. n - n + 1 /\ n - n + 1 = 1 /\ n - 1 + 1 = n
      BY <1>1
    <3> HIDE DEF u, n
    <3>3. u[1] = w[n - 1 + 1]
      BY <3>1, <3>2
    <3> QED BY <3>1, <3>2, <3>3
  <2> HIDE DEF u
  <2>2. u = <<u[1]>>
    BY <2>1
  <2>3. u = <<x>>
    BY <2>1, <2>2
  <2> QED BY <2>3 DEF u
<1>4. m.order \in Seq(DOMAIN m.rows) /\ Distinct(m.order) /\ In(x, m.order)
  BY <1>1 DEF Orderly
<1> HIDE DEF x, n
<1>5. Only(m.order, {x}) = <<x>>
  BY <1>4, OnlyOne
<1> QED BY <1>2, <1>3, <1>5 DEF Sorted, n

\* A block at the end of the menu is sorted.
LEMMA BlockSorted ==
  ASSUME NEW m, Orderly(m), NEW w, Placeable(m, w, NoID)
  PROVE  Sorted(Move(m, w, NoID), w, 1)
<1> DEFINE D    == DOMAIN m.rows
           T    == Range(w)
           rest == Staying(m, w)
           v    == Move(m, w, NoID)
<1>1. m.order \in Seq(D) /\ w \in Seq(D)
  BY DEF Orderly, Placeable
<1>2. PICK n \in 0 .. Len(rest) : v.order = Around(rest, n, w)
  BY MoveCuts
<1> DEFINE p == SubSeq(rest, 1, n)
           q == SubSeq(rest, n + 1, Len(rest))
<1>3. rest \in Seq(D)
  BY <1>1, OnlyRange DEF Staying
<1>4. \A x : In(x, rest) => x \notin T
  BY <1>1, InOnly DEF Staying
<1> HIDE DEF rest, v, T
<1>5. p \in Seq(D) /\ q \in Seq(D) /\ \A x : (In(x, p) => In(x, rest)) /\ (In(x, q) => In(x, rest))
  BY <1>3, Cut
<1>6. v.order = Joined(Joined(p, w), q)
  BY <1>2 DEF Around
<1> HIDE DEF p, q
<1>7. Joined(p, w) \in Seq(D)
  BY <1>1, <1>5, JoinedType
<1>8. Only(v.order, T) = Joined(Joined(Only(p, T), Only(w, T)), Only(q, T))
  <2>1. Only(v.order, T) = Joined(Only(Joined(p, w), T), Only(q, T))
    BY <1>5, <1>6, <1>7, OnlyJoined
  <2>2. Only(Joined(p, w), T) = Joined(Only(p, T), Only(w, T))
    BY <1>1, <1>5, OnlyJoined
  <2> QED BY <2>1, <2>2
<1>9. Only(p, T) = <<>> /\ Only(q, T) = <<>>
  <2>1. \A i \in 1 .. Len(p) : p[i] \notin T
    BY <1>4, <1>5 DEF In
  <2>2. \A i \in 1 .. Len(q) : q[i] \notin T
    BY <1>4, <1>5 DEF In
  <2> QED BY <1>5, <2>1, <2>2, OnlyAll
<1>10. Only(w, T) = w
  <2>1. \A i \in 1 .. Len(w) : w[i] \in T
    BY <1>1 DEF Range, T
  <2> QED BY <1>1, <2>1, OnlyAll
<1>11. Joined(Joined(<<>>, w), <<>>) = w
  BY <1>1 DEF Joined
<1>12. FromOn(w, 1) = T /\ SubSeq(w, 1, Len(w)) = w
  BY <1>1 DEF FromOn, Range, T
<1> QED BY <1>8, <1>9, <1>10, <1>11, <1>12 DEF Sorted, v

\* A row put in front of the first sorted one is sorted with them.
LEMMA AnchorSorted ==
  ASSUME NEW m, Orderly(m), NEW w \in Seq(DOMAIN m.rows), Distinct(w), NEW k \in 2 .. Len(w), Sorted(m, w, k)
  PROVE  /\ Placeable(m, <<w[k - 1]>>, w[k])
         /\ Sorted(Move(m, <<w[k - 1]>>, w[k]), w, k - 1)
<1> DEFINE D    == DOMAIN m.rows
           x    == w[k - 1]
           y    == w[k]
           one  == <<x>>
           T    == FromOn(w, k)
           U    == FromOn(w, k - 1)
           u    == SubSeq(w, k, Len(w))
           rest == Staying(m, one)
           v    == Move(m, one, y)
<1>0. k - 1 \in 1 .. Len(w) /\ k \in 1 .. Len(w) /\ k - 1 # k /\ Len(w) \in Nat
  OBVIOUS
<1>1. m.order \in Seq(D) /\ Distinct(m.order) /\ x \in D /\ y \in D /\ x # y /\ y # NoID
  BY <1>0 DEF Orderly, Distinct, NoID
<1>2. one \in Seq(D) /\ Len(one) = 1 /\ one[1] = x /\ Placeable(m, one, y) /\ Range(one) = {x}
  <2>1. one \in Seq(D) /\ Len(one) = 1 /\ one[1] = x
    BY <1>1, OneOf
  <2>2. Range(one) = {x}
    BY <2>1 DEF Range
  <2> QED BY <1>1, <2>1, <2>2, OnePlaceable
<1>3. /\ U = T \cup {x} /\ x \notin T /\ y \in T
      /\ u \in Seq(D) /\ Len(u) = Len(w) - k + 1 /\ u[1] = y /\ \A i \in 1 .. Len(u) : u[i] = w[k - 1 + i]
  <2>1. \A i \in k - 1 .. Len(w) : i = k - 1 \/ i \in k .. Len(w)
    BY <1>0
  <2>2. \A i \in k .. Len(w) : i \in k - 1 .. Len(w) /\ i \in 1 .. Len(w) /\ i # k - 1
    BY <1>0
  <2>3. k \in k .. Len(w) /\ k - 1 \in k - 1 .. Len(w)
    BY <1>0
  <2>4. U = T \cup {x} /\ y \in T
    BY <2>1, <2>2, <2>3 DEF FromOn
  <2>5. x \notin T
    BY <1>0, <2>2 DEF FromOn, Distinct
  <2>6. u \in Seq(D) /\ Len(u) = Len(w) - k + 1 /\ \A i \in 1 .. Len(u) : u[i] = w[k - 1 + i]
    <3>1. w \in Seq(D) /\ k \in 1 .. Len(w)
      BY <1>0
    <3> HIDE DEF D
    <3>2. /\ SubSeq(w, k, Len(w)) \in Seq(D) /\ Len(SubSeq(w, k, Len(w))) = Len(w) - k + 1
          /\ \A i \in 1 .. Len(w) - k + 1 : SubSeq(w, k, Len(w))[i] = w[k - 1 + i]
      BY <3>1, Ending
    <3> QED BY <3>2
  <2>7. u[1] = y
    BY <1>0, <2>6
  <2> QED BY <2>4, <2>5, <2>6, <2>7
<1>4. Only(m.order, T) = u
  BY DEF Sorted
<1> HIDE DEF one, T, U, u, x, y
<1>5. PICK n \in 0 .. Len(rest) :
        v.order = Around(rest, n, one) /\ n < Len(rest) /\ rest[n + 1] = y
  BY <1>1, <1>2, MoveCuts
<1> DEFINE p == SubSeq(rest, 1, n)
           q == SubSeq(rest, n + 1, Len(rest))
<1>6. rest \in Seq(D) /\ Distinct(rest)
  BY <1>1, OnlyRange, DistinctOnly DEF Staying
<1>7. \A z : In(z, rest) => z # x
  BY <1>1, <1>2, InOnly DEF Staying
<1>8. Only(rest, T) = u
  <2>1. Only(rest, T) = Only(m.order, (D \ Range(one)) \cap T)
    BY <1>1, OnlyOnly DEF Staying
  <2>2. \A i \in 1 .. Len(m.order) : m.order[i] \in (D \ Range(one)) \cap T <=> m.order[i] \in T
    BY <1>1, <1>2, <1>3
  <2>3. Only(m.order, (D \ Range(one)) \cap T) = Only(m.order, T)
    BY <1>1, <2>2, OnlySame
  <2> QED BY <1>4, <2>1, <2>3
<1> HIDE DEF rest, v
<1>9. /\ p \in Seq(D) /\ q \in Seq(D) /\ Joined(p, q) = rest
      /\ \A z : (In(z, p) => In(z, rest)) /\ (In(z, q) => In(z, rest))
      /\ \A z : ~(In(z, p) /\ In(z, q))
  BY <1>6, Cut
<1>10. In(y, q)
  <2>1. Len(q) >= 1 /\ q[1] = y
    BY <1>5, <1>6
  <2>2. 1 \in 1 .. Len(q)
    BY <1>9, <2>1
  <2> QED BY <2>1, <2>2 DEF In
<1>11. v.order = Joined(Joined(p, one), q)
  BY <1>5 DEF Around
<1> HIDE DEF p, q
<1> DEFINE pT == Only(p, T)
           qT == Only(q, T)
<1>12. pT \in Seq(D) /\ qT \in Seq(D) /\ Joined(pT, qT) = u
  <2>1. pT \in Seq(D) /\ qT \in Seq(D)
    BY <1>9, OnlyRange
  <2>2. Only(Joined(p, q), T) = Joined(pT, qT)
    BY <1>9, OnlyJoined
  <2> HIDE DEF pT, qT
  <2> QED BY <1>8, <1>9, <2>1, <2>2
<1>13. \A z : In(z, pT) => In(z, p)
  BY <1>9, InOnly
<1> HIDE DEF pT, qT
<1>14. pT = <<>> /\ qT = u
  <2>1. Len(pT) = 0
    <3>1. Len(pT) \in Nat
      BY <1>12
    <3>2. ASSUME Len(pT) # 0 PROVE FALSE
      <4>1. 1 \in 1 .. Len(pT)
        BY <3>1, <3>2
      <4>2. Joined(pT, qT)[1] = pT[1]
        <5>1. \A i \in 1 .. Len(pT) : Joined(pT, qT)[i] = pT[i]
          BY <1>12, JoinedType
        <5> QED BY <4>1, <5>1
      <4>3. pT[1] = y
        BY <1>3, <1>12, <4>2
      <4>4. In(y, pT)
        BY <4>1, <4>3 DEF In
      <4> QED BY <1>9, <1>10, <1>13, <4>4
    <3> QED BY <3>2
  <2>2. pT = <<>>
    BY <1>12, <2>1
  <2>3. Joined(<<>>, qT) = qT
    BY <1>12 DEF Joined
  <2> QED BY <1>12, <2>2, <2>3
<1>15. Only(p, U) = <<>> /\ Only(q, U) = u
  <2>1. \A i \in 1 .. Len(p) : p[i] \in U <=> p[i] \in T
    BY <1>3, <1>7, <1>9 DEF In
  <2>2. \A i \in 1 .. Len(q) : q[i] \in U <=> q[i] \in T
    BY <1>3, <1>7, <1>9 DEF In
  <2>3. Only(p, U) = pT
    BY <1>9, <2>1, OnlySame DEF pT
  <2>4. Only(q, U) = qT
    BY <1>9, <2>2, OnlySame DEF qT
  <2> QED BY <1>14, <2>3, <2>4
<1>16. Only(one, U) = one
  <2>1. \A i \in 1 .. Len(one) : one[i] \in U
    BY <1>2, <1>3
  <2> QED BY <1>2, <2>1, OnlyAll
<1>17. Only(v.order, U) = Joined(Joined(<<>>, one), u)
  <2>0. Joined(p, one) \in Seq(D)
    BY <1>2, <1>9, JoinedType
  <2>1. Only(v.order, U) = Joined(Only(Joined(p, one), U), Only(q, U))
    BY <1>9, <1>11, <2>0, OnlyJoined
  <2>2. Only(Joined(p, one), U) = Joined(Only(p, U), Only(one, U))
    BY <1>2, <1>9, OnlyJoined
  <2> QED BY <1>15, <1>16, <2>1, <2>2
<1>18. Joined(<<>>, one) = one
  BY <1>2 DEF Joined
<1> DEFINE t == SubSeq(w, k - 1, Len(w))
<1>19. Joined(one, u) = t
  <2>1. t \in Seq(D) /\ Len(t) = Len(w) - k + 2 /\ \A i \in 1 .. Len(t) : t[i] = w[k - 2 + i]
    <3>1. /\ t \in Seq(D) /\ Len(t) = Len(w) - (k - 1) + 1
          /\ \A i \in 1 .. Len(w) - (k - 1) + 1 : t[i] = w[k - 1 - 1 + i]
      BY <1>0, Ending
    <3>2. Len(w) - (k - 1) + 1 = Len(w) - k + 2 /\ k - 1 - 1 = k - 2
      BY <1>0
    <3> QED BY <3>1, <3>2
  <2> HIDE DEF t
  <2>2. Len(t) = Len(one) + Len(u)
    BY <1>0, <1>2, <1>3, <2>1
  <2>3. \A i \in 1 .. Len(one) : one[i] = t[i]
    <3>1. 1 \in 1 .. Len(t)
      BY <1>0, <2>1
    <3>2. t[1] = w[k - 1]
      BY <1>0, <2>1, <3>1
    <3> QED BY <1>2, <3>2 DEF x
  <2>4. ASSUME NEW i \in 1 .. Len(u) PROVE u[i] = t[Len(one) + i]
    <3>1. u[i] = w[k - 1 + i]
      BY <1>3
    <3>2. 1 + i \in 1 .. Len(t) /\ k - 2 + (1 + i) = k - 1 + i
      BY <1>0, <1>3, <2>1
    <3>3. t[1 + i] = w[k - 1 + i]
      BY <2>1, <3>2
    <3> QED BY <1>2, <3>1, <3>3
  <2>5. one \in Seq(D) /\ u \in Seq(D) /\ t \in Seq(D)
    BY <1>2, <1>3, <2>1
  <2>6. \A i \in 1 .. Len(u) : u[i] = t[Len(one) + i]
    BY <2>4
  <2> HIDE DEF D
  <2>7. Pieces(one, u, t)
    BY <2>2, <2>3, <2>6 DEF Pieces
  <2> QED BY <2>5, <2>7, JoinedIs
<1>20. Only(v.order, U) = t
  <2> HIDE DEF t
  <2> QED BY <1>17, <1>18, <1>19
<1> QED BY <1>2, <1>20 DEF Sorted, v, U, one, x, y

-----------------------------------------------------------------------------
\* Matching row by row.

\* The rows the first desired rows have claimed.
Before(u, i) == {u[j] : j \in 1 .. i - 1}

\* Plan.Matched row by row: every desired row claims given what those before it have.
LEMMA MatchedUnfolds ==
  ASSUME NEW spc, NEW W, NEW d \in Seq(W), NEW c, DOMAIN c \in SUBSET Nat,
         \A k \in DOMAIN c : c[k].id \in Nat
  PROVE  /\ Matched(spc, d, c) \in Seq(Int) /\ Len(Matched(spc, d, c)) = Len(d)
         /\ \A i \in 1 .. Len(d) :
              Matched(spc, d, c)[i] = Claim(spc, d[i], c, Before(Matched(spc, d, c), i))
<1> DEFINE K == CHOOSE f : f = [i \in 0 .. Len(d) |->
                                  IF i = 0 THEN <<>> ELSE Claiming(spc, d[i], c, f[i - 1])]
<1>l. Len(d) \in Nat
  OBVIOUS
<1>1. K = [i \in 0 .. Len(d) |-> IF i = 0 THEN <<>> ELSE Claiming(spc, d[i], c, K[i - 1])]
  BY <1>l, ClaimsExist DEF ClaimRow
<1>2. Matched(spc, d, c) = K[Len(d)]
  BY DEF Matched
<1> HIDE DEF K
<1>3. K[0] = <<>> /\ \A i \in 1 .. Len(d) : K[i] = Claiming(spc, d[i], c, K[i - 1])
  BY <1>1, <1>l
<1> DEFINE Good(i) == /\ K[i] \in Seq(Int) /\ Len(K[i]) = i
                      /\ \A j \in 1 .. i : K[i][j] = Claim(spc, d[j], c, Before(K[i], j))
<1> DEFINE P == {i \in 0 .. Len(d) : Good(i)}
<1>4. 0 \in P
  <2>1. K[0] \in Seq(Int) /\ Len(K[0]) = 0
    BY <1>3
  <2>2. Good(0)
    BY <2>1
  <2> QED BY <1>l, <2>2
<1>5. ASSUME NEW i \in 1 .. Len(d), i - 1 \in P PROVE i \in P
  <2> DEFINE t == K[i - 1]
             u == K[i]
             x == Claim(spc, d[i], c, Range(t))
  <2>1. /\ t \in Seq(Int) /\ Len(t) = i - 1
        /\ \A j \in 1 .. i - 1 : t[j] = Claim(spc, d[j], c, Before(t, j))
    BY <1>5
  <2>2. u = Append(t, x)
    BY <1>3 DEF Claiming
  <2>3. x \in Int
    BY ClaimIs DEF NoID, Ambiguous
  <2> HIDE DEF t, u, x
  <2>4. /\ u \in Seq(Int) /\ Len(u) = i /\ u[i] = x /\ \A j \in 1 .. i - 1 : u[j] = t[j]
    BY <2>1, <2>2, <2>3
  <2>5. ASSUME NEW j \in 1 .. i PROVE Before(u, j) = Before(t, j)
    <3>1. \A l \in 1 .. j - 1 : l \in 1 .. i - 1
      OBVIOUS
    <3>2. \A l \in 1 .. j - 1 : u[l] = t[l]
      BY <2>4, <3>1
    <3> QED BY <3>2 DEF Before
  <2>6. Before(t, i) = Range(t)
    BY <2>1 DEF Before, Range
  <2>7. ASSUME NEW j \in 1 .. i PROVE u[j] = Claim(spc, d[j], c, Before(u, j))
    <3>1. CASE j = i
      <4>1. Before(u, i) = Range(t)
        BY <2>5, <2>6, <3>1
      <4> QED BY <2>4, <3>1, <4>1 DEF x
    <3>2. CASE j # i
      <4>1. j \in 1 .. i - 1
        BY <3>2
      <4>2. Before(u, j) = Before(t, j)
        BY <2>5
      <4> QED BY <2>1, <2>4, <4>1, <4>2
    <3> QED BY <3>1, <3>2
  <2>8. Good(i)
    BY <2>4, <2>7 DEF u
  <2>9. i \in 0 .. Len(d)
    BY <1>l
  <2> QED BY <2>8, <2>9
<1> HIDE DEF P
<1>6. \A i \in 0 .. Len(d) : i \in P
  BY <1>l, <1>4, <1>5, UpTo
<1>7. Good(Len(d))
  BY <1>l, <1>6 DEF P
<1> QED BY <1>2, <1>7

\* ... and nothing else does.
LEMMA MatchedUnique ==
  ASSUME NEW spc, NEW W, NEW d \in Seq(W), NEW c, DOMAIN c \in SUBSET Nat,
         \A k \in DOMAIN c : c[k].id \in Nat,
         NEW u \in Seq(Int), Len(u) = Len(d),
         \A i \in 1 .. Len(d) : u[i] = Claim(spc, d[i], c, Before(u, i))
  PROVE  Matched(spc, d, c) = u
<1> DEFINE mt == Matched(spc, d, c)
<1>1. /\ mt \in Seq(Int) /\ Len(mt) = Len(d)
      /\ \A i \in 1 .. Len(d) : mt[i] = Claim(spc, d[i], c, Before(mt, i))
  BY MatchedUnfolds
<1> HIDE DEF mt
<1> DEFINE B == {i \in 1 .. Len(d) : mt[i] # u[i]}
<1>2. ASSUME B # {} PROVE FALSE
  <2>1. B \in SUBSET Nat
    OBVIOUS
  <2>2. PICK i \in B : \A j \in B : i <= j
    BY <1>2, <2>1, Least
  <2>3. i \in 1 .. Len(d) /\ mt[i] # u[i]
    OBVIOUS
  <2>4. \A j \in 1 .. i - 1 : mt[j] = u[j]
    BY <2>2, <2>3
  <2>5. Before(mt, i) = Before(u, i)
    BY <2>4 DEF Before
  <2> QED BY <1>1, <2>3, <2>5
<1>3. \A i \in 1 .. Len(d) : mt[i] = u[i]
  BY <1>2
<1> QED BY <1>1, <1>3 DEF mt

\* Without a key, the candidates of a desired row.
Open(spc, w, c, claimed) == {k \in DOMAIN c : Fits(spc, w, c[k]) /\ c[k].id \notin claimed}

\* Without a key, a desired row claims the first of its candidates if they are alike.
LEMMA ClaimOpen ==
  ASSUME NEW spc, spc.key = NoKey, NEW w, NEW c, NEW claimed
  PROVE  Claim(spc, w, c, claimed) =
           IF Open(spc, w, c, claimed) = {} THEN NoID
           ELSE IF Indistinguishable(c, Open(spc, w, c, claimed))
                THEN c[Min(Open(spc, w, c, claimed))].id ELSE Ambiguous
<1>1. Candidates(spc, w, c, claimed) = Open(spc, w, c, claimed)
  BY DEF Candidates, Open
<1> QED BY <1>1 DEF Claim

\* Without a key, a row that is claimed is like every other that could be.
LEMMA ClaimAlike ==
  ASSUME NEW spc, spc.key = NoKey, NEW w, NEW c, DOMAIN c \in SUBSET Nat, NEW claimed,
         Claim(spc, w, c, claimed) \notin {NoID, Ambiguous}
  PROVE  \E k \in DOMAIN c :
           /\ Fits(spc, w, c[k]) /\ c[k].id \notin claimed /\ Claim(spc, w, c, claimed) = c[k].id
           /\ \A j \in DOMAIN c : (Fits(spc, w, c[j]) /\ c[j].id \notin claimed) => c[j].fields = c[k].fields
<1> DEFINE rows == Open(spc, w, c, claimed)
<1>1. rows # {} /\ Indistinguishable(c, rows) /\ Claim(spc, w, c, claimed) = c[Min(rows)].id
  BY ClaimOpen
<1>2. rows \in SUBSET Nat
  BY DEF Open
<1>3. Min(rows) \in rows
  <2> HIDE DEF rows
  <2> QED BY <1>1, <1>2, MinIn
<1> DEFINE k == Min(rows)
<1>4. k \in DOMAIN c /\ Fits(spc, w, c[k]) /\ c[k].id \notin claimed
  BY <1>3 DEF Open
<1>5. \A j \in DOMAIN c : (Fits(spc, w, c[j]) /\ c[j].id \notin claimed) => j \in rows
  BY DEF Open
<1> HIDE DEF rows
<1>6. \A j \in rows : c[j].fields = c[k].fields
  BY <1>1, <1>3 DEF Indistinguishable
<1> QED BY <1>1, <1>4, <1>5, <1>6

\* Conversely, the first of rows that are all alike is claimed.
LEMMA ClaimFirst ==
  ASSUME NEW spc, spc.key = NoKey, NEW w, NEW c, DOMAIN c \in SUBSET Nat, NEW claimed,
         NEW k \in DOMAIN c, Fits(spc, w, c[k]), c[k].id \notin claimed,
         \A j \in DOMAIN c : (Fits(spc, w, c[j]) /\ c[j].id \notin claimed)
                                => c[j].fields = c[k].fields /\ k <= j
  PROVE  Claim(spc, w, c, claimed) = c[k].id
<1> DEFINE rows == Open(spc, w, c, claimed)
<1>1. k \in rows /\ rows \in SUBSET Nat /\ \A j \in rows : c[j].fields = c[k].fields /\ k <= j
  BY DEF Open
<1>2. Claim(spc, w, c, claimed) =
        IF rows = {} THEN NoID ELSE IF Indistinguishable(c, rows) THEN c[Min(rows)].id ELSE Ambiguous
  BY ClaimOpen
<1> HIDE DEF rows
<1>3. Indistinguishable(c, rows)
  BY <1>1 DEF Indistinguishable
<1>4. Min(rows) = k
  <2>1. Min(rows) \in rows /\ Min(rows) <= k
    BY <1>1, MinIn
  <2>2. k <= Min(rows) /\ Min(rows) \in Nat /\ k \in Nat
    BY <1>1, <2>1
  <2> QED BY <2>1, <2>2
<1> QED BY <1>1, <1>2, <1>3, <1>4

-----------------------------------------------------------------------------
\* Pairing desired rows with rows of a menu, and the moves that order them.

\* A row of a menu as it is read.
RowAt(m, id) == [id |-> id, fields |-> m.rows[id]]

\* GET: the reading row by row.
LEMMA ListRows ==
  ASSUME NEW m, Orderly(m)
  PROVE  /\ DOMAIN List(m) = 1 .. Len(m.order) /\ Len(m.order) \in Nat /\ Len(List(m)) = Len(m.order)
         /\ DOMAIN List(m) \in SUBSET Nat
         /\ \A k \in 1 .. Len(m.order) :
              /\ m.order[k] \in DOMAIN m.rows /\ List(m)[k] = RowAt(m, m.order[k])
              /\ List(m)[k].id = m.order[k] /\ List(m)[k].fields = m.rows[m.order[k]]
         /\ \A k \in DOMAIN List(m) : List(m)[k].id \in Nat
         /\ \A id \in DOMAIN m.rows : \E k \in 1 .. Len(m.order) : m.order[k] = id
         /\ [k \in DOMAIN List(m) |-> List(m)[k].id] = m.order
<1> DEFINE c == List(m)
           D == DOMAIN m.rows
           n == Len(m.order)
<1>1. m.order \in Seq(D) /\ \A id \in D : id \in Nat /\ In(id, m.order)
  BY DEF Orderly
<1>2. n \in Nat /\ DOMAIN m.order = 1 .. n /\ \A i \in 1 .. n : m.order[i] \in D
  BY <1>1
<1>3. c = [i \in 1 .. n |-> RowAt(m, m.order[i])]
  BY <1>2 DEF List, RowAt
<1>4. \A x \in D : RowAt(m, x).id = x /\ RowAt(m, x).fields = m.rows[x]
  BY DEF RowAt
<1> HIDE DEF c
<1>5. DOMAIN c = 1 .. n /\ \A k \in 1 .. n : c[k] = RowAt(m, m.order[k])
  BY <1>3
<1>6. \A k \in 1 .. n : c[k].id = m.order[k] /\ c[k].fields = m.rows[m.order[k]]
  BY <1>2, <1>4, <1>5
<1>7. Len(c) = n
  <2>1. c = [i \in 1 .. n |-> c[i]]
    BY <1>3
  <2> QED BY <1>2, <2>1, RangeSeq
<1>8. [k \in DOMAIN c |-> c[k].id] = m.order
  <2>1. [k \in DOMAIN c |-> c[k].id] = [k \in 1 .. n |-> m.order[k]]
    BY <1>5, <1>6
  <2>2. m.order = [k \in 1 .. n |-> m.order[k]]
    BY <1>1
  <2> QED BY <2>1, <2>2
<1>9. \A id \in D : \E k \in 1 .. n : m.order[k] = id
  BY <1>1 DEF In
<1>10. \A k \in DOMAIN c : c[k].id \in Nat
  BY <1>1, <1>2, <1>5, <1>6
<1>11. DOMAIN c \in SUBSET Nat
  BY <1>2, <1>5
<1> QED BY <1>2, <1>5, <1>6, <1>7, <1>8, <1>9, <1>10, <1>11 DEF c

\* Rows w of a menu that the desired rows d have claimed, one each: every one fits,
\* what else could have been claimed looks the same, and a prune has left no others.
Paired(spc, d, m, w) ==
  /\ w \in Seq(DOMAIN m.rows) /\ Distinct(w) /\ Len(w) = Len(d)
  /\ \A i \in 1 .. Len(d) :
       /\ Fits(spc, d[i], RowAt(m, w[i]))
       /\ \A id \in DOMAIN m.rows :
            Fits(spc, d[i], RowAt(m, id)) => id \in Before(w, i) \/ m.rows[id] = m.rows[w[i]]
  /\ spc.unlisted = "prune" => \A id \in DOMAIN m.rows : In(id, w) \/ Ignored(spc, RowAt(m, id))

\* A reading in which every desired row finds its row.
LEMMA MatchedPaired ==
  ASSUME NEW spc, spc.key = NoKey, NEW W, NEW d \in Seq(W), NEW m, Orderly(m),
         \A i \in 1 .. Len(d) : Matched(spc, d, List(m))[i] \notin {NoID, Ambiguous},
         spc.unlisted = "prune" => Ours(spc, List(m)) \subseteq Range(Matched(spc, d, List(m)))
  PROVE  Paired(spc, d, m, Matched(spc, d, List(m)))
<1> DEFINE c  == List(m)
           D  == DOMAIN m.rows
           n  == Len(m.order)
           mt == Matched(spc, d, c)
<1>1. /\ DOMAIN c = 1 .. n /\ DOMAIN c \in SUBSET Nat /\ n \in Nat
      /\ \A k \in 1 .. n : /\ m.order[k] \in D /\ c[k] = RowAt(m, m.order[k])
                           /\ c[k].id = m.order[k] /\ c[k].fields = m.rows[m.order[k]]
      /\ \A k \in DOMAIN c : c[k].id \in Nat
      /\ \A id \in D : \E k \in 1 .. n : m.order[k] = id
  BY ListRows
<1>2. /\ mt \in Seq(Int) /\ Len(mt) = Len(d)
      /\ \A i \in 1 .. Len(d) : mt[i] = Claim(spc, d[i], c, Before(mt, i))
  <2>1. DOMAIN c \in SUBSET Nat /\ \A k \in DOMAIN c : c[k].id \in Nat
    BY <1>1
  <2> HIDE DEF c
  <2> QED BY <2>1, MatchedUnfolds
<1>3. Apart(mt)
  <2>1. DOMAIN c \in SUBSET Nat /\ \A k \in DOMAIN c : c[k].id \in Nat
    BY <1>1
  <2> HIDE DEF c
  <2> QED BY <2>1, MatchedIs
<1>4. Ours(spc, c) = {id \in D : ~\E sel \in spc.ignore : Subset(sel, m.rows[id])}
  BY ListIs
<1>5. /\ \A i \in 1 .. Len(d) : mt[i] \notin {NoID, Ambiguous}
      /\ spc.unlisted = "prune" => Ours(spc, c) \subseteq Range(mt)
  OBVIOUS
<1> HIDE DEF c, mt
<1>6. ASSUME NEW i \in 1 .. Len(d)
      PROVE  /\ mt[i] \in D /\ Fits(spc, d[i], RowAt(m, mt[i]))
             /\ \A id \in D : Fits(spc, d[i], RowAt(m, id)) => id \in Before(mt, i) \/ m.rows[id] = m.rows[mt[i]]
  <2> DEFINE B == Before(mt, i)
  <2>1. Claim(spc, d[i], c, B) \notin {NoID, Ambiguous} /\ mt[i] = Claim(spc, d[i], c, B)
    BY <1>2, <1>5
  <2> HIDE DEF B
  <2>2. PICK k \in DOMAIN c :
          /\ Fits(spc, d[i], c[k]) /\ mt[i] = c[k].id
          /\ \A j \in DOMAIN c : (Fits(spc, d[i], c[j]) /\ c[j].id \notin B) => c[j].fields = c[k].fields
    <3>1. DOMAIN c \in SUBSET Nat
      BY <1>1
    <3> DEFINE r == d[i]
    <3>2. Claim(spc, r, c, B) \notin {NoID, Ambiguous} /\ mt[i] = Claim(spc, r, c, B)
      BY <2>1
    <3> HIDE DEF r
    <3>3. \E k \in DOMAIN c :
            /\ Fits(spc, r, c[k]) /\ c[k].id \notin B /\ Claim(spc, r, c, B) = c[k].id
            /\ \A j \in DOMAIN c : (Fits(spc, r, c[j]) /\ c[j].id \notin B) => c[j].fields = c[k].fields
      BY <3>1, <3>2, ClaimAlike
    <3> QED BY <3>2, <3>3 DEF r
  <2>3. mt[i] = m.order[k] /\ mt[i] \in D /\ c[k] = RowAt(m, mt[i]) /\ c[k].fields = m.rows[mt[i]]
    BY <1>1, <2>2
  <2>4. ASSUME NEW id \in D, Fits(spc, d[i], RowAt(m, id)), id \notin B PROVE m.rows[id] = m.rows[mt[i]]
    <3>1. PICK j \in 1 .. n : m.order[j] = id
      BY <1>1
    <3>2. j \in DOMAIN c /\ c[j] = RowAt(m, id) /\ c[j].id = id /\ c[j].fields = m.rows[id]
      BY <1>1, <3>1
    <3>3. Fits(spc, d[i], c[j]) /\ c[j].id \notin B
      BY <2>4, <3>2
    <3> QED BY <2>2, <2>3, <3>2, <3>3
  <2> QED BY <2>2, <2>3, <2>4 DEF B
<1>7. mt \in Seq(D) /\ Distinct(mt)
  <2>1. \A i \in 1 .. Len(mt) : mt[i] \in D /\ mt[i] \notin {NoID, Ambiguous}
    BY <1>2, <1>5, <1>6
  <2>2. mt \in Seq(D)
    BY <1>2, <2>1, SeqIn
  <2> QED BY <1>3, <2>1, <2>2 DEF Apart, Distinct
<1>8. ASSUME spc.unlisted = "prune", NEW id \in D PROVE In(id, mt) \/ Ignored(spc, RowAt(m, id))
  <2>1. RowAt(m, id).fields = m.rows[id]
    BY DEF RowAt
  <2>2. id \in Ours(spc, c) \/ Ignored(spc, RowAt(m, id))
    BY <1>4, <2>1 DEF Ignored
  <2>3. id \in Range(mt) => In(id, mt)
    BY <1>2, InRange
  <2> QED BY <1>5, <1>8, <2>2, <2>3
<1>9. Paired(spc, d, m, mt)
  BY <1>2, <1>6, <1>7, <1>8 DEF Paired
<1> QED BY <1>9 DEF mt, c

\* What is left of ordering rows w: nothing, one block move, or the anchored moves
\* from the j-th on, with the rows after it sorted.
Anchored(w) == [i \in 1 .. Len(w) - 1 |-> MoveStep(<<w[Len(w) - i]>>, w[Len(w) - i + 1])]
Placing(m, w, stps, left) ==
  \/ left = {} /\ Sorted(m, w, 1)
  \/ stps = <<MoveStep(w, NoID)>> /\ left = {1}
  \/ /\ stps = Anchored(w)
     /\ \E j \in 1 .. Len(w) - 1 : left = j .. Len(w) - 1 /\ Sorted(m, w, Len(w) - j + 1)

\* A move changes no row.
SameRows(v, m) == v.rows = m.rows

\* The next of those moves.
LEMMA PlacingStep ==
  ASSUME NEW m, Orderly(m), NEW w \in Seq(DOMAIN m.rows), Distinct(w), NEW stps, NEW left,
         Placing(m, w, stps, left), NEW i \in left, \A j \in left : i <= j
  PROVE  Placing(Perform(m, stps[i]), w, stps, left \ {i}) /\ SameRows(Perform(m, stps[i]), m)
<1> DEFINE D == DOMAIN m.rows
           n == Len(w)
<1>0. n \in Nat
  OBVIOUS
<1>1. CASE stps = <<MoveStep(w, NoID)>> /\ left = {1}
  <2>1. stps[1] = MoveStep(w, NoID) /\ i = 1
    BY <1>1
  <2>2. Perform(m, stps[i]) = Move(m, w, NoID)
    BY <2>1 DEF Perform, MoveStep, Step
  <2>3. Placeable(m, w, NoID)
    BY DEF Placeable
  <2>4. Sorted(Move(m, w, NoID), w, 1) /\ Move(m, w, NoID).rows = m.rows
    BY <2>3, BlockSorted, OrderlyMove
  <2>5. left \ {i} = {}
    BY <1>1, <2>1
  <2> QED BY <2>2, <2>4, <2>5 DEF Placing, SameRows
<1>2. ASSUME stps = Anchored(w), NEW j \in 1 .. n - 1, left = j .. n - 1, Sorted(m, w, n - j + 1)
      PROVE  Placing(Perform(m, stps[i]), w, stps, left \ {i}) /\ SameRows(Perform(m, stps[i]), m)
  <2> DEFINE k == n - j + 1
             v == Move(m, <<w[k - 1]>>, w[k])
  <2>1. i = j /\ k \in 2 .. n /\ k - 1 = n - j /\ k \in Int
    <3>1. j \in left /\ i \in j .. n - 1
      BY <1>0, <1>2
    <3> QED BY <1>0, <3>1
  <2>2. stps[i] = MoveStep(<<w[k - 1]>>, w[k])
    BY <1>2, <2>1 DEF Anchored
  <2>3. Perform(m, stps[i]) = v
    BY <2>2 DEF Perform, MoveStep, Step
  <2> HIDE DEF k
  <2>4. Placeable(m, <<w[k - 1]>>, w[k]) /\ Sorted(v, w, k - 1)
    BY <1>2, <2>1, AnchorSorted DEF k
  <2>5. v.rows = m.rows
    BY DEF Move
  <2> HIDE DEF v
  <2>6. left \ {i} = (j + 1) .. n - 1
    BY <1>0, <1>2, <2>1
  <2>7. CASE j = n - 1
    <3>1. left \ {i} = {} /\ k - 1 = 1
      BY <1>0, <2>1, <2>6, <2>7
    <3> QED BY <2>3, <2>4, <2>5, <3>1 DEF Placing, SameRows
  <2>8. CASE j # n - 1
    <3>0. j \in 1 .. n - 1
      BY <1>2
    <3>1. j + 1 \in 1 .. n - 1 /\ k - 1 = n - (j + 1) + 1
      <4> HIDE DEF n
      <4> QED BY <1>0, <2>8, <3>0 DEF k
    <3>2. Sorted(v, w, n - (j + 1) + 1)
      BY <2>4, <3>1
    <3> QED BY <1>2, <2>3, <2>5, <2>6, <3>1, <3>2 DEF Placing, SameRows
  <2> QED BY <2>7, <2>8
<1> QED BY <1>1, <1>2 DEF Placing

-----------------------------------------------------------------------------
\* A plan with nothing to create or delete.

\* Without a key only creates are written, one for every desired row nothing matches.
LEMMA WritesUnkeyed ==
  ASSUME NEW spc, spc.key = NoKey, NEW W, NEW d \in Seq(W), NEW c, NEW mt \in Seq(Int), Len(mt) = Len(d)
  PROVE  /\ \A k \in 1 .. Len(Writes(spc, d, c, mt)) : Writes(spc, d, c, mt)[k].op = "create"
         /\ Writes(spc, d, c, mt) = <<>> <=> \A i \in 1 .. Len(d) : mt[i] # NoID
<1> DEFINE Write(i) == IF mt[i] = NoID THEN CreateStep(d[i])
                       ELSE UpdateStep(mt[i], Changes(d[i], ById(c, mt[i])))
           open     == {i \in 1 .. Len(d) : mt[i] = NoID}
           all      == [i \in DOMAIN d |-> i]
           written  == Only(all, open)
           wr       == Writes(spc, d, c, mt)
<1>1. wr = [k \in DOMAIN written |-> Write(written[k])]
  <2>1. {i \in DOMAIN d : mt[i] = NoID \/ (spc.key # NoKey /\ DOMAIN Changes(d[i], ById(c, mt[i])) # {})} = open
    OBVIOUS
  <2> HIDE DEF open
  <2> QED BY <2>1 DEF Writes
<1>2. all \in Seq(1 .. Len(d)) /\ Len(all) = Len(d) /\ \A i \in 1 .. Len(d) : all[i] = i
  OBVIOUS
<1> HIDE DEF all
<1>3. written \in Seq(1 .. Len(d)) /\ \A i : In(i, written) <=> In(i, all) /\ i \in open
  BY <1>2, OnlyRange, InOnly
<1>4. \A i : In(i, written) <=> i \in open
  BY <1>2, <1>3 DEF In
<1> HIDE DEF written, wr
<1>5. Len(written) \in Nat /\ DOMAIN written = 1 .. Len(written)
  BY <1>3
<1>6. wr = [k \in 1 .. Len(written) |-> wr[k]]
  BY <1>1, <1>5
<1>7. wr \in Seq(Range(wr)) /\ Len(wr) = Len(written)
  BY <1>5, <1>6, RangeSeq
<1>8. ASSUME NEW k \in 1 .. Len(wr) PROVE wr[k].op = "create"
  <2>1. written[k] \in open
    BY <1>4, <1>7 DEF In
  <2>2. wr[k] = Write(written[k])
    BY <1>1, <1>5, <1>7
  <2>3. wr[k] = CreateStep(d[written[k]])
    BY <2>1, <2>2
  <2> QED BY <2>3 DEF CreateStep, Step
<1>9. wr = <<>> <=> Len(written) = 0
  BY <1>7
<1>10. Len(written) = 0 <=> open = {}
  <2>1. Len(written) = 0 => \A i : ~In(i, written)
    BY DEF In
  <2>2. Len(written) # 0 => In(written[1], written)
    BY <1>5 DEF In
  <2> QED BY <1>4, <2>1, <2>2
<1> QED BY <1>8, <1>9, <1>10 DEF wr

\* Nothing is deleted when nothing is unlisted.
LEMMA DeletesNone ==
  ASSUME NEW spc, NEW R, NEW c \in Seq(R), NEW mt,
         spc.unlisted = "prune" => Ours(spc, c) \subseteq Range(mt)
  PROVE  Deletes(spc, c, mt) = <<>>
<1> DEFINE T == {row \in Range(c) : /\ spc.unlisted = "prune"
                                    /\ row.id # NoID
                                    /\ row.id \notin Range(mt)
                                    /\ ~Ignored(spc, row)}
           unlisted == Only(c, T)
<1>1. Deletes(spc, c, mt) = [i \in DOMAIN unlisted |-> DeleteStep(unlisted[i])]
  BY DEF Deletes
<1>2. ASSUME NEW i \in 1 .. Len(c), c[i] \in T PROVE FALSE
  <2>1. c[i].id \in Ours(spc, c)
    BY <1>2 DEF Ours
  <2> QED BY <1>2, <2>1
<1> HIDE DEF T
<1>3. unlisted = <<>>
  BY <1>2, OnlyAll
<1>4. DOMAIN unlisted = {}
  BY <1>3
<1> HIDE DEF unlisted
<1>5. Deletes(spc, c, mt) = [i \in {} |-> DeleteStep(unlisted[i])]
  BY <1>1, <1>4
<1> QED BY <1>5

\* Moves, when every desired row has one.
LEMMA ReorderIs ==
  ASSUME NEW spc, spc.ordered, NEW m, Orderly(m), NEW w \in Seq(DOMAIN m.rows)
  PROVE  /\ Only(m.order, Range(w)) \in Seq(DOMAIN m.rows)
         /\ Reorder(spc, List(m), w) =
              IF Len(w) < 2 \/ w = Only(m.order, Range(w)) THEN <<>>
              ELSE IF Len(Only(m.order, Range(w))) = Len(m.order) THEN <<MoveStep(w, NoID)>>
              ELSE Anchored(w)
<1> DEFINE c    == List(m)
           D    == DOMAIN m.rows
           ids  == Range(w) \ {NoID}
           goal == Only(w, ids)
           line == [k \in DOMAIN c |-> c[k].id]
           have == Only(line, ids)
           n    == Len(goal)
<1>1. Reorder(spc, c, w) =
        IF ~spc.ordered \/ n < 2 \/ goal = have THEN <<>>
        ELSE IF Len(have) = Len(c) THEN <<MoveStep(goal, NoID)>>
        ELSE [i \in 1 .. n - 1 |-> MoveStep(<<goal[n - i]>>, goal[n - i + 1])]
  BY DEF Reorder
<1>2. ids = Range(w)
  <2>1. \A x \in Range(w) : x \in D
    BY DEF Range
  <2>2. \A x \in D : x # NoID
    BY DEF Orderly, NoID
  <2> QED BY <2>1, <2>2
<1>3. line = m.order /\ Len(c) = Len(m.order)
  BY ListRows
<1> HIDE DEF c, ids, line
<1>4. goal = w
  <2>1. \A i \in 1 .. Len(w) : w[i] \in ids
    BY <1>2 DEF Range
  <2> QED BY <2>1, OnlyAll
<1>5. have = Only(m.order, Range(w))
  BY <1>2, <1>3
<1>6. have \in Seq(D)
  BY <1>5, OnlyRange DEF Orderly
<1> HIDE DEF goal, have
<1>7. Anchored(w) = [i \in 1 .. n - 1 |-> MoveStep(<<goal[n - i]>>, goal[n - i + 1])]
  BY <1>4 DEF Anchored
<1> DEFINE chain == [i \in 1 .. n - 1 |-> MoveStep(<<goal[n - i]>>, goal[n - i + 1])]
<1>8. Reorder(spc, c, w) =
        IF ~spc.ordered \/ n < 2 \/ goal = have THEN <<>>
        ELSE IF Len(have) = Len(c) THEN <<MoveStep(goal, NoID)>> ELSE chain
  BY <1>1
<1>9. chain = Anchored(w)
  BY <1>7
<1> HIDE DEF chain
<1>10. Reorder(spc, c, w) =
        IF Len(w) < 2 \/ w = have THEN <<>>
        ELSE IF Len(have) = Len(m.order) THEN <<MoveStep(w, NoID)>> ELSE Anchored(w)
  BY <1>3, <1>4, <1>8, <1>9
<1> QED BY <1>5, <1>6, <1>10 DEF c

\* So they put the rows in order, and there are none when the rows are in order.
LEMMA ReorderPlaces ==
  ASSUME NEW spc, spc.ordered, NEW m, Orderly(m), NEW w \in Seq(DOMAIN m.rows), Distinct(w)
  PROVE  /\ Placing(m, w, Reorder(spc, List(m), w), DOMAIN Reorder(spc, List(m), w))
         /\ Sorted(m, w, 1) => Reorder(spc, List(m), w) = <<>>
<1> DEFINE have == Only(m.order, Range(w))
           ro   == Reorder(spc, List(m), w)
           n    == Len(w)
<1>1. ro = IF n < 2 \/ w = have THEN <<>>
           ELSE IF Len(have) = Len(m.order) THEN <<MoveStep(w, NoID)>> ELSE Anchored(w)
  BY ReorderIs
<1> HIDE DEF ro
<1>2. FromOn(w, 1) = Range(w) /\ SubSeq(w, 1, Len(w)) = w /\ n \in Nat
  BY DEF FromOn, Range
<1>3. Sorted(m, w, 1) <=> have = w
  BY <1>2 DEF Sorted
<1>4. n < 2 => have = w
  <2>1. CASE n = 0
    <3>1. w = <<>> /\ Range(w) = {}
      BY <2>1 DEF Range
    <3>2. Only(m.order, {}) = <<>>
      <4>1. m.order \in Seq(DOMAIN m.rows) /\ \A i \in 1 .. Len(m.order) : m.order[i] \notin {}
        BY DEF Orderly
      <4> QED BY <4>1, OnlyAll
    <3> QED BY <3>1, <3>2
  <2>2. CASE n = 1
    <3>0. Len(w) > 0
      BY <2>2
    <3>1. Sorted(m, w, n)
      BY <3>0, LastSorted
    <3>2. Sorted(m, w, 1)
      <4> HIDE DEF have
      <4> QED BY <2>2, <3>1
    <3> QED BY <1>3, <3>2
  <2> QED BY <1>2, <2>1, <2>2
<1> HIDE DEF have
<1>5. CASE have = w
  <2>1. ro = <<>>
    BY <1>1, <1>5
  <2>2. DOMAIN ro = {}
    BY <2>1
  <2> QED BY <1>3, <1>5, <2>1, <2>2 DEF Placing, ro
<1>6. CASE have # w /\ Len(have) = Len(m.order)
  <2>1. ro = <<MoveStep(w, NoID)>>
    BY <1>1, <1>4, <1>6
  <2>2. DOMAIN ro = {1}
    BY <2>1
  <2> QED BY <1>3, <1>6, <2>1, <2>2 DEF Placing, ro
<1>7. CASE have # w /\ Len(have) # Len(m.order)
  <2>1. ro = Anchored(w) /\ n >= 2
    BY <1>1, <1>2, <1>4, <1>7
  <2>2. DOMAIN ro = 1 .. n - 1
    BY <2>1 DEF Anchored
  <2>3. Sorted(m, w, n)
    BY <2>1, LastSorted
  <2>4. 1 \in 1 .. n - 1 /\ n - 1 + 1 = n
    BY <1>2, <2>1
  <2>5. Sorted(m, w, n - 1 + 1)
    BY <2>3, <2>4
  <2> QED BY <1>3, <1>7, <2>1, <2>2, <2>4, <2>5 DEF Placing, ro
<1> QED BY <1>5, <1>6, <1>7

\* The steps of a plan that is not refused.
AllSteps(spc, d, c, mt) == Joined(Joined(Writes(spc, d, c, mt), Deletes(spc, c, mt)), Reorder(spc, c, mt))

\* When a plan is not refused.
LEMMA PlanIs ==
  ASSUME NEW spc, NEW d, NEW c
  PROVE  /\ Plan(spc, d, c).err = "none" <=>
              /\ spc.unlisted \in {"tolerate", "prune"} /\ EmptyRecord \notin spc.ignore
              /\ Ambiguous \notin Range(Matched(spc, d, c))
         /\ Plan(spc, d, c).err = "none" =>
              Plan(spc, d, c).steps = AllSteps(spc, d, c, Matched(spc, d, c))
<1> DEFINE mt  == Matched(spc, d, c)
           all == AllSteps(spc, d, c, mt)
           p   == Plan(spc, d, c)
           ok  == spc.unlisted \in {"tolerate", "prune"} /\ EmptyRecord \notin spc.ignore
<1>1. Steps(spc, d, c, mt) = IF Ambiguous \in Range(mt) THEN Refuse("AmbiguousError")
                             ELSE [err |-> "none", matched |-> mt, steps |-> all]
  BY DEF Steps, AllSteps, Joined
<1>2. \A why : Refuse(why).err = why
  BY DEF Refuse
<1>3. CASE spc.unlisted \notin {"tolerate", "prune"}
  BY <1>2, <1>3 DEF Plan
<1>4. CASE spc.unlisted \in {"tolerate", "prune"} /\ EmptyRecord \in spc.ignore
  BY <1>2, <1>4 DEF Plan
<1>5. CASE ok
  <2>1. p = Steps(spc, d, c, mt)
    BY <1>5 DEF Plan
  <2> HIDE DEF p, mt, all
  <2>2. CASE Ambiguous \in Range(mt)
    <3>1. p = Refuse("AmbiguousError")
      BY <1>1, <2>1, <2>2
    <3> QED BY <1>2, <2>2, <3>1 DEF p, mt
  <2>3. CASE Ambiguous \notin Range(mt)
    <3>1. p = [err |-> "none", matched |-> mt, steps |-> all]
      BY <1>1, <2>1, <2>3
    <3>2. p.err = "none" /\ p.steps = all
      BY <3>1
    <3> QED BY <1>5, <2>3, <3>2 DEF p, mt, all
  <2> QED BY <2>2, <2>3
<1> QED BY <1>3, <1>4, <1>5

\* A plan of moves alone pairs every desired row with its own, and orders them.
LEMMA PlanMoves ==
  ASSUME NEW spc, spc.ordered, spc.key = NoKey, NEW W, NEW d \in Seq(W), NEW m, Orderly(m),
         Plan(spc, d, List(m)).err = "none",
         \A i \in DOMAIN Plan(spc, d, List(m)).steps :
           Plan(spc, d, List(m)).steps[i].op \notin {"create", "delete"}
  PROVE  /\ spc.unlisted \in {"tolerate", "prune"} /\ EmptyRecord \notin spc.ignore
         /\ \E w : /\ Paired(spc, d, m, w)
                   /\ Placing(m, w, Plan(spc, d, List(m)).steps, DOMAIN Plan(spc, d, List(m)).steps)
<1> DEFINE c  == List(m)
           mt == Matched(spc, d, c)
           wr == Writes(spc, d, c, mt)
           dl == Deletes(spc, c, mt)
           ro == Reorder(spc, c, mt)
           p  == Plan(spc, d, c)
<1>1. /\ spc.unlisted \in {"tolerate", "prune"} /\ EmptyRecord \notin spc.ignore
      /\ Ambiguous \notin Range(mt) /\ p.steps = Joined(Joined(wr, dl), ro)
  BY PlanIs DEF AllSteps
<1>2. c \in Seq(Range(c)) /\ DOMAIN c \in SUBSET Nat /\ \A k \in DOMAIN c : c[k].id \in Nat
  BY ListIs, ListRows
<1>p. \A i \in DOMAIN p.steps : p.steps[i].op \notin {"create", "delete"}
  OBVIOUS
<1> HIDE DEF c, p
<1>3. /\ mt \in Seq(Int) /\ Len(mt) = Len(d) /\ Apart(mt)
      /\ \A i \in 1 .. Len(d) : Suits(spc, d[i], c, mt[i])
  BY <1>2, MatchedIs
<1> HIDE DEF mt
<1>4. \A i \in 1 .. Len(d) : Suits(spc, d[i], c, mt[i]) /\ mt[i] # Ambiguous
  BY <1>1, <1>3 DEF Range
<1>5. /\ wr \in Seq(Range(wr)) /\ \A k \in 1 .. Len(wr) : wr[k].op = "create"
      /\ wr = <<>> <=> \A i \in 1 .. Len(d) : mt[i] # NoID
  <2>1. wr \in Seq(Range(wr))
    BY <1>3, <1>4, WritesSound
  <2>2. mt \in Seq(Int) /\ Len(mt) = Len(d)
    BY <1>3
  <2> QED BY <2>1, <2>2, WritesUnkeyed
<1>6. /\ dl \in Seq(Range(dl)) /\ \A k \in 1 .. Len(dl) : dl[k].op = "delete"
      /\ (dl = <<>> /\ spc.unlisted = "prune") => Ours(spc, c) \subseteq Range(mt)
  <2>1. c \in Seq(Range(c))
    BY <1>2
  <2>2. /\ Deletes(spc, c, mt) \in Seq(Range(Deletes(spc, c, mt)))
        /\ \A k \in 1 .. Len(Deletes(spc, c, mt)) : Deletes(spc, c, mt)[k].op = "delete"
    BY ONLY <2>1, DeletesSound
  <2>3. (Deletes(spc, c, mt) = <<>> /\ spc.unlisted = "prune") => Ours(spc, c) \subseteq Range(mt)
    BY ONLY <2>1, DeletesSound
  <2> QED BY <2>2, <2>3
<1>7. ro \in Seq(Range(ro))
  BY <1>3, <1>4, ReorderSound
<1> DEFINE U == Range(wr) \cup Range(dl) \cup Range(ro)
<1> HIDE DEF wr, dl, ro
<1>8. wr \in Seq(U) /\ dl \in Seq(U) /\ ro \in Seq(U)
  <2>1. \A f : f \in Seq(Range(f)) /\ Range(f) \subseteq U => f \in Seq(U)
    OBVIOUS
  <2> QED BY <1>5, <1>6, <1>7, <2>1
<1> HIDE DEF U
<1>9. Joined(wr, dl) \in Seq(U) /\ p.steps \in Seq(U)
  BY <1>1, <1>8, JoinedType
<1>10. \A x : In(x, wr) \/ In(x, dl) => In(x, p.steps)
  BY <1>1, <1>8, <1>9, InJoined
<1>11. \A x : In(x, p.steps) => x.op \notin {"create", "delete"}
  BY <1>p, <1>9 DEF In
<1>12. Len(wr) = 0 /\ Len(dl) = 0
  <2>1. Len(wr) \in Nat /\ Len(dl) \in Nat
    BY <1>8
  <2>2. Len(wr) # 0 => In(wr[1], wr) /\ wr[1].op = "create"
    BY <1>5, <2>1 DEF In
  <2>3. Len(dl) # 0 => In(dl[1], dl) /\ dl[1].op = "delete"
    BY <1>6, <2>1 DEF In
  <2> QED BY <1>10, <1>11, <2>2, <2>3
<1>13. wr = <<>> /\ dl = <<>>
  BY <1>8, <1>12
<1>14. p.steps = ro
  <2>1. Joined(<<>>, <<>>) = <<>> /\ Joined(<<>>, ro) = ro
    BY <1>8 DEF Joined
  <2> QED BY <1>1, <1>13, <2>1
<1>15. /\ \A i \in 1 .. Len(d) : mt[i] \notin {NoID, Ambiguous}
       /\ spc.unlisted = "prune" => Ours(spc, c) \subseteq Range(mt)
  BY <1>4, <1>5, <1>6, <1>13
<1>16. Paired(spc, d, m, mt)
  BY <1>15, MatchedPaired DEF c, mt
<1>17. Placing(m, mt, ro, DOMAIN ro)
  <2>1. mt \in Seq(DOMAIN m.rows) /\ Distinct(mt)
    BY <1>16 DEF Paired
  <2> QED BY <2>1, ReorderPlaces DEF c, ro
<1> QED BY <1>1, <1>14, <1>16, <1>17 DEF p, c

\* Rows that are paired and in order leave nothing to do, if no other row could be one
\* of them: every desired row claims the row it has again.
LEMMA PlanEmpty ==
  ASSUME NEW spc, spc.ordered, spc.key = NoKey, NEW W, NEW d \in Seq(W), NEW m, Orderly(m),
         spc.unlisted \in {"tolerate", "prune"}, EmptyRecord \notin spc.ignore,
         NEW w, Paired(spc, d, m, w), Sorted(m, w, 1),
         \A i \in 1 .. Len(d) : \A id \in DOMAIN m.rows : Fits(spc, d[i], RowAt(m, id)) => In(id, w)
  PROVE  Plan(spc, d, List(m)).err = "none" /\ Plan(spc, d, List(m)).steps = <<>>
<1> DEFINE c == List(m)
           D == DOMAIN m.rows
           n == Len(m.order)
<1>1. /\ DOMAIN c = 1 .. n /\ DOMAIN c \in SUBSET Nat /\ n \in Nat
      /\ \A k \in 1 .. n : /\ m.order[k] \in D /\ c[k] = RowAt(m, m.order[k])
                           /\ c[k].id = m.order[k] /\ c[k].fields = m.rows[m.order[k]]
      /\ \A k \in DOMAIN c : c[k].id \in Nat
      /\ \A id \in D : \E k \in 1 .. n : m.order[k] = id
  BY ListRows
<1>2. /\ w \in Seq(D) /\ Distinct(w) /\ Len(w) = Len(d) /\ Len(w) \in Nat
      /\ \A i \in 1 .. Len(d) :
           /\ Fits(spc, d[i], RowAt(m, w[i]))
           /\ \A id \in D : Fits(spc, d[i], RowAt(m, id)) => id \in Before(w, i) \/ m.rows[id] = m.rows[w[i]]
      /\ spc.unlisted = "prune" => \A id \in D : In(id, w) \/ Ignored(spc, RowAt(m, id))
  BY DEF Paired
<1>3. Only(m.order, Range(w)) = w
  <2>1. FromOn(w, 1) = Range(w) /\ SubSeq(w, 1, Len(w)) = w
    BY <1>2 DEF FromOn, Range
  <2> QED BY <2>1 DEF Sorted
<1>4. \A j, k \in 1 .. Len(w), a, b \in 1 .. n : (j < k /\ w[j] = m.order[a] /\ w[k] = m.order[b]) => a < b
  <2>1. m.order \in Seq(D) /\ Distinct(m.order)
    BY DEF Orderly
  <2>2. \A j, k \in 1 .. Len(Only(m.order, Range(w))), a, b \in 1 .. Len(m.order) :
           (j < k /\ Only(m.order, Range(w))[j] = m.order[a] /\ Only(m.order, Range(w))[k] = m.order[b]) => a < b
    BY <2>1, OnlyMonotone
  <2> QED BY <1>3, <2>2
<1>5. Ours(spc, c) = {id \in D : ~\E sel \in spc.ignore : Subset(sel, m.rows[id])} /\ c \in Seq(Range(c))
  BY ListIs
<1> HIDE DEF c, n
<1>6. ASSUME NEW i \in 1 .. Len(d) PROVE w[i] = Claim(spc, d[i], c, Before(w, i))
  <2> DEFINE B == Before(w, i)
             r == d[i]
  <2>0. i \in 1 .. Len(w) /\ w[i] \in D /\ Fits(spc, r, RowAt(m, w[i]))
    BY <1>2
  <2>1. PICK k \in 1 .. n : m.order[k] = w[i]
    BY <1>1, <2>0
  <2>2. k \in DOMAIN c /\ Fits(spc, r, c[k]) /\ c[k].id = w[i] /\ c[k].fields = m.rows[w[i]]
    <3>1. k \in DOMAIN c /\ c[k] = RowAt(m, w[i]) /\ c[k].id = w[i] /\ c[k].fields = m.rows[w[i]]
      BY <1>1, <2>1
    <3> QED BY <2>0, <3>1
  <2>3. w[i] \notin B
    BY <1>2 DEF Before, Distinct
  <2>4. ASSUME NEW j \in DOMAIN c, Fits(spc, r, c[j]), c[j].id \notin B
        PROVE  c[j].fields = c[k].fields /\ k <= j
    <3> DEFINE id == m.order[j]
    <3>1. j \in 1 .. n /\ id \in D /\ c[j] = RowAt(m, id) /\ c[j].id = id /\ c[j].fields = m.rows[id]
      BY <1>1
    <3>2. id \notin B /\ Fits(spc, d[i], RowAt(m, id))
      BY <2>4, <3>1
    <3> HIDE DEF id, B, r
    <3>3. m.rows[id] = m.rows[w[i]]
      BY <1>2, <3>1, <3>2 DEF B
    <3>4. PICK l \in 1 .. Len(w) : w[l] = id
      BY <3>1, <3>2 DEF In
    <3>5. ~(l < i)
      BY <1>2, <3>2, <3>4 DEF B, Before
    <3>6. CASE l = i
      <4>1. m.order[j] = m.order[k]
        BY <2>1, <3>4, <3>6 DEF id
      <4>2. j = k
        BY <3>1, <4>1 DEF Orderly, Distinct, n
      <4> QED BY <2>2, <3>1, <3>3, <4>2
    <3>7. CASE i < l
      <4>1. k < j
        BY <1>2, <1>4, <2>1, <3>1, <3>4, <3>7 DEF id
      <4> QED BY <1>1, <2>2, <3>1, <3>3, <4>1
    <3> QED BY <1>2, <3>5, <3>6, <3>7
  <2> HIDE DEF B, r
  <2>5. Claim(spc, r, c, B) = c[k].id
    <3>1. /\ DOMAIN c \in SUBSET Nat /\ k \in DOMAIN c /\ Fits(spc, r, c[k]) /\ c[k].id \notin B
          /\ \A j \in DOMAIN c : (Fits(spc, r, c[j]) /\ c[j].id \notin B)
                                    => c[j].fields = c[k].fields /\ k <= j
      BY <1>1, <2>2, <2>3, <2>4
    <3> QED BY <3>1, ClaimFirst
  <2> QED BY <2>2, <2>5 DEF B, r
<1>7. w \in Seq(Int) /\ \A i \in 1 .. Len(w) : w[i] \in Nat /\ w[i] # NoID /\ w[i] # Ambiguous
  <2>1. \A id \in D : id \in Nat /\ id # NoID /\ id # Ambiguous /\ id \in Int
    BY DEF Orderly, NoID, Ambiguous
  <2>2. \A i \in 1 .. Len(w) : w[i] \in D
    BY <1>2
  <2>3. w \in Seq(Int)
    BY <1>2, <2>1, <2>2, SeqIn
  <2> QED BY <2>1, <2>2, <2>3
<1>8. Matched(spc, d, c) = w
  <2>1. /\ DOMAIN c \in SUBSET Nat /\ \A k \in DOMAIN c : c[k].id \in Nat
        /\ w \in Seq(Int) /\ Len(w) = Len(d)
        /\ \A i \in 1 .. Len(d) : w[i] = Claim(spc, d[i], c, Before(w, i))
    BY <1>1, <1>2, <1>6, <1>7
  <2> QED BY <2>1, MatchedUnique
<1>9. Ambiguous \notin Range(w)
  BY <1>2, <1>7 DEF Range
<1>10. Plan(spc, d, c).err = "none" /\ Plan(spc, d, c).steps = AllSteps(spc, d, c, w)
  BY <1>8, <1>9, PlanIs
<1>11. Writes(spc, d, c, w) = <<>>
  BY <1>2, <1>7, WritesUnkeyed
<1>12. Deletes(spc, c, w) = <<>>
  <2>1. ASSUME spc.unlisted = "prune", NEW id \in Ours(spc, c) PROVE id \in Range(w)
    <3>1. id \in D /\ ~\E sel \in spc.ignore : Subset(sel, m.rows[id])
      BY <1>5
    <3>2. RowAt(m, id).fields = m.rows[id]
      BY DEF RowAt
    <3>3. ~Ignored(spc, RowAt(m, id))
      BY <3>1, <3>2 DEF Ignored
    <3>4. In(id, w)
      BY <1>2, <2>1, <3>1, <3>3
    <3> QED BY <1>2, <3>4, InRange
  <2> QED BY <1>5, <2>1, DeletesNone
<1>13. Reorder(spc, c, w) = <<>>
  BY <1>2, ReorderPlaces DEF c
<1>14. AllSteps(spc, d, c, w) = <<>>
  <2>1. Joined(<<>>, <<>>) = <<>>
    BY DEF Joined
  <2> QED BY <1>11, <1>12, <1>13, <2>1 DEF AllSteps
<1> QED BY <1>10, <1>14 DEF c

\* When no more rows fit than are asked for, those that are paired off are all that fit.
LEMMA FewEnough ==
  ASSUME NEW spc, NEW W, NEW d \in Seq(W), NEW m, Orderly(m),
         NEW w \in Seq(DOMAIN m.rows), Distinct(w), Len(w) = Len(d),
         \A i \in 1 .. Len(d) : Fits(spc, d[i], RowAt(m, w[i])),
         Cardinality({k \in DOMAIN List(m) : \E i \in DOMAIN d : Fits(spc, d[i], List(m)[k])}) <= Len(d)
  PROVE  \A i \in 1 .. Len(d) : \A id \in DOMAIN m.rows : Fits(spc, d[i], RowAt(m, id)) => In(id, w)
<1> DEFINE c == List(m)
           D == DOMAIN m.rows
           n == Len(m.order)
           X == {k \in DOMAIN c : \E i \in DOMAIN d : Fits(spc, d[i], c[k])}
           N == 1 .. Len(d)
<1>1. /\ DOMAIN c = 1 .. n /\ n \in Nat
      /\ \A k \in 1 .. n : m.order[k] \in D /\ c[k] = RowAt(m, m.order[k])
      /\ \A id \in D : \E k \in 1 .. n : m.order[k] = id
  BY ListRows
<1>2. /\ w \in Seq(D) /\ Distinct(w) /\ Len(w) = Len(d)
      /\ \A i \in N : Fits(spc, d[i], RowAt(m, w[i]))
  OBVIOUS
<1>3. Cardinality(X) <= Len(d)
  OBVIOUS
<1> HIDE DEF c, n
<1>4. IsFiniteSet(X)
  <2>1. IsFiniteSet(1 .. n)
    BY <1>1, FS_Interval
  <2>2. X \in SUBSET (1 .. n)
    BY <1>1
  <2> QED BY <2>1, <2>2, FS_Subset
<1> DEFINE f == [i \in N |-> CHOOSE k \in 1 .. n : m.order[k] = w[i]]
<1>5. ASSUME NEW i \in N PROVE f[i] \in 1 .. n /\ m.order[f[i]] = w[i]
  <2>1. w[i] \in D
    BY <1>2
  <2>2. \E k \in 1 .. n : m.order[k] = w[i]
    BY <1>1, <2>1
  <2> QED BY <2>2
<1>6. f = [i \in N |-> f[i]]
  OBVIOUS
<1> HIDE DEF f
<1>7. ASSUME NEW i \in N PROVE f[i] \in X
  <2>1. f[i] \in DOMAIN c /\ c[f[i]] = RowAt(m, w[i]) /\ i \in DOMAIN d
    <3>1. PICK k \in 1 .. n : k = f[i] /\ m.order[k] = w[i]
      BY <1>5
    <3>2. k \in DOMAIN c /\ c[k] = RowAt(m, m.order[k])
      BY <1>1
    <3>3. i \in DOMAIN d
      OBVIOUS
    <3> QED BY <3>1, <3>2, <3>3
  <2>2. Fits(spc, d[i], RowAt(m, w[i]))
    BY <1>2
  <2>3. Fits(spc, d[i], c[f[i]])
    BY <2>1, <2>2
  <2> QED BY <2>1, <2>3
<1>8. f \in Injection(N, X)
  <2>1. f \in [N -> X]
    BY <1>6, <1>7
  <2>2. \A i, j \in N : f[i] = f[j] => i = j
    <3> SUFFICES ASSUME NEW i \in N, NEW j \in N, f[i] = f[j] PROVE i = j
      OBVIOUS
    <3>1. w[i] = w[j]
      BY <1>5
    <3> QED BY <1>2, <3>1 DEF Distinct
  <2> QED BY <2>1, <2>2 DEF Injection, IsInjective
<1>9. Cardinality(N) = Len(d)
  <2> DEFINE l == Len(d)
  <2>1. l \in Nat /\ 1 \in Int /\ l \in Int
    OBVIOUS
  <2> HIDE DEF l
  <2>2. Cardinality(1 .. l) = IF 1 > l THEN 0 ELSE l - 1 + 1
    BY <2>1, FS_Interval
  <2>3. Cardinality(1 .. l) = l
    BY <2>1, <2>2
  <2> QED BY <2>3 DEF l
<1> HIDE DEF X, N
<1>10. f \in Surjection(N, X)
  <2>1. Cardinality(N) <= Cardinality(X) /\ (Cardinality(N) = Cardinality(X) <=> f \in Surjection(N, X))
    BY <1>4, <1>8, FS_Injection
  <2>2. Cardinality(X) \in Nat /\ Len(d) \in Nat
    BY <1>4, FS_CardinalityType
  <2> QED BY <1>3, <1>9, <2>1, <2>2
<1>11. ASSUME NEW i \in 1 .. Len(d), NEW id \in D, Fits(spc, d[i], RowAt(m, id)) PROVE In(id, w)
  <2>1. PICK k \in 1 .. n : m.order[k] = id
    BY <1>1
  <2>2. k \in X
    <3>1. k \in DOMAIN c /\ c[k] = RowAt(m, m.order[k])
      BY <1>1
    <3>2. i \in DOMAIN d
      OBVIOUS
    <3>3. Fits(spc, d[i], c[k])
      BY <1>11, <2>1, <3>1
    <3> QED BY <3>1, <3>2, <3>3 DEF X
  <2>3. PICK j \in N : f[j] = k
    BY <1>10, <2>2 DEF Surjection
  <2>4. w[j] = id
    BY <1>5, <2>1, <2>3
  <2> QED BY <1>2, <2>4 DEF In, N
<1> QED BY <1>11

-----------------------------------------------------------------------------
\* The steps of a plan, one by one.

\* Three sequences in a row.
InThree(s, a, b, e) ==
  /\ Len(s) = Len(a) + Len(b) + Len(e)
  /\ \A k \in 1 .. Len(a) : k \in DOMAIN s /\ s[k] = a[k]
  /\ \A k \in 1 .. Len(b) : Len(a) + k \in DOMAIN s /\ s[Len(a) + k] = b[k]
  /\ \A k \in DOMAIN s : \/ k \in 1 .. Len(a) /\ s[k] = a[k]
                         \/ \E l \in 1 .. Len(b) : k = Len(a) + l /\ s[k] = b[l]
                         \/ \E l \in 1 .. Len(e) : k = Len(a) + Len(b) + l /\ s[k] = e[l]

\* Where the elements of the whole come from.
LEMMA ThreeJoined ==
  ASSUME NEW S, NEW a \in Seq(S), NEW b \in Seq(S), NEW e \in Seq(S), NEW s, s = Joined(Joined(a, b), e)
  PROVE  s \in Seq(S) /\ InThree(s, a, b, e)
<1> DEFINE ab == Joined(a, b)
<1>1. /\ ab \in Seq(S) /\ Len(ab) = Len(a) + Len(b)
      /\ \A i \in 1 .. Len(a) : ab[i] = a[i]
      /\ \A i \in 1 .. Len(b) : ab[Len(a) + i] = b[i]
  <2>1. ab \in Seq(S) /\ Len(ab) = Len(a) + Len(b)
    BY JoinedType
  <2>2. \A i \in 1 .. Len(a) : ab[i] = a[i]
    BY JoinedType
  <2>3. \A i \in 1 .. Len(b) : ab[Len(a) + i] = b[i]
    BY JoinedType
  <2> QED BY <2>1, <2>2, <2>3
<1> HIDE DEF ab
<1>2. s = Joined(ab, e)
  BY DEF ab
<1>3. /\ s \in Seq(S) /\ Len(s) = Len(ab) + Len(e)
      /\ \A i \in 1 .. Len(ab) : s[i] = ab[i]
      /\ \A i \in 1 .. Len(e) : s[Len(ab) + i] = e[i]
  <2>0. ab \in Seq(S)
    BY <1>1
  <2>1. s \in Seq(S) /\ Len(s) = Len(ab) + Len(e)
    BY <1>2, <2>0, JoinedType
  <2>2. \A i \in 1 .. Len(ab) : Joined(ab, e)[i] = ab[i]
    BY <2>0, JoinedType
  <2>3. \A i \in 1 .. Len(e) : Joined(ab, e)[Len(ab) + i] = e[i]
    BY <2>0, JoinedType
  <2> QED BY <1>2, <2>1, <2>2, <2>3
<1>4. Len(a) \in Nat /\ Len(b) \in Nat /\ Len(e) \in Nat /\ DOMAIN s = 1 .. Len(s)
  BY <1>3
<1> DEFINE la == Len(a)
           lb == Len(b)
           le == Len(e)
<1>5. ASSUME NEW k \in 1 .. la PROVE k \in DOMAIN s /\ s[k] = a[k]
  BY <1>1, <1>3, <1>4
<1>6. ASSUME NEW k \in 1 .. lb PROVE la + k \in DOMAIN s /\ s[la + k] = b[k]
  <2>1. la + k \in 1 .. Len(ab) /\ la + k \in DOMAIN s
    BY <1>1, <1>3, <1>4
  <2> QED BY <1>1, <1>3, <2>1
<1>7. ASSUME NEW k \in DOMAIN s
      PROVE  \/ k \in 1 .. la /\ s[k] = a[k]
             \/ \E l \in 1 .. lb : k = la + l /\ s[k] = b[l]
             \/ \E l \in 1 .. le : k = la + lb + l /\ s[k] = e[l]
  <2>1. k \in 1 .. la \/ k - la \in 1 .. lb \/ k - la - lb \in 1 .. le
    BY <1>1, <1>3, <1>4
  <2>2. CASE k \in 1 .. la
    BY <1>5, <2>2
  <2>3. CASE k - la \in 1 .. lb
    <3>1. la + (k - la) = k
      BY <1>4
    <3>2. s[k] = b[k - la]
      BY <1>6, <2>3, <3>1
    <3> QED BY <2>3, <3>1, <3>2
  <2>4. CASE k - la - lb \in 1 .. le
    <3>1. la + lb + (k - la - lb) = k
      BY <1>4
    <3>2. s[k] = e[k - la - lb]
      BY <1>1, <1>3, <2>4, <3>1
    <3> QED BY <2>4, <3>1, <3>2
  <2> QED BY <2>1, <2>2, <2>3, <2>4
<1>8. Len(s) = la + lb + le
  BY <1>1, <1>3
<1> QED BY <1>3, <1>5, <1>6, <1>7, <1>8 DEF InThree

\* The fields a matched row lacks, and whether a plan writes for a desired row.
Lacks(d, c, mt, i)     == Changes(d[i], ById(c, mt[i]))
Writing(spc, d, c, mt, i) == mt[i] = NoID \/ (spc.key # NoKey /\ DOMAIN Lacks(d, c, mt, i) # {})

\* Creates and updates: one for every desired row that needs it, each its own.
LEMMA WritesAre ==
  ASSUME NEW spc, NEW W, NEW d \in Seq(W), NEW c, NEW mt \in Seq(Int), Len(mt) = Len(d)
  PROVE  /\ Writes(spc, d, c, mt) \in Seq(Range(Writes(spc, d, c, mt)))
         /\ \E of \in Seq(1 .. Len(d)) :
              /\ Distinct(of) /\ Len(of) = Len(Writes(spc, d, c, mt))
              /\ \A k \in 1 .. Len(of) :
                   /\ Writing(spc, d, c, mt, of[k])
                   /\ Writes(spc, d, c, mt)[k] =
                        IF mt[of[k]] = NoID THEN CreateStep(d[of[k]])
                        ELSE UpdateStep(mt[of[k]], Lacks(d, c, mt, of[k]))
              /\ \A i \in 1 .. Len(d) : Writing(spc, d, c, mt, i) => In(i, of)
<1> DEFINE Write(i) == IF mt[i] = NoID THEN CreateStep(d[i]) ELSE UpdateStep(mt[i], Lacks(d, c, mt, i))
           open     == {i \in 1 .. Len(d) : Writing(spc, d, c, mt, i)}
           all      == [i \in DOMAIN d |-> i]
           of       == Only(all, open)
           wr       == Writes(spc, d, c, mt)
<1>1. wr = [k \in DOMAIN of |-> Write(of[k])]
  <2>1. {i \in DOMAIN d : mt[i] = NoID \/ (spc.key # NoKey /\ DOMAIN Changes(d[i], ById(c, mt[i])) # {})} = open
    BY DEF Writing, Lacks
  <2> HIDE DEF open
  <2> QED BY <2>1 DEF Writes, Lacks
<1>2. all \in Seq(1 .. Len(d)) /\ Len(all) = Len(d) /\ \A i \in 1 .. Len(d) : all[i] = i
  OBVIOUS
<1> HIDE DEF all
<1>3. of \in Seq(1 .. Len(d)) /\ \A i : In(i, of) <=> In(i, all) /\ i \in open
  BY <1>2, OnlyRange, InOnly
<1>4. Distinct(of)
  <2>1. Distinct(all)
    BY <1>2 DEF Distinct
  <2> QED BY <1>2, <2>1, DistinctOnly
<1>5. \A i : In(i, of) <=> i \in open
  BY <1>2, <1>3 DEF In
<1> HIDE DEF of, wr, Write
<1>6. Len(of) \in Nat /\ DOMAIN of = 1 .. Len(of)
  BY <1>3
<1>7. wr = [k \in 1 .. Len(of) |-> wr[k]]
  BY <1>1, <1>6
<1>8. wr \in Seq(Range(wr)) /\ Len(wr) = Len(of)
  BY <1>6, <1>7, RangeSeq
<1>9. ASSUME NEW k \in 1 .. Len(of) PROVE Writing(spc, d, c, mt, of[k]) /\ wr[k] = Write(of[k])
  <2>1. of[k] \in open
    BY <1>5 DEF In
  <2> QED BY <1>1, <1>6, <2>1
<1>10. \A i \in 1 .. Len(d) : Writing(spc, d, c, mt, i) => In(i, of)
  BY <1>5
<1> QED BY <1>3, <1>4, <1>8, <1>9, <1>10 DEF wr, Write

\* Deletes: no matched row, and every unlisted row a prune is to remove.
LEMMA DeletesAre ==
  ASSUME NEW spc, NEW R, NEW c \in Seq(R), NEW mt
  PROVE  /\ Deletes(spc, c, mt) \in Seq(Range(Deletes(spc, c, mt)))
         /\ \A k \in 1 .. Len(Deletes(spc, c, mt)) :
              Deletes(spc, c, mt)[k].op = "delete" /\ Deletes(spc, c, mt)[k].id \notin Range(mt)
         /\ spc.unlisted = "prune" =>
              \A id \in Ours(spc, c) \ Range(mt) :
                \E k \in 1 .. Len(Deletes(spc, c, mt)) : Deletes(spc, c, mt)[k].id = id
<1> DEFINE T == {row \in Range(c) : /\ spc.unlisted = "prune"
                                    /\ row.id # NoID
                                    /\ row.id \notin Range(mt)
                                    /\ ~Ignored(spc, row)}
           unlisted == Only(c, T)
           dl       == Deletes(spc, c, mt)
<1>1. dl = [i \in DOMAIN unlisted |-> DeleteStep(unlisted[i])]
  BY DEF Deletes
<1>2. unlisted \in Seq(R)
  BY OnlyRange
<1>3. \A row : In(row, unlisted) <=> In(row, c) /\ row \in T
  BY InOnly
<1> HIDE DEF unlisted, dl
<1>4. Len(unlisted) \in Nat /\ DOMAIN unlisted = 1 .. Len(unlisted)
  BY <1>2
<1>5. dl = [k \in 1 .. Len(unlisted) |-> dl[k]]
  BY <1>1, <1>4
<1>6. dl \in Seq(Range(dl)) /\ Len(dl) = Len(unlisted)
  BY <1>4, <1>5, RangeSeq
<1>7. ASSUME NEW k \in 1 .. Len(dl)
      PROVE  dl[k].op = "delete" /\ dl[k].id = unlisted[k].id
  <2>1. dl[k] = DeleteStep(unlisted[k])
    BY <1>1, <1>4, <1>6
  <2> QED BY <2>1 DEF DeleteStep, Step
<1>8. ASSUME NEW k \in 1 .. Len(dl) PROVE dl[k].id \notin Range(mt)
  <2>1. unlisted[k] \in T
    BY <1>3, <1>6 DEF In
  <2> QED BY <1>7, <2>1
<1>9. ASSUME spc.unlisted = "prune", NEW id \in Ours(spc, c) \ Range(mt)
      PROVE  \E k \in 1 .. Len(dl) : dl[k].id = id
  <2>1. PICK j \in DOMAIN c : c[j].id = id /\ c[j].id # NoID /\ ~Ignored(spc, c[j])
    BY DEF Ours
  <2>2. c[j] \in T
    BY <1>9, <2>1 DEF Range
  <2>3. In(c[j], c)
    BY DEF In
  <2>4. PICK k \in 1 .. Len(unlisted) : unlisted[k] = c[j]
    BY <1>3, <2>2, <2>3 DEF In
  <2> QED BY <1>6, <1>7, <2>1, <2>4
<1> QED BY <1>6, <1>7, <1>8, <1>9 DEF dl

\* byID: a row of a reading by its id.
LEMMA ByIdIs ==
  ASSUME NEW m, Orderly(m), NEW id \in DOMAIN m.rows
  PROVE  ById(List(m), id) = RowAt(m, id)
<1> DEFINE c == List(m)
           n == Len(m.order)
           I == {i \in 1 .. Len(c) : c[i].id = id}
<1>1. /\ n \in Nat /\ Len(c) = n
      /\ \A k \in 1 .. n : c[k] = RowAt(m, m.order[k]) /\ c[k].id = m.order[k]
      /\ \E k \in 1 .. n : m.order[k] = id
  BY ListRows
<1>2. I # {} /\ I \in SUBSET Nat
  BY <1>1
<1>3. SelectInSeq(c, LAMBDA row : row.id = id) = Min(I)
  BY <1>2 DEF SelectInSeq
<1> HIDE DEF c
<1>4. Min(I) \in I
  <2> HIDE DEF I
  <2> QED BY <1>2, MinIn
<1>5. ById(c, id) = c[Min(I)]
  BY <1>3 DEF ById
<1>6. Min(I) \in 1 .. n /\ c[Min(I)].id = id
  BY <1>1, <1>4
<1> HIDE DEF I
<1>7. c[Min(I)] = RowAt(m, id)
  BY <1>1, <1>6
<1> QED BY <1>5, <1>7 DEF c

\* A plan as its steps show it: mt is what the desired rows have claimed, and the first
\* steps are the writes for the desired rows of, each its own; the others delete rows
\* that are not claimed, or move rows where there is an order.
Lack(d, m, mt, i) == Changes(d[i], RowAt(m, mt[i]))
Laid(spc, d, m, mt, stps, of) ==
  /\ mt \in Seq(Nat) /\ Len(mt) = Len(d) /\ Apart(mt)
  /\ \A i \in 1 .. Len(d) : mt[i] # NoID => mt[i] \in DOMAIN m.rows /\ Fits(spc, d[i], RowAt(m, mt[i]))
  /\ of \in Seq(1 .. Len(d)) /\ Distinct(of)
  /\ \A k \in 1 .. Len(of) :
       /\ k \in DOMAIN stps
       /\ mt[of[k]] = NoID => stps[k] = CreateStep(d[of[k]])
       /\ mt[of[k]] # NoID => spc.key # NoKey /\ stps[k] = UpdateStep(mt[of[k]], Lack(d, m, mt, of[k]))
  /\ \A k \in DOMAIN stps \ (1 .. Len(of)) :
       \/ stps[k].op = "delete" /\ ~In(stps[k].id, mt)
       \/ stps[k].op = "move" /\ spc.ordered
  /\ \A i \in 1 .. Len(d) :
       (mt[i] = NoID \/ (spc.key # NoKey /\ DOMAIN Lack(d, m, mt, i) # {})) => In(i, of)
  /\ spc.unlisted = "prune" =>
       \A id \in DOMAIN m.rows : \/ In(id, mt) \/ Ignored(spc, RowAt(m, id))
                                 \/ \E k \in DOMAIN stps : stps[k].op = "delete" /\ stps[k].id = id

\* What the desired rows claim, where none is ambiguous.
LEMMA MatchedRows ==
  ASSUME NEW spc, NEW W, NEW d \in Seq(W), NEW m, Orderly(m), Ambiguous \notin Range(Matched(spc, d, List(m)))
  PROVE  /\ Matched(spc, d, List(m)) \in Seq(Nat) /\ Len(Matched(spc, d, List(m))) = Len(d)
         /\ Apart(Matched(spc, d, List(m)))
         /\ \A i \in 1 .. Len(d) :
              /\ Suits(spc, d[i], List(m), Matched(spc, d, List(m))[i])
              /\ Matched(spc, d, List(m))[i] # Ambiguous
              /\ Matched(spc, d, List(m))[i] # NoID =>
                   /\ Matched(spc, d, List(m))[i] \in DOMAIN m.rows
                   /\ Fits(spc, d[i], RowAt(m, Matched(spc, d, List(m))[i]))
<1> DEFINE c  == List(m)
           mt == Matched(spc, d, c)
<1>1. /\ \A k \in DOMAIN c : m.order[k] \in DOMAIN m.rows /\ c[k] = RowAt(m, m.order[k]) /\ c[k].id = m.order[k]
      /\ DOMAIN c \in SUBSET Nat /\ \A k \in DOMAIN c : c[k].id \in Nat
  <2>1. DOMAIN c = 1 .. Len(m.order) /\ DOMAIN c \in SUBSET Nat
    BY ListRows
  <2>2. \A k \in 1 .. Len(m.order) :
          m.order[k] \in DOMAIN m.rows /\ c[k] = RowAt(m, m.order[k]) /\ c[k].id = m.order[k]
    BY ListRows
  <2>3. \A k \in DOMAIN c : c[k].id \in Nat
    BY ListRows
  <2> HIDE DEF c
  <2> QED BY <2>1, <2>2, <2>3
<1>2. Ambiguous \notin Range(mt)
  OBVIOUS
<1> HIDE DEF c
<1>3. /\ mt \in Seq(Int) /\ Len(mt) = Len(d) /\ Apart(mt)
      /\ \A i \in 1 .. Len(d) : Suits(spc, d[i], c, mt[i])
  BY <1>1, MatchedIs
<1> HIDE DEF mt
<1>4. \A i \in 1 .. Len(d) : mt[i] # Ambiguous
  BY <1>2, <1>3 DEF Range
<1>5. ASSUME NEW i \in 1 .. Len(d), mt[i] # NoID
      PROVE  mt[i] \in DOMAIN m.rows /\ Fits(spc, d[i], RowAt(m, mt[i]))
  <2>1. PICK k \in DOMAIN c : Fits(spc, d[i], c[k]) /\ c[k].id = mt[i]
    BY <1>3, <1>4, <1>5 DEF Suits
  <2> QED BY <1>1, <2>1
<1>6. \A i \in 1 .. Len(mt) : mt[i] \in Nat
  BY <1>3, <1>5 DEF Orderly, NoID
<1>7. mt \in Seq(Nat)
  BY <1>3, <1>6, SeqIn
<1> QED BY <1>3, <1>4, <1>5, <1>7 DEF mt, c

\* Every plan that is not refused is laid out like that.
LEMMA PlanLaid ==
  ASSUME NEW spc, NEW W, NEW d \in Seq(W), NEW m, Orderly(m), Plan(spc, d, List(m)).err = "none"
  PROVE  \E of : Laid(spc, d, m, Matched(spc, d, List(m)), Plan(spc, d, List(m)).steps, of)
<1> DEFINE c  == List(m)
           mt == Matched(spc, d, c)
           wr == Writes(spc, d, c, mt)
           dl == Deletes(spc, c, mt)
           ro == Reorder(spc, c, mt)
           s  == Plan(spc, d, c).steps
<1>1. Ambiguous \notin Range(mt) /\ s = Joined(Joined(wr, dl), ro)
  BY PlanIs DEF AllSteps
<1>2. /\ mt \in Seq(Nat) /\ Len(mt) = Len(d) /\ Apart(mt)
      /\ \A i \in 1 .. Len(d) :
           /\ Suits(spc, d[i], c, mt[i]) /\ mt[i] # Ambiguous
           /\ mt[i] # NoID => mt[i] \in DOMAIN m.rows /\ Fits(spc, d[i], RowAt(m, mt[i]))
  BY <1>1, MatchedRows
<1>3. c \in Seq(Range(c)) /\ Ours(spc, c) = {id \in DOMAIN m.rows : ~\E sel \in spc.ignore : Subset(sel, m.rows[id])}
  BY ListIs
<1>4. \A i \in 1 .. Len(d) : mt[i] # NoID => Lacks(d, c, mt, i) = Lack(d, m, mt, i)
  BY <1>2, ByIdIs DEF Lacks, Lack
<1> HIDE DEF c, mt, s
<1>5. mt \in Seq(Int)
  BY <1>2
<1>6. /\ wr \in Seq(Range(wr))
      /\ \E of \in Seq(1 .. Len(d)) :
           /\ Distinct(of) /\ Len(of) = Len(wr)
           /\ \A k \in 1 .. Len(of) :
                /\ Writing(spc, d, c, mt, of[k])
                /\ wr[k] = IF mt[of[k]] = NoID THEN CreateStep(d[of[k]])
                           ELSE UpdateStep(mt[of[k]], Lacks(d, c, mt, of[k]))
           /\ \A i \in 1 .. Len(d) : Writing(spc, d, c, mt, i) => In(i, of)
  BY <1>2, <1>5, WritesAre
<1>7. PICK of \in Seq(1 .. Len(d)) :
        /\ Distinct(of) /\ Len(of) = Len(wr)
        /\ \A k \in 1 .. Len(of) :
             /\ Writing(spc, d, c, mt, of[k])
             /\ wr[k] = IF mt[of[k]] = NoID THEN CreateStep(d[of[k]])
                        ELSE UpdateStep(mt[of[k]], Lacks(d, c, mt, of[k]))
        /\ \A i \in 1 .. Len(d) : Writing(spc, d, c, mt, i) => In(i, of)
  BY <1>6
<1>8. /\ dl \in Seq(Range(dl))
      /\ \A k \in 1 .. Len(dl) : dl[k].op = "delete" /\ dl[k].id \notin Range(mt)
      /\ spc.unlisted = "prune" => \A id \in Ours(spc, c) \ Range(mt) : \E k \in 1 .. Len(dl) : dl[k].id = id
  BY <1>3, DeletesAre
<1>9. ro \in Seq(Range(ro)) /\ \A k \in 1 .. Len(ro) : ro[k].op = "move"
  <2>1. \A i \in 1 .. Len(d) : Suits(spc, d[i], c, mt[i]) /\ mt[i] # Ambiguous
    BY <1>2
  <2> QED BY <1>2, <1>5, <2>1, ReorderSound
<1>10. ~spc.ordered => Len(ro) = 0
  BY DEF Reorder
<1> DEFINE U == Range(wr) \cup Range(dl) \cup Range(ro)
<1> HIDE DEF wr, dl, ro
<1>11. wr \in Seq(U) /\ dl \in Seq(U) /\ ro \in Seq(U)
  <2>1. \A f : f \in Seq(Range(f)) /\ Range(f) \subseteq U => f \in Seq(U)
    OBVIOUS
  <2> QED BY <1>6, <1>8, <1>9, <2>1
<1> HIDE DEF U
<1>12. /\ \A k \in 1 .. Len(wr) : k \in DOMAIN s /\ s[k] = wr[k]
       /\ \A k \in 1 .. Len(dl) : Len(wr) + k \in DOMAIN s /\ s[Len(wr) + k] = dl[k]
       /\ \A k \in DOMAIN s : \/ k \in 1 .. Len(wr) /\ s[k] = wr[k]
                              \/ \E l \in 1 .. Len(dl) : k = Len(wr) + l /\ s[k] = dl[l]
                              \/ \E l \in 1 .. Len(ro) : k = Len(wr) + Len(dl) + l /\ s[k] = ro[l]
  <2>1. InThree(s, wr, dl, ro)
    BY <1>1, <1>11, ThreeJoined
  <2> QED BY <2>1 DEF InThree
<1>13. ASSUME NEW k \in 1 .. Len(of)
       PROVE  /\ k \in DOMAIN s
              /\ mt[of[k]] = NoID => s[k] = CreateStep(d[of[k]])
              /\ mt[of[k]] # NoID => spc.key # NoKey /\ s[k] = UpdateStep(mt[of[k]], Lack(d, m, mt, of[k]))
  <2>1. of[k] \in 1 .. Len(d) /\ k \in 1 .. Len(wr) /\ k \in DOMAIN s /\ s[k] = wr[k]
    BY <1>7, <1>12
  <2>2. Writing(spc, d, c, mt, of[k])
    BY <1>7
  <2> QED BY <1>4, <1>7, <2>1, <2>2 DEF Writing
<1>14. \A x : x \in Range(mt) <=> In(x, mt)
  BY <1>2, InRange
<1>15. ASSUME NEW k \in DOMAIN s \ (1 .. Len(of))
       PROVE  \/ s[k].op = "delete" /\ ~In(s[k].id, mt)
              \/ s[k].op = "move" /\ spc.ordered
  <2>1. CASE \E l \in 1 .. Len(dl) : k = Len(wr) + l /\ s[k] = dl[l]
    BY <1>8, <1>14, <2>1
  <2>2. CASE \E l \in 1 .. Len(ro) : k = Len(wr) + Len(dl) + l /\ s[k] = ro[l]
    BY <1>9, <1>10, <2>2
  <2> QED BY <1>7, <1>12, <2>1, <2>2
<1>16. ASSUME NEW i \in 1 .. Len(d), mt[i] = NoID \/ (spc.key # NoKey /\ DOMAIN Lack(d, m, mt, i) # {})
       PROVE  In(i, of)
  BY <1>4, <1>7, <1>16 DEF Writing
<1>17. ASSUME spc.unlisted = "prune", NEW id \in DOMAIN m.rows, ~In(id, mt), ~Ignored(spc, RowAt(m, id))
       PROVE  \E k \in DOMAIN s : s[k].op = "delete" /\ s[k].id = id
  <2>1. RowAt(m, id).fields = m.rows[id]
    BY DEF RowAt
  <2>2. id \in Ours(spc, c) \ Range(mt)
    BY <1>3, <1>14, <1>17, <2>1 DEF Ignored
  <2>3. PICK k \in 1 .. Len(dl) : dl[k].id = id
    BY <1>8, <1>17, <2>2
  <2> QED BY <1>8, <1>12, <2>3
<1>18. Laid(spc, d, m, mt, s, of)
  BY <1>2, <1>7, <1>13, <1>15, <1>16, <1>17 DEF Laid
<1> QED BY <1>18 DEF mt, s, c

-----------------------------------------------------------------------------
\* Claims under a key, and claims that find nothing.

\* Under a key a desired row claims the first row with its value for the key that is
\* not claimed, and is never ambiguous.
LEMMA KeyedClaim ==
  ASSUME NEW spc, spc.key # NoKey, NEW w, NEW c, DOMAIN c \in SUBSET Nat, NEW claimed
  PROVE  /\ Open(spc, w, c, claimed) = {} => Claim(spc, w, c, claimed) = NoID
         /\ \A k \in Open(spc, w, c, claimed) :
              (\A j \in Open(spc, w, c, claimed) : k <= j) => Claim(spc, w, c, claimed) = c[k].id
         /\ Open(spc, w, c, claimed) # {} =>
              \E k \in Open(spc, w, c, claimed) : \A j \in Open(spc, w, c, claimed) : k <= j
<1> DEFINE open == Open(spc, w, c, claimed)
           rows == Candidates(spc, w, c, claimed)
<1>1. rows = {k \in open : \A j \in open : k <= j}
  <2>1. {k \in DOMAIN c : Fits(spc, w, c[k])} \ {k \in {k \in DOMAIN c : Fits(spc, w, c[k])} : c[k].id \in claimed} = open
    BY DEF Open
  <2> HIDE DEF open
  <2> QED BY <2>1 DEF Candidates
<1>2. open \in SUBSET Nat
  BY DEF Open
<1>3. Claim(spc, w, c, claimed) = IF rows = {} THEN NoID
                                  ELSE IF Indistinguishable(c, rows) THEN c[Min(rows)].id ELSE Ambiguous
  BY DEF Claim
<1> HIDE DEF open, rows
<1>4. open = {} => rows = {}
  BY <1>1
<1>5. open # {} => \E k \in open : \A j \in open : k <= j
  BY <1>2, Least
<1>6. ASSUME NEW k \in open, \A j \in open : k <= j PROVE Claim(spc, w, c, claimed) = c[k].id
  <2>1. \A j \in rows : j = k
    BY <1>1, <1>2, <1>6
  <2>2. k \in rows
    BY <1>1, <1>6
  <2>3. rows = {k}
    BY <2>1, <2>2
  <2>4. Indistinguishable(c, rows)
    BY <2>1 DEF Indistinguishable
  <2>5. Min(rows) = k
    <3>1. rows \in SUBSET Nat /\ rows # {}
      BY <1>1, <1>2, <2>2
    <3>2. Min(rows) \in rows
      BY <3>1, MinIn
    <3> QED BY <2>1, <3>2
  <2> QED BY <1>3, <2>2, <2>4, <2>5
<1> QED BY <1>3, <1>4, <1>5, <1>6 DEF open

\* A desired row that claims nothing has had every row that fits it taken.
LEMMA ClaimNone ==
  ASSUME NEW spc, NEW w, NEW c, DOMAIN c \in SUBSET Nat, NEW claimed, Claim(spc, w, c, claimed) = NoID
  PROVE  \A k \in DOMAIN c : Fits(spc, w, c[k]) => c[k].id \in claimed
<1> DEFINE open == Open(spc, w, c, claimed)
<1>1. \A k \in open : k \in DOMAIN c /\ c[k].id # NoID
  BY DEF Open, Fits
<1>2. open \in SUBSET Nat
  BY DEF Open
<1>3. open = {}
  <2>1. CASE spc.key = NoKey
    <3>1. Claim(spc, w, c, claimed) = IF open = {} THEN NoID
                                      ELSE IF Indistinguishable(c, open) THEN c[Min(open)].id ELSE Ambiguous
      BY <2>1, ClaimOpen
    <3> HIDE DEF open
    <3>2. open # {} => Min(open) \in open
      BY <1>2, MinIn
    <3> QED BY <1>1, <3>1, <3>2 DEF NoID, Ambiguous
  <2>2. CASE spc.key # NoKey
    <3>1. /\ \A k \in open : (\A j \in open : k <= j) => Claim(spc, w, c, claimed) = c[k].id
          /\ open # {} => \E k \in open : \A j \in open : k <= j
      BY <2>2, KeyedClaim
    <3> HIDE DEF open
    <3> QED BY <1>1, <3>1
  <2> QED BY <2>1, <2>2
<1> QED BY <1>3 DEF Open

\* So it is in a reading: what fits a desired row without a match was claimed by another.
Exhausted(spc, d, m, mt) ==
  \A i \in 1 .. Len(d) : \A id \in DOMAIN m.rows :
    (mt[i] = NoID /\ Fits(spc, d[i], RowAt(m, id))) => \E j \in 1 .. Len(d) : mt[j] = id

\* No row is left for a desired row without a match.
LEMMA NoneLeft ==
  ASSUME NEW spc, NEW W, NEW d \in Seq(W), NEW m, Orderly(m), NEW mt, mt = Matched(spc, d, List(m))
  PROVE  Exhausted(spc, d, m, mt)
<1> SUFFICES ASSUME NEW i \in 1 .. Len(d), NEW id \in DOMAIN m.rows, mt[i] = NoID, Fits(spc, d[i], RowAt(m, id))
             PROVE  \E j \in 1 .. Len(d) : mt[j] = id
  BY DEF Exhausted
<1> DEFINE c == List(m)
<1>1. /\ DOMAIN c = 1 .. Len(m.order) /\ DOMAIN c \in SUBSET Nat
      /\ \A k \in 1 .. Len(m.order) : c[k] = RowAt(m, m.order[k]) /\ c[k].id = m.order[k]
      /\ \A k \in DOMAIN c : c[k].id \in Nat
      /\ \E k \in 1 .. Len(m.order) : m.order[k] = id
  BY ListRows
<1>2. mt = Matched(spc, d, c)
  OBVIOUS
<1> HIDE DEF c
<1>3. mt[i] = Claim(spc, d[i], c, Before(mt, i))
  <2>1. DOMAIN c \in SUBSET Nat /\ \A k \in DOMAIN c : c[k].id \in Nat
    BY <1>1
  <2>2. \A j \in 1 .. Len(d) : Matched(spc, d, c)[j] = Claim(spc, d[j], c, Before(Matched(spc, d, c), j))
    BY <2>1, MatchedUnfolds
  <2> QED BY <1>2, <2>2
<1> DEFINE B == Before(mt, i)
           r == d[i]
<1>4. Claim(spc, r, c, B) = NoID /\ DOMAIN c \in SUBSET Nat /\ Fits(spc, r, RowAt(m, id))
  BY <1>1, <1>3
<1> HIDE DEF B, r
<1>5. \A k \in DOMAIN c : Fits(spc, r, c[k]) => c[k].id \in B
  BY <1>4, ClaimNone
<1>6. id \in B
  BY <1>1, <1>4, <1>5
<1>7. PICK j \in 1 .. i - 1 : mt[j] = id
  BY <1>6 DEF B, Before
<1>8. j \in 1 .. Len(d)
  BY <1>7
<1> QED BY <1>7, <1>8

-----------------------------------------------------------------------------
\* Reading a menu again that holds a row of its own for every desired row.

\* A plan that is refused has no steps.
LEMMA RefusedEmpty ==
  ASSUME NEW spc, NEW d, NEW c, Plan(spc, d, c).err # "none"
  PROVE  Plan(spc, d, c).steps = <<>>
<1> DEFINE mt  == Matched(spc, d, c)
           all == AllSteps(spc, d, c, mt)
           p   == Plan(spc, d, c)
<1>1. Steps(spc, d, c, mt) = IF Ambiguous \in Range(mt) THEN Refuse("AmbiguousError")
                             ELSE [err |-> "none", matched |-> mt, steps |-> all]
  BY DEF Steps, AllSteps, Joined
<1>2. \A why : Refuse(why).steps = <<>>
  BY DEF Refuse
<1>3. CASE spc.unlisted \notin {"tolerate", "prune"}
  BY <1>2, <1>3 DEF Plan
<1>4. CASE spc.unlisted \in {"tolerate", "prune"} /\ EmptyRecord \in spc.ignore
  BY <1>2, <1>4 DEF Plan
<1>5. CASE spc.unlisted \in {"tolerate", "prune"} /\ EmptyRecord \notin spc.ignore
  <2>1. p = Steps(spc, d, c, mt)
    BY <1>5 DEF Plan
  <2>2. p.err # "none"
    OBVIOUS
  <2> HIDE DEF p, mt, all
  <2>3. p = Refuse("AmbiguousError")
    BY <1>1, <2>1, <2>2
  <2> QED BY <1>2, <2>3 DEF p
<1> QED BY <1>3, <1>4, <1>5

\* Rows h of a menu that fit the desired rows, one each; a prune has left no others.
Fitted(spc, d, m, h) ==
  /\ h \in Seq(DOMAIN m.rows) /\ Distinct(h) /\ Len(h) = Len(d)
  /\ \A i \in 1 .. Len(d) : Fits(spc, d[i], RowAt(m, h[i]))
  /\ spc.unlisted = "prune" => \A id \in DOMAIN m.rows : In(id, h) \/ Ignored(spc, RowAt(m, id))

\* A plan for which they are the match is empty if it writes and moves nothing.
LEMMA FittedEmpty ==
  ASSUME NEW spc, NEW d, NEW m, Orderly(m), NEW h, Fitted(spc, d, m, h),
         Writes(spc, d, List(m), h) = <<>>, Reorder(spc, List(m), h) = <<>>
  PROVE  AllSteps(spc, d, List(m), h) = <<>>
<1> DEFINE c == List(m)
<1>1. c \in Seq(Range(c)) /\ Ours(spc, c) = {id \in DOMAIN m.rows : ~\E sel \in spc.ignore : Subset(sel, m.rows[id])}
  BY ListIs
<1>2. h \in Seq(DOMAIN m.rows)
  BY DEF Fitted
<1>3. Writes(spc, d, c, h) = <<>> /\ Reorder(spc, c, h) = <<>>
  OBVIOUS
<1> HIDE DEF c
<1>4. Deletes(spc, c, h) = <<>>
  <2>1. ASSUME spc.unlisted = "prune", NEW id \in Ours(spc, c) PROVE id \in Range(h)
    <3>1. id \in DOMAIN m.rows /\ ~\E sel \in spc.ignore : Subset(sel, m.rows[id])
      BY <1>1
    <3>2. RowAt(m, id).fields = m.rows[id]
      BY DEF RowAt
    <3>3. ~Ignored(spc, RowAt(m, id))
      BY <3>1, <3>2 DEF Ignored
    <3>4. In(id, h)
      BY <2>1, <3>1, <3>3 DEF Fitted
    <3> QED BY <1>2, <3>4, InRange
  <2> QED BY <1>1, <2>1, DeletesNone
<1>5. Joined(<<>>, <<>>) = <<>>
  BY DEF Joined
<1> QED BY <1>3, <1>4, <1>5 DEF AllSteps, c

\* A desired row may have another row of the same content instead of its own: the one
\* that had it takes the row it leaves.
LEMMA Exchange ==
  ASSUME NEW spc, spc.key = NoKey, NEW W, NEW d \in Seq(W), NEW m, Orderly(m), NEW h, Fitted(spc, d, m, h),
         NEW i \in 1 .. Len(d), NEW x \in DOMAIN m.rows, Fits(spc, d[i], RowAt(m, x)),
         x \notin Before(h, i), m.rows[x] = m.rows[h[i]]
  PROVE  \E g : Fitted(spc, d, m, g) /\ g[i] = x /\ \A j \in 1 .. i - 1 : g[j] = h[j]
<1> DEFINE n == Len(d)
           D == DOMAIN m.rows
           g == [k \in 1 .. n |-> IF k = i THEN x ELSE IF h[k] = x THEN h[i] ELSE h[k]]
<1>1. /\ h \in Seq(D) /\ Distinct(h) /\ Len(h) = n /\ n \in Nat
      /\ \A k \in 1 .. n : h[k] \in D /\ Fits(spc, d[k], RowAt(m, h[k]))
      /\ \A j, k \in 1 .. n : h[j] = h[k] => j = k
  BY DEF Fitted, Distinct
<1>2. \A id \in D : id # NoID
  BY DEF Orderly, NoID
<1>3. g \in Seq(D) /\ Len(g) = n
  <2>1. \A k \in 1 .. n : g[k] \in D
    BY <1>1
  <2>2. g \in [1 .. n -> D]
    BY <2>1
  <2> QED BY <1>1, <2>2
<1>4. /\ g[i] = x
      /\ \A k \in 1 .. n : k # i /\ h[k] = x => g[k] = h[i]
      /\ \A k \in 1 .. n : k # i /\ h[k] # x => g[k] = h[k]
  OBVIOUS
<1> HIDE DEF g
<1>5. \A j, k \in 1 .. n : g[j] = g[k] => j = k
  <2> SUFFICES ASSUME NEW j \in 1 .. n, NEW k \in 1 .. n, g[j] = g[k] PROVE j = k
    OBVIOUS
  <2>1. CASE j = i
    BY <1>1, <1>4, <2>1
  <2>2. CASE k = i
    BY <1>1, <1>4, <2>2
  <2>3. CASE j # i /\ k # i
    BY <1>1, <1>4, <2>3
  <2> QED BY <2>1, <2>2, <2>3
<1>6. ASSUME NEW k \in 1 .. n PROVE Fits(spc, d[k], RowAt(m, g[k]))
  <2>1. CASE k = i
    BY <1>4, <2>1
  <2>2. CASE k # i /\ h[k] = x
    <3>1. /\ RowAt(m, x).fields = m.rows[x] /\ RowAt(m, h[i]).fields = m.rows[x]
          /\ RowAt(m, h[i]).id = h[i] /\ h[i] # NoID
      BY <1>1, <1>2 DEF RowAt
    <3>2. Fits(spc, d[k], RowAt(m, x))
      BY <1>1, <2>2
    <3>3. Fits(spc, d[k], RowAt(m, h[i]))
      BY <3>1, <3>2 DEF Fits, Ignored
    <3> QED BY <1>4, <2>2, <3>3
  <2>3. CASE k # i /\ h[k] # x
    BY <1>1, <1>4, <2>3
  <2> QED BY <2>1, <2>2, <2>3
<1>7. ASSUME spc.unlisted = "prune", NEW id \in D, ~Ignored(spc, RowAt(m, id)) PROVE In(id, g)
  <2>1. ~Ignored(spc, RowAt(m, x))
    BY DEF Fits
  <2>2. PICK a \in 1 .. n : h[a] = id
    BY <1>1, <1>7 DEF Fitted, In
  <2>3. PICK b \in 1 .. n : h[b] = x
    BY <1>1, <1>7, <2>1 DEF Fitted, In
  <2>4. \E k \in 1 .. n : g[k] = id
    <3>1. CASE id = x
      BY <1>4, <3>1
    <3>2. CASE id # x /\ a = i
      BY <1>4, <2>2, <2>3, <3>2
    <3>3. CASE id # x /\ a # i
      BY <1>4, <2>2, <3>3
    <3> QED BY <3>1, <3>2, <3>3
  <2> QED BY <1>3, <2>4 DEF In
<1>8. \A j \in 1 .. i - 1 : g[j] = h[j]
  <2> SUFFICES ASSUME NEW j \in 1 .. i - 1 PROVE g[j] = h[j]
    OBVIOUS
  <2>1. j \in 1 .. n /\ j # i
    BY <1>1
  <2>2. h[j] # x
    BY DEF Before
  <2> QED BY <1>4, <2>1, <2>2
<1>9. Fitted(spc, d, m, g)
  BY <1>3, <1>5, <1>6, <1>7 DEF Fitted, Distinct
<1> QED BY <1>4, <1>8, <1>9

\* What is claimed is like all that could have been.
Best(spc, w, c, claimed) ==
  \E k \in DOMAIN c :
    /\ Fits(spc, w, c[k]) /\ c[k].id \notin claimed /\ Claim(spc, w, c, claimed) = c[k].id
    /\ \A j \in DOMAIN c : (Fits(spc, w, c[j]) /\ c[j].id \notin claimed) => c[j].fields = c[k].fields

\* ClaimAlike in a word.
LEMMA ClaimBest ==
  ASSUME NEW spc, spc.key = NoKey, NEW w, NEW c, DOMAIN c \in SUBSET Nat, NEW claimed,
         Claim(spc, w, c, claimed) \notin {NoID, Ambiguous}
  PROVE  Best(spc, w, c, claimed)
BY ClaimAlike DEF Best

\* Without a key, a new reading that is not ambiguous finds a row for every desired row.
LEMMA MatchedFitted ==
  ASSUME NEW spc, spc.key = NoKey, NEW W, NEW d \in Seq(W), NEW m, Orderly(m), NEW w, Fitted(spc, d, m, w),
         NEW mt, mt = Matched(spc, d, List(m)), Ambiguous \notin Range(mt)
  PROVE  Fitted(spc, d, m, mt)
<1> DEFINE c == List(m)
           n == Len(d)
           D == DOMAIN m.rows
           P == {i \in 0 .. n : \E h : Fitted(spc, d, m, h) /\ \A j \in 1 .. i : h[j] = mt[j]}
<1>1. /\ DOMAIN c = 1 .. Len(m.order) /\ DOMAIN c \in SUBSET Nat /\ Len(m.order) \in Nat
      /\ \A k \in 1 .. Len(m.order) : /\ m.order[k] \in D /\ c[k] = RowAt(m, m.order[k])
                                      /\ c[k].id = m.order[k] /\ c[k].fields = m.rows[m.order[k]]
      /\ \A k \in DOMAIN c : c[k].id \in Nat
      /\ \A id \in D : \E k \in 1 .. Len(m.order) : m.order[k] = id
  BY ListRows
<1>2. mt = Matched(spc, d, c)
  OBVIOUS
<1> HIDE DEF c
<1>3. /\ mt \in Seq(Int) /\ Len(mt) = n
      /\ \A i \in 1 .. n : mt[i] = Claim(spc, d[i], c, Before(mt, i))
  <2>1. DOMAIN c \in SUBSET Nat /\ \A k \in DOMAIN c : c[k].id \in Nat
    BY <1>1
  <2>2. /\ Matched(spc, d, c) \in Seq(Int) /\ Len(Matched(spc, d, c)) = Len(d)
        /\ \A i \in 1 .. Len(d) : Matched(spc, d, c)[i] = Claim(spc, d[i], c, Before(Matched(spc, d, c), i))
    BY <2>1, MatchedUnfolds
  <2> QED BY <1>2, <2>2
<1>4. \A i \in 1 .. n : mt[i] # Ambiguous
  BY <1>3 DEF Range
<1>5. n \in Nat
  OBVIOUS
<1>6. 0 \in P
  BY <1>5
<1>7. ASSUME NEW i \in 1 .. n, i - 1 \in P PROVE i \in P
  <2>1. PICK h : Fitted(spc, d, m, h) /\ \A j \in 1 .. i - 1 : h[j] = mt[j]
    BY <1>7
  <2> DEFINE B == Before(h, i)
             r == d[i]
             y == h[i]
  <2>2. B = Before(mt, i)
    BY <2>1 DEF Before
  <2>3. mt[i] = Claim(spc, r, c, B)
    BY <1>3, <2>2
  <2>4. y \in D /\ Fits(spc, r, RowAt(m, y)) /\ y \notin B
    <3>1. h \in Seq(D) /\ Distinct(h) /\ Len(h) = n
      BY <2>1 DEF Fitted
    <3>2. \A j \in 1 .. i - 1 : h[j] # h[i]
      BY <1>5, <3>1 DEF Distinct
    <3> QED BY <2>1, <3>1, <3>2 DEF Fitted, Before
  <2> HIDE DEF B, r, y
  <2>5. PICK l \in 1 .. Len(m.order) : m.order[l] = y
    BY <1>1, <2>4
  <2>6. l \in DOMAIN c /\ Fits(spc, r, c[l]) /\ c[l].id = y /\ c[l].fields = m.rows[y]
    <3>1. l \in DOMAIN c /\ c[l] = RowAt(m, y) /\ c[l].id = y /\ c[l].fields = m.rows[y]
      BY <1>1, <2>5
    <3> QED BY <2>4, <3>1
  <2>7. Claim(spc, r, c, B) # NoID
    <3> SUFFICES ASSUME Claim(spc, r, c, B) = NoID PROVE FALSE
      OBVIOUS
    <3>1. \A k \in DOMAIN c : Fits(spc, r, c[k]) => c[k].id \in B
      BY <1>1, ClaimNone
    <3> QED BY <2>4, <2>6, <3>1
  <2>8. Claim(spc, r, c, B) \notin {NoID, Ambiguous} /\ DOMAIN c \in SUBSET Nat
    BY <1>1, <1>4, <2>3, <2>7
  <2>9. PICK k \in DOMAIN c :
          /\ Fits(spc, r, c[k]) /\ c[k].id \notin B /\ Claim(spc, r, c, B) = c[k].id
          /\ \A j \in DOMAIN c : (Fits(spc, r, c[j]) /\ c[j].id \notin B) => c[j].fields = c[k].fields
    <3>1. Best(spc, r, c, B)
      BY <2>8, ClaimBest
    <3> QED BY <3>1 DEF Best
  <2> DEFINE x == mt[i]
  <2>10. x \in D /\ Fits(spc, r, RowAt(m, x)) /\ x \notin B /\ m.rows[x] = m.rows[y]
    <3>1. c[k].id = x /\ x = m.order[k] /\ x \in D /\ c[k] = RowAt(m, x) /\ c[k].fields = m.rows[x]
      <4>1. k \in 1 .. Len(m.order) /\ c[k].id = x
        BY <1>1, <2>3, <2>9
      <4>2. m.order[k] \in D /\ c[k] = RowAt(m, m.order[k]) /\ c[k].id = m.order[k] /\ c[k].fields = m.rows[m.order[k]]
        BY <1>1, <4>1
      <4> QED BY <4>1, <4>2
    <3>2. c[l].fields = c[k].fields
      BY <2>4, <2>6, <2>9
    <3> QED BY <2>6, <2>9, <3>1, <3>2
  <2> HIDE DEF x
  <2>11. PICK g : Fitted(spc, d, m, g) /\ g[i] = x /\ \A j \in 1 .. i - 1 : g[j] = h[j]
    BY <2>1, <2>10, Exchange DEF B, r, y
  <2>12. \A j \in 1 .. i : g[j] = mt[j]
    BY <1>5, <2>1, <2>11 DEF x
  <2> QED BY <1>5, <2>11, <2>12
<1> HIDE DEF P
<1>8. n \in P
  <2>1. \A i \in 0 .. n : i \in P
    BY <1>5, <1>6, <1>7, UpTo
  <2> QED BY <1>5, <2>1
<1>9. PICK h : Fitted(spc, d, m, h) /\ \A j \in 1 .. n : h[j] = mt[j]
  BY <1>8 DEF P
<1>10. h = mt
  <2>1. h \in Seq(D) /\ Len(h) = n
    BY <1>9 DEF Fitted
  <2> QED BY <1>3, <1>9, <2>1
<1> QED BY <1>9, <1>10

\* So it plans nothing, or is refused.
LEMMA UnkeyedEmpty ==
  ASSUME NEW spc, spc.key = NoKey, ~spc.ordered, NEW W, NEW d \in Seq(W), NEW m, Orderly(m),
         NEW w, Fitted(spc, d, m, w)
  PROVE  Plan(spc, d, List(m)).steps = <<>>
<1> DEFINE c  == List(m)
           mt == Matched(spc, d, c)
<1>1. CASE Plan(spc, d, c).err # "none"
  BY <1>1, RefusedEmpty
<1>2. CASE Plan(spc, d, c).err = "none"
  <2>1. Ambiguous \notin Range(mt) /\ Plan(spc, d, c).steps = AllSteps(spc, d, c, mt)
    BY <1>2, PlanIs
  <2>2. mt = Matched(spc, d, List(m))
    OBVIOUS
  <2> HIDE DEF mt
  <2>3. Fitted(spc, d, m, mt)
    BY <2>1, <2>2, MatchedFitted
  <2>4. mt \in Seq(Int) /\ Len(mt) = Len(d) /\ \A i \in 1 .. Len(d) : mt[i] # NoID
    <3>1. \A id \in DOMAIN m.rows : id \in Int /\ id # NoID
      BY DEF Orderly, NoID
    <3>2. mt \in Seq(DOMAIN m.rows) /\ Len(mt) = Len(d)
      BY <2>3 DEF Fitted
    <3>3. \A i \in 1 .. Len(mt) : mt[i] \in DOMAIN m.rows
      BY <3>2
    <3>4. mt \in Seq(Int)
      BY <3>1, <3>2, <3>3, SeqIn
    <3> QED BY <3>1, <3>2, <3>3, <3>4
  <2>5. Writes(spc, d, c, mt) = <<>>
    <3> HIDE DEF c
    <3> QED BY <2>4, WritesUnkeyed
  <2>6. Reorder(spc, c, mt) = <<>>
    BY DEF Reorder
  <2>7. AllSteps(spc, d, c, mt) = <<>>
    BY <2>3, <2>5, <2>6, FittedEmpty
  <2> QED BY <2>1, <2>7
<1> QED BY <1>1, <1>2

\* With a key, the row claimed is the first in the menu that could be.
Ahead(m, x, y) == \A a, b \in 1 .. Len(m.order) : (m.order[a] = x /\ m.order[b] = y) => a <= b
Foremost(spc, d, m, w) ==
  \A i \in 1 .. Len(d) : w[i] # NoID =>
    \A id \in DOMAIN m.rows : (Fits(spc, d[i], RowAt(m, id)) /\ id \notin Before(w, i)) => Ahead(m, w[i], id)

\* So it is in a reading.
LEMMA MatchedForemost ==
  ASSUME NEW spc, spc.key # NoKey, NEW W, NEW d \in Seq(W), NEW m, Orderly(m),
         NEW mt, mt = Matched(spc, d, List(m))
  PROVE  Foremost(spc, d, m, mt)
<1> DEFINE c == List(m)
           n == Len(m.order)
           D == DOMAIN m.rows
<1>1. /\ DOMAIN c = 1 .. n /\ DOMAIN c \in SUBSET Nat /\ n \in Nat
      /\ \A k \in 1 .. n : m.order[k] \in D /\ c[k] = RowAt(m, m.order[k]) /\ c[k].id = m.order[k]
      /\ \A k \in DOMAIN c : c[k].id \in Nat
  BY ListRows
<1>2. mt = Matched(spc, d, c)
  OBVIOUS
<1>3. \A a, b \in 1 .. n : m.order[a] = m.order[b] => a = b
  BY DEF Orderly, Distinct
<1> HIDE DEF c
<1>4. \A i \in 1 .. Len(d) : mt[i] = Claim(spc, d[i], c, Before(mt, i))
  <2>1. DOMAIN c \in SUBSET Nat /\ \A k \in DOMAIN c : c[k].id \in Nat
    BY <1>1
  <2>2. \A i \in 1 .. Len(d) : Matched(spc, d, c)[i] = Claim(spc, d[i], c, Before(Matched(spc, d, c), i))
    BY <2>1, MatchedUnfolds
  <2> QED BY <1>2, <2>2
<1>5. ASSUME NEW i \in 1 .. Len(d), mt[i] # NoID, NEW id \in D, Fits(spc, d[i], RowAt(m, id)), id \notin Before(mt, i),
             NEW a \in 1 .. n, NEW b \in 1 .. n, m.order[a] = mt[i], m.order[b] = id
      PROVE  a <= b
  <2> DEFINE r == d[i]
             B == Before(mt, i)
             open == Open(spc, r, c, B)
  <2>1. mt[i] = Claim(spc, r, c, B) /\ DOMAIN c \in SUBSET Nat
    BY <1>1, <1>4
  <2>2. b \in open
    <3>1. b \in DOMAIN c /\ c[b] = RowAt(m, id) /\ c[b].id = id
      BY <1>1, <1>5
    <3> QED BY <1>5, <3>1 DEF Open
  <2> HIDE DEF r, B
  <2>3. /\ open # {} => \E k \in open : \A j \in open : k <= j
        /\ \A k \in open : (\A j \in open : k <= j) => Claim(spc, r, c, B) = c[k].id
    BY <2>1, KeyedClaim
  <2>4. PICK k \in open : \A j \in open : k <= j
    BY <2>2, <2>3
  <2>5. c[k].id = mt[i]
    BY <2>1, <2>3, <2>4
  <2>6. k \in 1 .. n
    BY <1>1 DEF Open
  <2>7. k = a
    BY <1>1, <1>3, <1>5, <2>5, <2>6
  <2> QED BY <2>2, <2>4, <2>7
<1> QED BY <1>5 DEF Foremost, Ahead

\* ... and conversely those rows are the match.
LEMMA KeyedMatched ==
  ASSUME NEW spc, spc.key # NoKey, NEW W, NEW d \in Seq(W), NEW m, Orderly(m),
         NEW w, Fitted(spc, d, m, w), Foremost(spc, d, m, w)
  PROVE  /\ Matched(spc, d, List(m)) = w /\ w \in Seq(Int)
         /\ Ambiguous \notin Range(w) /\ \A i \in 1 .. Len(d) : w[i] # NoID
<1> DEFINE c == List(m)
           n == Len(m.order)
           D == DOMAIN m.rows
<1>1. /\ DOMAIN c = 1 .. n /\ DOMAIN c \in SUBSET Nat /\ n \in Nat
      /\ \A k \in 1 .. n : m.order[k] \in D /\ c[k] = RowAt(m, m.order[k]) /\ c[k].id = m.order[k]
      /\ \A k \in DOMAIN c : c[k].id \in Nat
      /\ \A id \in D : \E k \in 1 .. n : m.order[k] = id
  BY ListRows
<1>2. /\ w \in Seq(D) /\ Distinct(w) /\ Len(w) = Len(d) /\ Len(d) \in Nat
      /\ \A i \in 1 .. Len(d) : w[i] \in D /\ Fits(spc, d[i], RowAt(m, w[i]))
  BY DEF Fitted
<1>3. \A id \in D : id \in Int /\ id # NoID /\ id # Ambiguous
  BY DEF Orderly, NoID, Ambiguous
<1>4. w \in Seq(Int)
  BY <1>2, <1>3, SeqIn
<1> HIDE DEF c
<1>5. ASSUME NEW i \in 1 .. Len(d) PROVE w[i] = Claim(spc, d[i], c, Before(w, i))
  <2> DEFINE r == d[i]
             B == Before(w, i)
             open == Open(spc, r, c, B)
  <2>0. w[i] \in D /\ Fits(spc, r, RowAt(m, w[i])) /\ w[i] # NoID
    BY <1>2, <1>3
  <2>1. PICK k \in 1 .. n : m.order[k] = w[i]
    BY <1>1, <2>0
  <2>2. w[i] \notin B
    <3>1. \A j \in 1 .. i - 1 : w[j] # w[i]
      BY <1>2 DEF Distinct
    <3> QED BY <3>1 DEF Before
  <2>3. k \in DOMAIN c /\ c[k] = RowAt(m, w[i]) /\ c[k].id = w[i]
    BY <1>1, <2>1
  <2>4. k \in open
    BY <2>0, <2>2, <2>3 DEF Open
  <2>5. ASSUME NEW j \in open PROVE k <= j
    <3>1. j \in 1 .. n /\ Fits(spc, r, c[j]) /\ c[j].id \notin B
      BY <1>1 DEF Open
    <3>2. m.order[j] \in D /\ c[j] = RowAt(m, m.order[j]) /\ c[j].id = m.order[j]
      BY <1>1, <3>1
    <3>3. Ahead(m, w[i], m.order[j])
      BY <2>0, <3>1, <3>2 DEF Foremost
    <3> QED BY <2>1, <3>1, <3>3 DEF Ahead
  <2>6. DOMAIN c \in SUBSET Nat
    BY <1>1
  <2> HIDE DEF r, B
  <2>7. \A l \in open : (\A j \in open : l <= j) => Claim(spc, r, c, B) = c[l].id
    BY <2>6, KeyedClaim
  <2> HIDE DEF open
  <2>8. Claim(spc, r, c, B) = c[k].id
    BY <2>4, <2>5, <2>7
  <2> QED BY <2>3, <2>8 DEF r, B
<1>6. Matched(spc, d, c) = w
  <2>1. /\ DOMAIN c \in SUBSET Nat /\ \A k \in DOMAIN c : c[k].id \in Nat
        /\ w \in Seq(Int) /\ Len(w) = Len(d)
        /\ \A i \in 1 .. Len(d) : w[i] = Claim(spc, d[i], c, Before(w, i))
    BY <1>1, <1>2, <1>4, <1>5
  <2> QED BY <2>1, MatchedUnique
<1>7. Ambiguous \notin Range(w)
  BY <1>2, <1>3 DEF Range
<1> QED BY <1>2, <1>3, <1>4, <1>6, <1>7 DEF c

\* With a key, a new reading of rows that are as desired, and in order if that
\* matters, plans nothing.
LEMMA KeyedEmpty ==
  ASSUME NEW spc, spc.key # NoKey, NEW W, NEW d \in Seq(W), NEW m, Orderly(m),
         spc.unlisted \in {"tolerate", "prune"}, EmptyRecord \notin spc.ignore,
         NEW w, Fitted(spc, d, m, w), Foremost(spc, d, m, w),
         \A i \in 1 .. Len(d) : Subset(d[i], m.rows[w[i]]),
         spc.ordered => Sorted(m, w, 1)
  PROVE  Plan(spc, d, List(m)).err = "none" /\ Plan(spc, d, List(m)).steps = <<>>
<1> DEFINE c  == List(m)
           wr == Writes(spc, d, c, w)
<1>1. /\ Matched(spc, d, c) = w /\ w \in Seq(Int) /\ Ambiguous \notin Range(w)
      /\ \A i \in 1 .. Len(d) : w[i] # NoID
  BY KeyedMatched
<1>2. Plan(spc, d, c).err = "none" /\ Plan(spc, d, c).steps = AllSteps(spc, d, c, w)
  BY <1>1, PlanIs
<1>3. w \in Seq(DOMAIN m.rows) /\ Distinct(w) /\ Len(w) = Len(d)
  BY DEF Fitted
<1>4. ASSUME NEW i \in 1 .. Len(d) PROVE ~Writing(spc, d, c, w, i)
  <2>1. w[i] \in DOMAIN m.rows
    BY <1>3
  <2>2. ById(c, w[i]) = RowAt(m, w[i])
    BY <2>1, ByIdIs
  <2>3. RowAt(m, w[i]).fields = m.rows[w[i]] /\ Subset(d[i], m.rows[w[i]])
    BY DEF RowAt
  <2>4. DOMAIN Changes(d[i], RowAt(m, w[i])) = {}
    BY <2>3 DEF Changes, Subset
  <2> QED BY <1>1, <2>2, <2>4 DEF Writing, Lacks
<1>5. wr = <<>>
  <2> HIDE DEF c
  <2>1. wr \in Seq(Range(wr)) /\ \E of \in Seq(1 .. Len(d)) : /\ Len(of) = Len(wr)
                                     /\ \A k \in 1 .. Len(of) : Writing(spc, d, c, w, of[k])
    BY <1>1, <1>3, WritesAre
  <2>2. PICK of \in Seq(1 .. Len(d)) : Len(of) = Len(wr) /\ \A k \in 1 .. Len(of) : Writing(spc, d, c, w, of[k])
    BY <2>1
  <2>3. \A k \in 1 .. Len(of) : FALSE
    BY <1>4, <2>2
  <2>4. Len(of) = 0
    BY <2>3
  <2>5. Len(wr) = 0 /\ wr \in Seq(Range(wr))
    BY <2>1, <2>2, <2>4
  <2> HIDE DEF wr
  <2> QED BY <2>5
<1>6. Reorder(spc, c, w) = <<>>
  <2>1. CASE spc.ordered
    BY <1>3, <2>1, ReorderPlaces
  <2>2. CASE ~spc.ordered
    BY <2>2 DEF Reorder
  <2> QED BY <2>1, <2>2
<1>7. AllSteps(spc, d, c, w) = <<>>
  BY <1>5, <1>6, FittedEmpty
<1> QED BY <1>2, <1>7

\* Rows in order are the first that could be, if they are all that could be.
LEMMA SortedForemost ==
  ASSUME NEW spc, NEW W, NEW d \in Seq(W), NEW m, Orderly(m), NEW w, Fitted(spc, d, m, w), Sorted(m, w, 1),
         \A i \in 1 .. Len(d) : \A id \in DOMAIN m.rows : Fits(spc, d[i], RowAt(m, id)) => In(id, w)
  PROVE  Foremost(spc, d, m, w)
<1> DEFINE D == DOMAIN m.rows
           n == Len(m.order)
<1>1. w \in Seq(D) /\ Len(w) = Len(d) /\ Len(w) \in Nat
  BY DEF Fitted
<1>2. Only(m.order, Range(w)) = w
  <2>1. FromOn(w, 1) = Range(w) /\ SubSeq(w, 1, Len(w)) = w
    BY <1>1 DEF FromOn, Range
  <2> QED BY <2>1 DEF Sorted
<1>3. m.order \in Seq(D) /\ Distinct(m.order)
  BY DEF Orderly
<1>4. \A j, k \in 1 .. Len(w), a, b \in 1 .. n : (j < k /\ w[j] = m.order[a] /\ w[k] = m.order[b]) => a < b
  <2>1. \A j, k \in 1 .. Len(Only(m.order, Range(w))), a, b \in 1 .. Len(m.order) :
           (j < k /\ Only(m.order, Range(w))[j] = m.order[a] /\ Only(m.order, Range(w))[k] = m.order[b]) => a < b
    BY <1>3, OnlyMonotone
  <2> QED BY <1>2, <2>1
<1>5. ASSUME NEW i \in 1 .. Len(d), NEW id \in D, Fits(spc, d[i], RowAt(m, id)), id \notin Before(w, i),
             NEW a \in 1 .. n, NEW b \in 1 .. n, m.order[a] = w[i], m.order[b] = id
      PROVE  a <= b
  <2>1. PICK l \in 1 .. Len(w) : w[l] = id
    BY <1>5 DEF In
  <2>2. ~(l < i)
    BY <1>1, <1>5, <2>1 DEF Before
  <2>3. CASE l = i
    <3>1. m.order[a] = m.order[b]
      BY <1>5, <2>1, <2>3
    <3>2. a = b
      BY <1>3, <3>1 DEF Distinct
    <3> QED BY <1>3, <3>2
  <2>4. CASE i < l
    <3>1. a < b
      BY <1>1, <1>4, <1>5, <2>1, <2>4
    <3> QED BY <1>3, <3>1
  <2> QED BY <1>1, <2>2, <2>3, <2>4
<1> QED BY <1>5 DEF Foremost, Ahead

\* What is left of a plan with updates and moves only: the moves, at the end, put the
\* rows w in order.
Beyond(left, u) == {k \in Nat : 0 < k /\ u + k \in left}
Parted(stps, left, u, mv) ==
  \A k \in left : /\ k \in Nat
                  /\ k <= u => stps[k].op = "update"
                  /\ k > u => stps[k] = mv[k - u] /\ stps[k].op = "move"
Lined(m, w, stps, left, u, mv) ==
  u \in Nat /\ Placing(m, w, mv, Beyond(left, u)) /\ Parted(stps, left, u, mv)
Lining(m, w, stps, left) == \E u, mv : Lined(m, w, stps, left, u, mv)

\* A plan of an ordered menu without creates and deletes is one.
Unstructural(stps) == \A i \in DOMAIN stps : stps[i].op \notin {"create", "delete"}

\* It is what Apply runs in one pass.
LEMMA PlanLining ==
  ASSUME NEW spc, spc.ordered, NEW W, NEW d \in Seq(W), NEW m, Orderly(m),
         Plan(spc, d, List(m)).err = "none",
         Unstructural(Plan(spc, d, List(m)).steps)
  PROVE  Lining(m, Matched(spc, d, List(m)), Plan(spc, d, List(m)).steps, DOMAIN Plan(spc, d, List(m)).steps)
<1> DEFINE c  == List(m)
           mt == Matched(spc, d, c)
           wr == Writes(spc, d, c, mt)
           dl == Deletes(spc, c, mt)
           ro == Reorder(spc, c, mt)
           s  == Plan(spc, d, c).steps
<1>1. Ambiguous \notin Range(mt) /\ s = Joined(Joined(wr, dl), ro)
  BY PlanIs DEF AllSteps
<1>2. /\ mt \in Seq(Nat) /\ Len(mt) = Len(d) /\ Apart(mt)
      /\ \A i \in 1 .. Len(d) :
           /\ Suits(spc, d[i], c, mt[i]) /\ mt[i] # Ambiguous
           /\ mt[i] # NoID => mt[i] \in DOMAIN m.rows
  BY <1>1, MatchedRows
<1>3. c \in Seq(Range(c))
  BY ListIs
<1>p. \A i \in DOMAIN s : s[i].op \notin {"create", "delete"}
  BY DEF Unstructural
<1> HIDE DEF c, mt, s
<1>5. mt \in Seq(Int)
  BY <1>2
<1>6. /\ wr \in Seq(Range(wr))
      /\ \E of \in Seq(1 .. Len(d)) :
           /\ Distinct(of) /\ Len(of) = Len(wr)
           /\ \A k \in 1 .. Len(of) :
                /\ Writing(spc, d, c, mt, of[k])
                /\ wr[k] = IF mt[of[k]] = NoID THEN CreateStep(d[of[k]])
                           ELSE UpdateStep(mt[of[k]], Lacks(d, c, mt, of[k]))
           /\ \A i \in 1 .. Len(d) : Writing(spc, d, c, mt, i) => In(i, of)
  BY <1>2, <1>5, WritesAre
<1>7. PICK of \in Seq(1 .. Len(d)) :
        /\ Len(of) = Len(wr)
        /\ \A k \in 1 .. Len(of) :
             wr[k] = IF mt[of[k]] = NoID THEN CreateStep(d[of[k]])
                     ELSE UpdateStep(mt[of[k]], Lacks(d, c, mt, of[k]))
        /\ \A i \in 1 .. Len(d) : Writing(spc, d, c, mt, i) => In(i, of)
  BY <1>6
<1>8. dl \in Seq(Range(dl)) /\ \A k \in 1 .. Len(dl) : dl[k].op = "delete"
  BY <1>3, DeletesSound
<1>9. ro \in Seq(Range(ro)) /\ \A k \in 1 .. Len(ro) : ro[k].op = "move"
  <2>1. \A i \in 1 .. Len(d) : Suits(spc, d[i], c, mt[i]) /\ mt[i] # Ambiguous
    BY <1>2
  <2> QED BY <1>2, <1>5, <2>1, ReorderSound
<1> DEFINE U == Range(wr) \cup Range(dl) \cup Range(ro)
<1>i. ASSUME NEW i \in 1 .. Len(d), mt[i] = NoID PROVE Writing(spc, d, c, mt, i)
  BY <1>i DEF Writing
<1> HIDE DEF wr, dl, ro
<1>11. wr \in Seq(U) /\ dl \in Seq(U) /\ ro \in Seq(U)
  <2>1. \A f : f \in Seq(Range(f)) /\ Range(f) \subseteq U => f \in Seq(U)
    OBVIOUS
  <2> QED BY <1>6, <1>8, <1>9, <2>1
<1> HIDE DEF U
<1>l. Len(wr) \in Nat /\ Len(dl) \in Nat /\ Len(ro) \in Nat
  BY <1>11
<1>12. s \in Seq(U) /\ InThree(s, wr, dl, ro)
  BY <1>1, <1>11, ThreeJoined
<1>13. /\ Len(s) = Len(wr) + Len(dl) + Len(ro)
       /\ \A k \in 1 .. Len(wr) : k \in DOMAIN s /\ s[k] = wr[k]
       /\ \A k \in 1 .. Len(dl) : Len(wr) + k \in DOMAIN s /\ s[Len(wr) + k] = dl[k]
       /\ \A k \in DOMAIN s : \/ k \in 1 .. Len(wr) /\ s[k] = wr[k]
                              \/ \E l \in 1 .. Len(dl) : k = Len(wr) + l /\ s[k] = dl[l]
                              \/ \E l \in 1 .. Len(ro) : k = Len(wr) + Len(dl) + l /\ s[k] = ro[l]
  BY <1>12 DEF InThree
<1>14. Len(dl) = 0
  <2> SUFFICES ASSUME Len(dl) # 0 PROVE FALSE
    OBVIOUS
  <2>1. 1 \in 1 .. Len(dl)
    BY <1>l
  <2>2. dl[1].op = "delete"
    BY <1>8, <2>1
  <2>3. Len(wr) + 1 \in DOMAIN s /\ s[Len(wr) + 1] = dl[1]
    BY <1>13, <2>1
  <2> QED BY <1>p, <2>2, <2>3
<1>15. ASSUME NEW k \in 1 .. Len(wr) PROVE wr[k].op = "update" /\ mt[of[k]] # NoID
  <2>1. wr[k].op # "create"
    BY <1>13, <1>p
  <2>2. wr[k].op = IF mt[of[k]] = NoID THEN "create" ELSE "update"
    <3>1. k \in 1 .. Len(of)
      BY <1>7
    <3>2. CreateStep(d[of[k]]).op = "create" /\ UpdateStep(mt[of[k]], Lacks(d, c, mt, of[k])).op = "update"
      BY DEF CreateStep, UpdateStep, Step
    <3> QED BY <1>7, <3>1, <3>2
  <2> QED BY <2>1, <2>2
<1>16. \A i \in 1 .. Len(d) : mt[i] # NoID
  <2> SUFFICES ASSUME NEW i \in 1 .. Len(d), mt[i] = NoID PROVE FALSE
    OBVIOUS
  <2>1. PICK k \in 1 .. Len(of) : of[k] = i
    BY <1>7, <1>i DEF In
  <2> QED BY <1>7, <1>15, <2>1
<1>17. mt \in Seq(DOMAIN m.rows) /\ Distinct(mt)
  <2>1. \A i \in 1 .. Len(mt) : mt[i] \in DOMAIN m.rows /\ mt[i] \notin {NoID, Ambiguous}
    BY <1>2, <1>16
  <2>2. mt \in Seq(DOMAIN m.rows)
    BY <1>2, <2>1, SeqIn
  <2> QED BY <1>2, <2>1, <2>2 DEF Apart, Distinct
<1>18. Placing(m, mt, ro, DOMAIN ro)
  BY <1>17, ReorderPlaces DEF c, ro
<1> DEFINE u == Len(wr)
<1>19. Beyond(DOMAIN s, u) = DOMAIN ro
  <2>1. DOMAIN s = 1 .. u + Len(ro) /\ DOMAIN ro = 1 .. Len(ro)
    BY <1>l, <1>11, <1>12, <1>13, <1>14
  <2> HIDE DEF u
  <2>2. u \in Nat
    BY <1>l DEF u
  <2>3. \A k \in Nat : (0 < k /\ u + k \in 1 .. u + Len(ro)) <=> k \in 1 .. Len(ro)
    BY <1>l, <2>2
  <2>4. 1 .. Len(ro) \subseteq Nat
    BY <1>l
  <2> QED BY <2>1, <2>3, <2>4 DEF Beyond
<1>20. ASSUME NEW k \in DOMAIN s
       PROVE  /\ k \in Nat
              /\ k <= u => s[k].op = "update"
              /\ k > u => s[k] = ro[k - u] /\ s[k].op = "move"
  <2>1. k \in Nat
    BY <1>12
  <2>2. CASE k \in 1 .. Len(wr) /\ s[k] = wr[k]
    BY <1>l, <1>15, <2>1, <2>2
  <2>3. CASE \E l \in 1 .. Len(dl) : k = Len(wr) + l /\ s[k] = dl[l]
    BY <1>14, <2>3
  <2>4. CASE \E l \in 1 .. Len(ro) : k = Len(wr) + Len(dl) + l /\ s[k] = ro[l]
    <3>1. PICK l \in 1 .. Len(ro) : k = Len(wr) + Len(dl) + l /\ s[k] = ro[l]
      BY <2>4
    <3>2. k - u = l /\ k > u
      BY <1>l, <1>14, <3>1
    <3>3. ~(k <= u)
      BY <1>l, <2>1, <3>2
    <3> QED BY <1>9, <2>1, <3>1, <3>2, <3>3
  <2> QED BY <1>13, <2>2, <2>3, <2>4
<1>21. Lining(m, mt, s, DOMAIN s)
  <2>1. u \in Nat /\ Placing(m, mt, ro, Beyond(DOMAIN s, u))
    BY <1>l, <1>18, <1>19
  <2> QED BY <1>20, <2>1 DEF Lining, Lined, Parted
<1> QED BY <1>21 DEF mt, s, c

\* The next of its steps: an update does not touch the order, and a move does not
\* touch the rows.
LEMMA LiningStep ==
  ASSUME NEW m, Orderly(m), NEW w \in Seq(DOMAIN m.rows), Distinct(w), NEW stps, NEW left,
         Lining(m, w, stps, left), NEW i \in left, \A j \in left : i <= j
  PROVE  /\ Lining(Perform(m, stps[i]), w, stps, left \ {i})
         /\ stps[i].op = "update" \/ (stps[i].op = "move" /\ SameRows(Perform(m, stps[i]), m))
<1>0. PICK u, mv : Lined(m, w, stps, left, u, mv)
  BY DEF Lining
<1>1. /\ u \in Nat /\ Placing(m, w, mv, Beyond(left, u))
      /\ \A k \in left : /\ k \in Nat
                         /\ k <= u => stps[k].op = "update"
                         /\ k > u => stps[k] = mv[k - u] /\ stps[k].op = "move"
  BY <1>0 DEF Lined, Parted
<1> DEFINE v    == Perform(m, stps[i])
           rest == left \ {i}
<1>2. i \in Nat /\ u \in Nat /\ Parted(stps, rest, u, mv)
  BY <1>0, <1>1 DEF Lined, Parted
<1>3. CASE i <= u
  <2>1. stps[i].op = "update"
    BY <1>1, <1>3
  <2>2. v.order = m.order
    BY <2>1 DEF Perform, Update
  <2>3. Beyond(rest, u) = Beyond(left, u)
    <3>1. \A k \in Nat : 0 < k => u + k # i
      BY <1>1, <1>2, <1>3
    <3> QED BY <3>1 DEF Beyond
  <2> HIDE DEF v, rest
  <2>4. \A k : Sorted(v, w, k) <=> Sorted(m, w, k)
    BY <2>2 DEF Sorted
  <2>5. Placing(v, w, mv, Beyond(rest, u))
    BY <1>1, <2>3, <2>4 DEF Placing
  <2>6. Lined(v, w, stps, rest, u, mv)
    BY <1>2, <2>5 DEF Lined
  <2> QED BY <2>1, <2>6 DEF v, rest, Lining
<1>4. CASE i > u
  <2> DEFINE t == Beyond(left, u)
             j == i - u
  <2>1. stps[i] = mv[j] /\ stps[i].op = "move"
    BY <1>1, <1>4
  <2>2. j \in t /\ \A k \in t : j <= k
    BY <1>1, <1>2, <1>4 DEF Beyond
  <2>3. Beyond(rest, u) = t \ {j}
    <3>1. \A k \in Nat : u + k = i <=> k = j
      BY <1>1, <1>2, <1>4
    <3> QED BY <3>1 DEF Beyond
  <2>4. Placing(m, w, mv, t)
    BY <1>1
  <2> HIDE DEF t, j
  <2>5. Placing(Perform(m, mv[j]), w, mv, t \ {j}) /\ SameRows(Perform(m, mv[j]), m)
    BY <2>2, <2>4, PlacingStep, Zenon
  <2>6. Placing(v, w, mv, Beyond(rest, u)) /\ SameRows(v, m)
    BY <2>1, <2>3, <2>5
  <2> HIDE DEF v, rest
  <2>7. Lined(v, w, stps, rest, u, mv)
    BY <1>2, <2>6 DEF Lined
  <2> QED BY <2>1, <2>6, <2>7 DEF v, rest, Lining
<1> QED BY <1>1, <1>3, <1>4
=============================================================================
