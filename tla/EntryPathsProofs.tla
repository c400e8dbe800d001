--------------------------- MODULE EntryPathsProofs ---------------------------
(***************************************************************************)
(* What the operators of EntryPaths compute, for sequences of any length   *)
(* and trees of any shape.                                                 *)
(***************************************************************************)
EXTENDS EntryPaths, SequenceTheorems, WellFoundedInduction, TLAPS

(***************************************************************************)
(* Induction over numbers and over sequences, for sets, and functions      *)
(* defined by recursion.                                                   *)
(***************************************************************************)
LEMMA NatInduct ==
    ASSUME NEW S, 0 \in S, \A n \in Nat : n \in S => n + 1 \in S
    PROVE  Nat \subseteq S
<1>1. ASSUME NEW T, T \subseteq Nat, T # {}
      PROVE  \E n \in T : \A m \in T : ~ (m < n)
  <2> DEFINE R == OpToRel(<, Nat)
  <2>1. IsWellFoundedOn(R, Nat)
    BY NatLessThanWellFounded
  <2>2. \E n \in T : \A m \in T : <<m, n>> \notin R
    <3> HIDE DEF R
    <3> QED  BY <1>1, <2>1, WFMin
  <2>3. \A m, n \in Nat : m < n => <<m, n>> \in R
    BY DEF OpToRel
  <2> QED  BY <1>1, <2>2, <2>3
<1> SUFFICES ASSUME Nat \ S # {} PROVE FALSE
  OBVIOUS
<1>2. PICK n \in Nat \ S : \A m \in Nat \ S : ~ (m < n)
  BY <1>1
<1>3. n # 0 /\ n - 1 \in Nat /\ n - 1 < n
  BY <1>2
<1>4. n - 1 \in S
  BY <1>2, <1>3
<1> QED  BY <1>2, <1>3, <1>4

\* Every set of sequences that has the empty one, and with a sequence all that are
\* one longer, has all sequences.
LEMMA SeqInduct ==
    ASSUME NEW S, NEW P, <<>> \in P,
           \A s \in Seq(S) : s \in P => \A e \in S : Append(s, e) \in P
    PROVE  Seq(S) \subseteq P
<1> DEFINE N == {n \in Nat : \A s \in Seq(S) : Len(s) = n => s \in P}
<1>1. 0 \in N
  OBVIOUS
<1>2. ASSUME NEW n \in Nat, n \in N PROVE n + 1 \in N
  <2> SUFFICES ASSUME NEW s \in Seq(S), Len(s) = n + 1 PROVE s \in P
    OBVIOUS
  <2> DEFINE front == SubSeq(s, 1, n)
  <2>1. front \in Seq(S) /\ Len(front) = n
    OBVIOUS
  <2>2. s[n + 1] \in S /\ s = Append(front, s[n + 1])
    <3>1. s[n + 1] \in S
      OBVIOUS
    <3>2. Append(front, s[n + 1]) \in Seq(S) /\ Len(Append(front, s[n + 1])) = n + 1
      BY <2>1, <3>1
    <3>3. \A i \in 1 .. n + 1 : Append(front, s[n + 1])[i] = s[i]
      BY <2>1, <3>1
    <3> HIDE DEF front
    <3> QED  BY <3>1, <3>2, <3>3, SeqEqual
  <2>3. front \in P
    BY <1>2, <2>1
  <2> HIDE DEF front
  <2> QED  BY <2>1, <2>2, <2>3
<1>3. Nat \subseteq N
  <2> HIDE DEF N
  <2> QED  BY <1>1, <1>2, NatInduct
<1> QED  BY <1>3

\* What D makes of a function f is at x determined by what f is at places of lower
\* rank than x.
Recursive(S, V, N, rank, D) ==
    /\ V # {} /\ N \in Nat /\ rank \in [S -> 0 .. N]
    /\ D \in [[S -> V] -> [S -> V]]
    /\ \A f, g \in [S -> V] : \A x \in S :
          (\A y \in S : rank[y] < rank[x] => f[y] = g[y]) => D[f][x] = D[g][x]

\* Then there is a function that D maps to itself.
LEMMA Recursion ==
    ASSUME NEW S, NEW V, NEW N, NEW rank, NEW D, Recursive(S, V, N, rank, D)
    PROVE  \E f \in [S -> V] : f = D[f]
<1>0. /\ V # {} /\ N \in Nat /\ rank \in [S -> 0 .. N]
      /\ D \in [[S -> V] -> [S -> V]]
      /\ \A f, g \in [S -> V] : \A x \in S :
            (\A y \in S : rank[y] < rank[x] => f[y] = g[y]) => D[f][x] = D[g][x]
  BY DEF Recursive
<1> DEFINE M == {n \in Nat : \E f \in [S -> V] : \A x \in S : rank[x] < n => f[x] = D[f][x]}
<1>1. 0 \in M
  <2>1. PICK v \in V : TRUE
    BY <1>0
  <2>2. [x \in S |-> v] \in [S -> V] /\ \A x \in S : ~ (rank[x] < 0)
    BY <1>0
  <2> QED  BY <2>2
<1>2. ASSUME NEW n \in Nat, n \in M PROVE n + 1 \in M
  <2>1. PICK f \in [S -> V] : \A x \in S : rank[x] < n => f[x] = D[f][x]
    BY <1>2
  <2>2. PICK g \in [S -> V] : g = D[f]
    BY <1>0
  <2>3. ASSUME NEW x \in S, rank[x] < n + 1 PROVE g[x] = D[g][x]
    <3>1. \A y \in S : rank[y] < rank[x] => f[y] = g[y]
      BY <2>1, <2>2, <2>3, <1>0
    <3> QED  BY <1>0, <2>2, <3>1
  <2> QED  BY <2>3
<1>3. N + 1 \in M
  <2> HIDE DEF M
  <2> QED  BY <1>0, <1>1, <1>2, NatInduct
<1>4. PICK f \in [S -> V] : \A x \in S : rank[x] < N + 1 => f[x] = D[f][x]
  BY <1>3
<1>5. D[f] \in [S -> V] /\ \A x \in S : rank[x] < N + 1
  BY <1>0
<1> QED  BY <1>4, <1>5

(***************************************************************************)
(* Only.                                                                   *)
(***************************************************************************)
IsOnly(f, s, T) ==
    f = [i \in 0 .. Len(s) |->
          IF i = 0 THEN <<>> ELSE IF s[i] \in T THEN Append(f[i - 1], s[i]) ELSE f[i - 1]]

LEMMA OnlySteps ==
    ASSUME NEW s, NEW T, NEW f, Len(s) \in Nat, IsOnly(f, s, T)
    PROVE  /\ f[0] = <<>>
           /\ \A i \in 0 .. Len(s), j \in 0 .. Len(s) : j = i + 1 =>
                f[j] = IF s[j] \in T THEN Append(f[i], s[j]) ELSE f[i]
<1>1. \A i \in 0 .. Len(s) :
         f[i] = IF i = 0 THEN <<>> ELSE IF s[i] \in T THEN Append(f[i - 1], s[i]) ELSE f[i - 1]
  BY DEF IsOnly
<1>2. ASSUME NEW i \in 0 .. Len(s), NEW j \in 0 .. Len(s), j = i + 1
      PROVE  f[j] = IF s[j] \in T THEN Append(f[i], s[j]) ELSE f[i]
  <2>1. j # 0 /\ j - 1 = i
    BY <1>2
  <2> QED  BY <1>1, <2>1
<1> QED  BY <1>1, <1>2

LEMMA OnlyDef ==
    ASSUME NEW S, NEW s \in Seq(S), NEW T
    PROVE  \E f \in [0 .. Len(s) -> Seq(S)] : IsOnly(f, s, T) /\ Only(s, T) = f[Len(s)]
<1> DEFINE I == 0 .. Len(s)
           step[f \in [I -> Seq(S)]] ==
             [i \in I |-> IF i = 0 THEN <<>>
                          ELSE IF s[i] \in T THEN Append(f[i - 1], s[i]) ELSE f[i - 1]]
<1>1. \A i \in I \ {0} : i - 1 \in I /\ s[i] \in S /\ i - 1 < i
  OBVIOUS
<1>2. step \in [[I -> Seq(S)] -> [I -> Seq(S)]]
  <2>1. ASSUME NEW f \in [I -> Seq(S)], NEW i \in I \ {0}
        PROVE  Append(f[i - 1], s[i]) \in Seq(S) /\ f[i - 1] \in Seq(S)
    BY <1>1, <2>1, AppendProperties
  <2> QED  BY <2>1, EmptySeq
<1>3. \E f \in [I -> Seq(S)] : f = step[f]
  <2> DEFINE rank == [i \in I |-> i]
  <2>1. Seq(S) # {} /\ Len(s) \in Nat /\ rank \in [I -> 0 .. Len(s)]
    BY EmptySeq
  <2>2. \A f, g \in [I -> Seq(S)] : \A x \in I :
          (\A y \in I : rank[y] < rank[x] => f[y] = g[y]) => step[f][x] = step[g][x]
    BY <1>1
  <2> HIDE DEF step, I, rank
  <2>3. Recursive(I, Seq(S), Len(s), rank, step)
    BY <1>2, <2>1, <2>2 DEF Recursive
  <2> QED  BY <2>3, Recursion
<1>4. PICK f : f \in [I -> Seq(S)] /\ IsOnly(f, s, T)
  BY <1>3 DEF IsOnly
<1>5. PICK g : IsOnly(g, s, T) /\ Only(s, T) = g[Len(s)]
  BY <1>4 DEF Only, IsOnly
<1>6. \A i \in I : g[i] = f[i]
  <2> DEFINE P == {i \in Nat : i \in I => g[i] = f[i]}
  <2>1. 0 \in P
    BY <1>4, <1>5, OnlySteps
  <2>2. ASSUME NEW i \in Nat, i \in P PROVE i + 1 \in P
    <3> SUFFICES ASSUME i + 1 \in I PROVE g[i + 1] = f[i + 1]
      OBVIOUS
    <3>1. PICK j \in I : j = i + 1
      OBVIOUS
    <3>2. Len(s) \in Nat /\ i \in I
      OBVIOUS
    <3>3. f[j] = IF s[j] \in T THEN Append(f[i], s[j]) ELSE f[i]
      BY <1>4, <3>1, <3>2, OnlySteps
    <3>4. g[j] = IF s[j] \in T THEN Append(g[i], s[j]) ELSE g[i]
      BY <1>5, <3>1, <3>2, OnlySteps
    <3> QED  BY <2>2, <3>1, <3>2, <3>3, <3>4
  <2>3. Nat \subseteq P
    <3> HIDE DEF P
    <3> QED  BY <2>1, <2>2, NatInduct
  <2> QED  BY <2>3
<1> QED  BY <1>4, <1>5, <1>6

LEMMA OnlyEmpty == \A T : Only(<<>>, T) = <<>>
<1> SUFFICES ASSUME NEW T PROVE Only(<<>>, T) = <<>>
  OBVIOUS
<1>1. <<>> \in Seq({}) /\ Len(<<>>) = 0
  OBVIOUS
<1>2. PICK f \in [0 .. Len(<<>>) -> Seq({})] : IsOnly(f, <<>>, T) /\ Only(<<>>, T) = f[Len(<<>>)]
  BY <1>1, OnlyDef
<1> QED  BY <1>1, <1>2 DEF IsOnly

LEMMA OnlyAppend ==
    ASSUME NEW S, NEW s \in Seq(S), NEW e \in S, NEW T
    PROVE  /\ Only(s, T) \in Seq(S)
           /\ Only(Append(s, e), T) = IF e \in T THEN Append(Only(s, T), e) ELSE Only(s, T)
<1>1. PICK t \in Seq(S) : t = Append(s, e) /\ Len(t) = Len(s) + 1 /\ t[Len(t)] = e
                          /\ \A i \in 1 .. Len(s) : t[i] = s[i]
  <2>1. /\ Append(s, e) \in Seq(S) /\ Len(Append(s, e)) = Len(s) + 1
        /\ \A i \in 1 .. Len(s) : Append(s, e)[i] = s[i]
        /\ Append(s, e)[Len(s) + 1] = e
    BY AppendProperties
  <2> QED  BY <2>1
<1>2. PICK f \in [0 .. Len(s) -> Seq(S)] : IsOnly(f, s, T) /\ Only(s, T) = f[Len(s)]
  BY OnlyDef
<1>3. PICK g \in [0 .. Len(t) -> Seq(S)] : IsOnly(g, t, T) /\ Only(t, T) = g[Len(t)]
  BY OnlyDef
<1>4. \A i \in 0 .. Len(s) : g[i] = f[i]
  <2> DEFINE P == {i \in Nat : i \in 0 .. Len(s) => g[i] = f[i]}
  <2>1. 0 \in P
    BY <1>1, <1>2, <1>3, OnlySteps
  <2>2. ASSUME NEW i \in Nat, i \in P PROVE i + 1 \in P
    <3> SUFFICES ASSUME i + 1 \in 0 .. Len(s) PROVE g[i + 1] = f[i + 1]
      OBVIOUS
    <3>1. PICK j \in 1 .. Len(s) : j = i + 1
      OBVIOUS
    <3>2. /\ Len(s) \in Nat /\ i \in 0 .. Len(s) /\ j \in 0 .. Len(s)
          /\ Len(t) \in Nat /\ i \in 0 .. Len(t) /\ j \in 0 .. Len(t)
      BY <1>1
    <3>3. f[j] = IF s[j] \in T THEN Append(f[i], s[j]) ELSE f[i]
      BY <1>2, <3>1, <3>2, OnlySteps
    <3>4. g[j] = IF t[j] \in T THEN Append(g[i], t[j]) ELSE g[i]
      BY <1>3, <3>1, <3>2, OnlySteps
    <3> QED  BY <1>1, <2>2, <3>1, <3>2, <3>3, <3>4
  <2>3. Nat \subseteq P
    <3> HIDE DEF P
    <3> QED  BY <2>1, <2>2, NatInduct
  <2> QED  BY <2>3
<1>5. g[Len(t)] = IF e \in T THEN Append(g[Len(s)], e) ELSE g[Len(s)]
  <2>1. /\ Len(t) \in Nat /\ Len(s) \in 0 .. Len(t) /\ Len(t) \in 0 .. Len(t)
        /\ Len(t) = Len(s) + 1
    BY <1>1
  <2>2. g[Len(t)] = IF t[Len(t)] \in T THEN Append(g[Len(s)], t[Len(t)]) ELSE g[Len(s)]
    BY <1>3, <2>1, OnlySteps
  <2> QED  BY <1>1, <2>2
<1>6. f[Len(s)] \in Seq(S) /\ g[Len(s)] = f[Len(s)]
  BY <1>2, <1>4
<1> QED  BY <1>1, <1>2, <1>3, <1>5, <1>6

LEMMA SetOfSeq ==
    ASSUME NEW S, NEW s \in Seq(S)
    PROVE  /\ ToSet(s) \subseteq S
           /\ \A x : x \in ToSet(s) <=> \E i \in 1 .. Len(s) : s[i] = x
           /\ \A e \in S : ToSet(Append(s, e)) = ToSet(s) \cup {e}
<1>1. DOMAIN s = 1 .. Len(s) /\ Len(s) \in Nat /\ \A i \in 1 .. Len(s) : s[i] \in S
  BY ElementOfSeq
<1>2. ASSUME NEW e \in S PROVE ToSet(Append(s, e)) = ToSet(s) \cup {e}
  <2>1. PICK t : /\ t = Append(s, e) /\ DOMAIN t = 1 .. Len(s) + 1
                 /\ \A i \in 1 .. Len(s) : t[i] = s[i]
                 /\ t[Len(s) + 1] = e
    <3>1. /\ Append(s, e) \in Seq(S) /\ Len(Append(s, e)) = Len(s) + 1
          /\ \A i \in 1 .. Len(s) : Append(s, e)[i] = s[i]
          /\ Append(s, e)[Len(s) + 1] = e
      BY AppendProperties
    <3>2. DOMAIN Append(s, e) = 1 .. Len(Append(s, e))
      BY <3>1
    <3> QED  BY <3>1, <3>2
  <2>2. ToSet(t) \subseteq ToSet(s) \cup {e}
    BY <1>1, <2>1 DEF ToSet
  <2>3. Len(s) + 1 \in DOMAIN t /\ \A i \in 1 .. Len(s) : i \in DOMAIN t
    BY <1>1, <2>1
  <2>4. ToSet(s) \cup {e} \subseteq ToSet(t)
    BY <1>1, <2>1, <2>3 DEF ToSet
  <2> QED  BY <2>1, <2>2, <2>4
<1> QED  BY <1>1, <1>2 DEF ToSet

LEMMA ConcatSet ==
    ASSUME NEW S, NEW s \in Seq(S), NEW t \in Seq(S)
    PROVE  s \o t \in Seq(S) /\ ToSet(s \o t) = ToSet(s) \cup ToSet(t)
<1>1. PICK u \in Seq(S) : /\ u = s \o t /\ Len(u) = Len(s) + Len(t)
                         /\ \A i \in 1 .. Len(u) :
                              u[i] = IF i <= Len(s) THEN s[i] ELSE t[i - Len(s)]
  <2>1. /\ s \o t \in Seq(S) /\ Len(s \o t) = Len(s) + Len(t)
        /\ \A i \in 1 .. Len(s) + Len(t) :
             (s \o t)[i] = IF i <= Len(s) THEN s[i] ELSE t[i - Len(s)]
    BY ConcatProperties
  <2> QED  BY <2>1
<1>2. ToSet(u) \subseteq ToSet(s) \cup ToSet(t)
  <2> SUFFICES ASSUME NEW i \in 1 .. Len(u) PROVE u[i] \in ToSet(s) \cup ToSet(t)
    BY SetOfSeq
  <2>1. i <= Len(s) => i \in 1 .. Len(s)
    OBVIOUS
  <2>2. ~ (i <= Len(s)) => i - Len(s) \in 1 .. Len(t)
    BY <1>1
  <2> QED  BY <1>1, <2>1, <2>2, SetOfSeq
<1>3. ASSUME NEW i \in 1 .. Len(s) PROVE s[i] \in ToSet(u)
  <2>1. i \in 1 .. Len(u) /\ u[i] = s[i]
    BY <1>1
  <2> QED  BY <2>1, SetOfSeq
<1>4. ASSUME NEW i \in 1 .. Len(t) PROVE t[i] \in ToSet(u)
  <2>1. PICK j \in 1 .. Len(u) : j = i + Len(s)
    BY <1>1
  <2>2. ~ (j <= Len(s)) /\ j - Len(s) = i
    BY <2>1
  <2>3. u[j] = t[i]
    BY <1>1, <2>2
  <2> QED  BY <2>3, SetOfSeq
<1>5. ToSet(s) \subseteq ToSet(u) /\ ToSet(t) \subseteq ToSet(u)
  <2>1. \A x \in ToSet(s) : \E i \in 1 .. Len(s) : s[i] = x
    BY SetOfSeq
  <2>2. \A x \in ToSet(t) : \E i \in 1 .. Len(t) : t[i] = x
    BY SetOfSeq
  <2> QED  BY <1>3, <1>4, <2>1, <2>2
<1> QED  BY <1>1, <1>2, <1>5

LEMMA SetOfEmpty == ToSet(<<>>) = {}
BY DEF ToSet

LEMMA OnlySet ==
    ASSUME NEW S, NEW s \in Seq(S), NEW T
    PROVE  Only(s, T) \in Seq(S) /\ ToSet(Only(s, T)) = ToSet(s) \cap T
<1> DEFINE P == {t \in Seq(S) : Only(t, T) \in Seq(S) /\ ToSet(Only(t, T)) = ToSet(t) \cap T}
<1>1. <<>> \in P
  BY OnlyEmpty, EmptySeq, SetOfEmpty
<1>2. ASSUME NEW t \in Seq(S), t \in P, NEW e \in S PROVE Append(t, e) \in P
  <2>1. Append(t, e) \in Seq(S) /\ Append(Only(t, T), e) \in Seq(S)
    BY <1>2, AppendProperties
  <2>2. Only(Append(t, e), T) = IF e \in T THEN Append(Only(t, T), e) ELSE Only(t, T)
    BY OnlyAppend
  <2>3. /\ ToSet(Append(t, e)) = ToSet(t) \cup {e}
        /\ ToSet(Append(Only(t, T), e)) = ToSet(Only(t, T)) \cup {e}
    BY <1>2, SetOfSeq
  <2> QED  BY <1>2, <2>1, <2>2, <2>3
<1>3. Seq(S) \subseteq P
  <2> HIDE DEF P
  <2> QED  BY <1>1, <1>2, SeqInduct
<1> QED  BY <1>3

\* Nothing is taken out, or everything is.
LEMMA OnlyAll ==
    ASSUME NEW S, NEW s \in Seq(S), NEW T
    PROVE  /\ ToSet(s) \subseteq T => Only(s, T) = s
           /\ ToSet(s) \cap T = {} => Only(s, T) = <<>>
<1> DEFINE P == {t \in Seq(S) : /\ ToSet(t) \subseteq T => Only(t, T) = t
                                /\ ToSet(t) \cap T = {} => Only(t, T) = <<>>}
<1>1. <<>> \in P
  BY OnlyEmpty, EmptySeq
<1>2. ASSUME NEW t \in Seq(S), t \in P, NEW e \in S PROVE Append(t, e) \in P
  <2>1. Append(t, e) \in Seq(S)
    BY AppendProperties
  <2>2. Only(Append(t, e), T) = IF e \in T THEN Append(Only(t, T), e) ELSE Only(t, T)
    BY OnlyAppend
  <2>3. ToSet(Append(t, e)) = ToSet(t) \cup {e}
    BY SetOfSeq
  <2> QED  BY <1>2, <2>1, <2>2, <2>3
<1>3. Seq(S) \subseteq P
  <2> HIDE DEF P
  <2> QED  BY <1>1, <1>2, SeqInduct
<1> QED  BY <1>3

LEMMA ConcatAppend ==
    ASSUME NEW S, NEW s \in Seq(S), NEW t \in Seq(S), NEW e \in S
    PROVE  /\ Append(s \o t, e) = s \o Append(t, e)
           /\ s \o <<e>> = Append(s, e) /\ s \o <<>> = s /\ <<>> \o s = s
           /\ s \o t \in Seq(S)
OBVIOUS

LEMMA OnlyConcat ==
    ASSUME NEW S, NEW s \in Seq(S), NEW t \in Seq(S), NEW T
    PROVE  Only(s \o t, T) = Only(s, T) \o Only(t, T)
<1>0. /\ \A v \in Seq(S), e \in S :
             Only(Append(v, e), T) = IF e \in T THEN Append(Only(v, T), e) ELSE Only(v, T)
      /\ \A v, w \in Seq(S), e \in S : Append(v \o w, e) = v \o Append(w, e)
  <2>1. ASSUME NEW v \in Seq(S), NEW e \in S
        PROVE  Only(Append(v, e), T) = IF e \in T THEN Append(Only(v, T), e) ELSE Only(v, T)
    BY OnlyAppend
  <2>2. ASSUME NEW v \in Seq(S), NEW w \in Seq(S), NEW e \in S
        PROVE  Append(v \o w, e) = v \o Append(w, e)
    BY SMTT(60), ConcatAppend
  <2> QED  BY <2>1, <2>2
<1> DEFINE P == {u \in Seq(S) : Only(s \o u, T) = Only(s, T) \o Only(u, T)}
<1>1. <<>> \in P
  <2>1. s \o <<>> = s /\ Only(s, T) \o <<>> = Only(s, T)
    BY OnlySet
  <2> QED  BY <2>1, OnlyEmpty, EmptySeq
<1>2. ASSUME NEW u \in Seq(S), u \in P, NEW e \in S PROVE Append(u, e) \in P
  <2>1. Append(u, e) \in Seq(S)
    BY AppendProperties
  <2>2. Only(Append(u, e), T) = IF e \in T THEN Append(Only(u, T), e) ELSE Only(u, T)
    BY OnlyAppend
  <2>3. s \o u \in Seq(S) /\ s \o Append(u, e) = Append(s \o u, e)
    BY ConcatAppend
  <2>4. PICK v \in Seq(S) : v = s \o u
    BY <2>3
  <2>7. Only(Append(v, e), T) = IF e \in T THEN Append(Only(v, T), e) ELSE Only(v, T)
    BY <1>0, <2>4
  <2>5. Only(s, T) \in Seq(S) /\ Only(u, T) \in Seq(S)
    BY OnlySet
  <2>6. Append(Only(s, T) \o Only(u, T), e) = Only(s, T) \o Append(Only(u, T), e)
    BY <1>0, <2>5
  <2> QED  BY <1>2, <2>1, <2>2, <2>3, <2>4, <2>6, <2>7
<1>3. Seq(S) \subseteq P
  <2> HIDE DEF P
  <2> QED  BY <1>1, <1>2, SeqInduct
<1> QED  BY <1>3

(***************************************************************************)
(* Walks.                                                                  *)
(***************************************************************************)
Longer(w, e, walk) == w \o <<e>> \o walk[e]

IsWalked(f, list, walk) ==
    f = [i \in 0 .. Len(list) |->
          IF i = 0 THEN <<>> ELSE Longer(f[i - 1], list[i], walk)]

Walks(walk, L) == \A e \in L : walk[e] \in Seq(Entries)

LEMMA WalkedSteps ==
    ASSUME NEW list, NEW walk, NEW f, Len(list) \in Nat, IsWalked(f, list, walk)
    PROVE  /\ f[0] = <<>>
           /\ \A i \in 0 .. Len(list), j \in 0 .. Len(list) : j = i + 1 =>
                f[j] = Longer(f[i], list[j], walk)
<1>1. \A i \in 0 .. Len(list) :
         f[i] = IF i = 0 THEN <<>> ELSE Longer(f[i - 1], list[i], walk)
  BY DEF IsWalked
<1>2. ASSUME NEW i \in 0 .. Len(list), NEW j \in 0 .. Len(list), j = i + 1
      PROVE  f[j] = Longer(f[i], list[j], walk)
  <2>1. j # 0 /\ j - 1 = i
    BY <1>2
  <2> QED  BY <1>1, <2>1
<1> QED  BY <1>1, <1>2

LEMMA WalkedType ==
    ASSUME NEW s \in Seq(Entries), NEW e \in Entries, NEW walk, walk[e] \in Seq(Entries)
    PROVE  Longer(s, e, walk) \in Seq(Entries)
BY ConcatProperties DEF Longer

LEMMA WalkedDef ==
    ASSUME NEW list \in Seq(Entries), NEW walk, Walks(walk, ToSet(list))
    PROVE  \E f \in [0 .. Len(list) -> Seq(Entries)] :
              IsWalked(f, list, walk) /\ Walked(list, walk) = f[Len(list)]
<1> DEFINE I == 0 .. Len(list)
           step[f \in [I -> Seq(Entries)]] ==
             [i \in I |-> IF i = 0 THEN <<>> ELSE Longer(f[i - 1], list[i], walk)]
<1>1. \A i \in I \ {0} : i - 1 \in I /\ list[i] \in Entries /\ walk[list[i]] \in Seq(Entries)
                        /\ i - 1 < i
  BY DEF Walks, ToSet
<1>2. step \in [[I -> Seq(Entries)] -> [I -> Seq(Entries)]]
  <2>1. ASSUME NEW f \in [I -> Seq(Entries)], NEW i \in I \ {0}
        PROVE  Longer(f[i - 1], list[i], walk) \in Seq(Entries)
    BY <1>1, <2>1, WalkedType
  <2> QED  BY <2>1, EmptySeq
<1>3. \E f \in [I -> Seq(Entries)] : f = step[f]
  <2> DEFINE rank == [i \in I |-> i]
  <2>1. Seq(Entries) # {} /\ Len(list) \in Nat /\ rank \in [I -> 0 .. Len(list)]
    BY EmptySeq
  <2>2. \A f, g \in [I -> Seq(Entries)] : \A x \in I :
          (\A y \in I : rank[y] < rank[x] => f[y] = g[y]) => step[f][x] = step[g][x]
    BY <1>1
  <2> HIDE DEF step, I, rank
  <2>3. Recursive(I, Seq(Entries), Len(list), rank, step)
    BY <1>2, <2>1, <2>2 DEF Recursive
  <2> QED  BY <2>3, Recursion
<1>4. PICK f : f \in [I -> Seq(Entries)] /\ IsWalked(f, list, walk)
  BY <1>3 DEF IsWalked
<1>5. PICK g : IsWalked(g, list, walk) /\ Walked(list, walk) = g[Len(list)]
  BY <1>4 DEF Walked, IsWalked, Longer
<1>6. \A i \in I : g[i] = f[i]
  <2> DEFINE P == {i \in Nat : i \in I => g[i] = f[i]}
  <2>1. 0 \in P
    BY <1>4, <1>5, WalkedSteps
  <2>2. ASSUME NEW i \in Nat, i \in P PROVE i + 1 \in P
    <3> SUFFICES ASSUME i + 1 \in I PROVE g[i + 1] = f[i + 1]
      OBVIOUS
    <3>1. PICK j \in I : j = i + 1
      OBVIOUS
    <3>2. Len(list) \in Nat /\ i \in I
      OBVIOUS
    <3>3. f[j] = Longer(f[i], list[j], walk)
      BY <1>4, <3>1, <3>2, WalkedSteps
    <3>4. g[j] = Longer(g[i], list[j], walk)
      BY <1>5, <3>1, <3>2, WalkedSteps
    <3> QED  BY <2>2, <3>1, <3>2, <3>3, <3>4
  <2>3. Nat \subseteq P
    <3> HIDE DEF P
    <3> QED  BY <2>1, <2>2, NatInduct
  <2> QED  BY <2>3
<1> QED  BY <1>4, <1>5, <1>6

LEMMA WalkedEmpty == \A walk : Walked(<<>>, walk) = <<>>
<1> SUFFICES ASSUME NEW walk PROVE Walked(<<>>, walk) = <<>>
  OBVIOUS
<1>1. <<>> \in Seq(Entries) /\ Len(<<>>) = 0 /\ Walks(walk, ToSet(<<>>))
  BY SetOfEmpty DEF Walks
<1>2. PICK f \in [0 .. Len(<<>>) -> Seq(Entries)] :
        IsWalked(f, <<>>, walk) /\ Walked(<<>>, walk) = f[Len(<<>>)]
  BY <1>1, WalkedDef
<1> QED  BY <1>1, <1>2 DEF IsWalked

LEMMA WalkedAppend ==
    ASSUME NEW s \in Seq(Entries), NEW e \in Entries, NEW walk,
           Walks(walk, ToSet(Append(s, e)))
    PROVE  /\ Walked(s, walk) \in Seq(Entries)
           /\ Walked(Append(s, e), walk) = Walked(s, walk) \o <<e>> \o walk[e]
<1>1. PICK t \in Seq(Entries) : /\ t = Append(s, e) /\ Len(t) = Len(s) + 1 /\ t[Len(t)] = e
                                /\ \A i \in 1 .. Len(s) : t[i] = s[i]
  <2>1. /\ Append(s, e) \in Seq(Entries) /\ Len(Append(s, e)) = Len(s) + 1
        /\ \A i \in 1 .. Len(s) : Append(s, e)[i] = s[i]
        /\ Append(s, e)[Len(s) + 1] = e
    BY AppendProperties
  <2> QED  BY <2>1
<1>2. Walks(walk, ToSet(s)) /\ Walks(walk, ToSet(t))
  BY <1>1, SetOfSeq DEF Walks
<1>3. PICK f : /\ f \in [0 .. Len(s) -> Seq(Entries)] /\ IsWalked(f, s, walk)
               /\ Walked(s, walk) = f[Len(s)]
  BY <1>2, WalkedDef
<1>4. PICK g : /\ g \in [0 .. Len(t) -> Seq(Entries)] /\ IsWalked(g, t, walk)
               /\ Walked(t, walk) = g[Len(t)]
  BY <1>2, WalkedDef
<1>5. \A i \in 0 .. Len(s) : g[i] = f[i]
  <2> DEFINE P == {i \in Nat : i \in 0 .. Len(s) => g[i] = f[i]}
  <2>1. 0 \in P
    BY <1>1, <1>3, <1>4, WalkedSteps
  <2>2. ASSUME NEW i \in Nat, i \in P PROVE i + 1 \in P
    <3> SUFFICES ASSUME i + 1 \in 0 .. Len(s) PROVE g[i + 1] = f[i + 1]
      OBVIOUS
    <3>1. PICK j \in 1 .. Len(s) : j = i + 1
      OBVIOUS
    <3>2. /\ Len(s) \in Nat /\ i \in 0 .. Len(s) /\ j \in 0 .. Len(s)
          /\ Len(t) \in Nat /\ i \in 0 .. Len(t) /\ j \in 0 .. Len(t)
      BY <1>1
    <3>3. f[j] = Longer(f[i], s[j], walk)
      BY <1>3, <3>1, <3>2, WalkedSteps
    <3>4. g[j] = Longer(g[i], t[j], walk)
      BY <1>4, <3>1, <3>2, WalkedSteps
    <3> QED  BY <1>1, <2>2, <3>1, <3>2, <3>3, <3>4
  <2>3. Nat \subseteq P
    <3> HIDE DEF P
    <3> QED  BY <2>1, <2>2, NatInduct
  <2> QED  BY <2>3
<1>6. g[Len(t)] = Longer(g[Len(s)], e, walk)
  <2>1. /\ Len(t) \in Nat /\ Len(s) \in 0 .. Len(t) /\ Len(t) \in 0 .. Len(t)
        /\ Len(t) = Len(s) + 1
    BY <1>1
  <2>2. g[Len(t)] = Longer(g[Len(s)], t[Len(t)], walk)
    BY <1>4, <2>1, WalkedSteps
  <2> QED  BY <1>1, <2>2
<1>7. f[Len(s)] \in Seq(Entries) /\ g[Len(s)] = f[Len(s)]
  BY <1>3, <1>5
<1> QED  BY <1>1, <1>3, <1>4, <1>6, <1>7 DEF Longer

LEMMA WalkedSet ==
    ASSUME NEW list \in Seq(Entries), NEW walk, Walks(walk, ToSet(list))
    PROVE  /\ Walked(list, walk) \in Seq(Entries)
           /\ ToSet(Walked(list, walk)) = ToSet(list) \cup UNION {ToSet(walk[e]) : e \in ToSet(list)}
<1> DEFINE P == {s \in Seq(Entries) :
                   Walks(walk, ToSet(s)) =>
                     /\ Walked(s, walk) \in Seq(Entries)
                     /\ ToSet(Walked(s, walk)) = ToSet(s) \cup UNION {ToSet(walk[e]) : e \in ToSet(s)}}
<1>1. <<>> \in P
  BY WalkedEmpty, SetOfEmpty, EmptySeq
<1>2. ASSUME NEW s \in Seq(Entries), s \in P, NEW e \in Entries PROVE Append(s, e) \in P
  <2>1. Append(s, e) \in Seq(Entries) /\ ToSet(Append(s, e)) = ToSet(s) \cup {e}
    BY AppendProperties, SetOfSeq
  <2> SUFFICES ASSUME Walks(walk, ToSet(Append(s, e)))
               PROVE  /\ Walked(Append(s, e), walk) \in Seq(Entries)
                      /\ ToSet(Walked(Append(s, e), walk))
                           = ToSet(Append(s, e))
                               \cup UNION {ToSet(walk[x]) : x \in ToSet(Append(s, e))}
    BY <2>1
  <2>2. Walks(walk, ToSet(s)) /\ walk[e] \in Seq(Entries)
    BY <2>1 DEF Walks
  <2>3. PICK w \in Seq(Entries) :
           w = Walked(s, walk) /\ Walked(Append(s, e), walk) = w \o <<e>> \o walk[e]
    BY WalkedAppend
  <2>4. PICK v \in Seq(Entries) : v = walk[e]
    BY <2>2
  <2>5. w \o <<e>> \o v \in Seq(Entries) /\ ToSet(w \o <<e>> \o v) = ToSet(w) \cup {e} \cup ToSet(v)
    <3>1. PICK u \in Seq(Entries) : u = w \o <<e>> /\ u = Append(w, e)
      <4>1. Append(w, e) \in Seq(Entries)
        BY AppendProperties
      <4>2. w \o <<e>> = Append(w, e)
        OBVIOUS
      <4> QED  BY <4>1, <4>2
    <3>2. ToSet(u) = ToSet(w) \cup {e}
      BY <3>1, SetOfSeq
    <3>3. u \o v \in Seq(Entries) /\ ToSet(u \o v) = ToSet(u) \cup ToSet(v)
      BY ConcatSet
    <3> QED  BY <3>1, <3>2, <3>3
  <2>6. ToSet(w) = ToSet(s) \cup UNION {ToSet(walk[x]) : x \in ToSet(s)}
    BY <1>2, <2>2, <2>3
  <2> QED  BY <2>1, <2>3, <2>4, <2>5, <2>6
<1>3. Seq(Entries) \subseteq P
  <2> HIDE DEF P
  <2> QED  BY <1>1, <1>2, SeqInduct
<1> QED  BY <1>3

\* A walk depends on what there is of the entries of the list only.
LEMMA WalkedSame ==
    ASSUME NEW list \in Seq(Entries), NEW walk, NEW other, Walks(walk, ToSet(list)),
           \A e \in ToSet(list) : other[e] = walk[e]
    PROVE  Walked(list, other) = Walked(list, walk)
<1> DEFINE P == {s \in Seq(Entries) :
                   Walks(walk, ToSet(s)) /\ (\A e \in ToSet(s) : other[e] = walk[e])
                     => Walked(s, other) = Walked(s, walk)}
<1>1. <<>> \in P
  BY WalkedEmpty, EmptySeq
<1>2. ASSUME NEW s \in Seq(Entries), s \in P, NEW e \in Entries PROVE Append(s, e) \in P
  <2>1. Append(s, e) \in Seq(Entries) /\ ToSet(Append(s, e)) = ToSet(s) \cup {e}
    BY AppendProperties, SetOfSeq
  <2> SUFFICES ASSUME Walks(walk, ToSet(Append(s, e))),
                      \A x \in ToSet(Append(s, e)) : other[x] = walk[x]
               PROVE  Walked(Append(s, e), other) = Walked(Append(s, e), walk)
    BY <2>1
  <2>2. Walks(walk, ToSet(s)) /\ Walks(other, ToSet(Append(s, e))) /\ other[e] = walk[e]
    BY <2>1 DEF Walks
  <2>3. Walked(s, other) = Walked(s, walk)
    BY <1>2, <2>1, <2>2
  <2>4. Walked(Append(s, e), walk) = Walked(s, walk) \o <<e>> \o walk[e]
    BY WalkedAppend
  <2>5. Walked(Append(s, e), other) = Walked(s, other) \o <<e>> \o other[e]
    BY <2>2, WalkedAppend
  <2> QED  BY <2>2, <2>3, <2>4, <2>5
<1>3. Seq(Entries) \subseteq P
  <2> HIDE DEF P
  <2> QED  BY <1>1, <1>2, SeqInduct
<1> QED  BY <1>3

Lists(kids) == kids \in [Places -> Seq(Entries)]

\* Each place has a height, and the entries of a list are less high than the
\* directory.
Heights(kids, N, h) ==
    /\ N \in Nat /\ h \in [Places -> 0 .. N]
    /\ \A d \in Places : \A e \in ToSet(kids[d]) : h[e] < h[d]

Founded(kids) == \E N, h : Heights(kids, N, h)

LEMMA PreorderDef ==
    ASSUME NEW kids, Lists(kids), Founded(kids)
    PROVE  \E w \in [Places -> Seq(Entries)] :
              \A d \in Places : w[d] = Walked(kids[d], w) /\ Preorder(kids, d) = w[d]
<1>1. PICK N, h : Heights(kids, N, h)
  BY DEF Founded
<1>2. /\ \A d \in Places : kids[d] \in Seq(Entries) /\ ToSet(kids[d]) \subseteq Entries
      /\ Entries \subseteq Places
  BY SetOfSeq DEF Lists, Places
<1> DEFINE F == [Places -> Seq(Entries)]
           step[w \in F] == [d \in Places |-> Walked(kids[d], w)]
<1>3. ASSUME NEW w \in F, NEW d \in Places
      PROVE  Walks(w, ToSet(kids[d])) /\ Walked(kids[d], w) \in Seq(Entries)
  <2>1. Walks(w, ToSet(kids[d]))
    BY <1>2 DEF Walks
  <2> QED  BY <1>2, <2>1, WalkedSet
<1>4. step \in [F -> F]
  BY <1>3
<1>5. \A v, w \in F : \A d \in Places :
         (\A e \in Places : h[e] < h[d] => v[e] = w[e]) => step[v][d] = step[w][d]
  <2> SUFFICES ASSUME NEW v \in F, NEW w \in F, NEW d \in Places,
                      \A e \in Places : h[e] < h[d] => v[e] = w[e]
               PROVE  Walked(kids[d], v) = Walked(kids[d], w)
    OBVIOUS
  <2>1. \A e \in ToSet(kids[d]) : v[e] = w[e]
    BY <1>1, <1>2 DEF Heights
  <2> HIDE DEF F
  <2> QED  BY <1>2, <1>3, <2>1, WalkedSame
<1>6. PICK w : w \in F /\ w = step[w]
  <2> HIDE DEF step
  <2>1. Seq(Entries) # {}
    BY EmptySeq
  <2>2. Recursive(Places, Seq(Entries), N, h, step)
    BY <1>1, <1>4, <1>5, <2>1 DEF Recursive, Heights
  <2> QED  BY <2>2, Recursion
<1>7. w = [d \in Places |-> Walked(kids[d], w)]
  BY <1>6
<1>8. PICK v : /\ v = [d \in Places |-> Walked(kids[d], v)]
               /\ \A d \in Places : Preorder(kids, d) = v[d]
  BY <1>7 DEF Preorder
<1>9. ASSUME NEW d \in Places PROVE v[d] = w[d]
  <2> DEFINE P == {n \in Nat : \A x \in Places : h[x] < n => v[x] = w[x]}
  <2>1. 0 \in P
    BY <1>1 DEF Heights
  <2>2. ASSUME NEW n \in Nat, n \in P PROVE n + 1 \in P
    <3> SUFFICES ASSUME NEW x \in Places, h[x] < n + 1 PROVE v[x] = w[x]
      OBVIOUS
    <3>1. \A e \in ToSet(kids[x]) : v[e] = w[e]
      BY <1>1, <1>2, <2>2 DEF Heights
    <3>2. Walks(w, ToSet(kids[x])) /\ kids[x] \in Seq(Entries)
      BY <1>2, <1>3, <1>6
    <3>3. Walked(kids[x], v) = Walked(kids[x], w)
      BY <3>1, <3>2, WalkedSame
    <3> QED  BY <1>7, <1>8, <3>3
  <2>3. Nat \subseteq P
    <3> HIDE DEF P
    <3> QED  BY <2>1, <2>2, NatInduct
  <2>4. h[d] + 1 \in P /\ h[d] < h[d] + 1
    BY <1>1, <2>3 DEF Heights
  <2> QED  BY <2>4
<1> QED  BY <1>6, <1>7, <1>8, <1>9

LEMMA DescendantsDef ==
    ASSUME NEW kids, Lists(kids), Founded(kids)
    PROVE  \A d \in Places :
              /\ Descendants(kids, d) \subseteq Entries
              /\ Descendants(kids, d)
                   = ToSet(kids[d]) \cup UNION {Descendants(kids, e) : e \in ToSet(kids[d])}
<1>1. PICK w \in [Places -> Seq(Entries)] :
        \A d \in Places : w[d] = Walked(kids[d], w) /\ Preorder(kids, d) = w[d]
  BY PreorderDef
<1> SUFFICES ASSUME NEW d \in Places
             PROVE  /\ Descendants(kids, d) \subseteq Entries
                    /\ Descendants(kids, d)
                         = ToSet(kids[d]) \cup UNION {Descendants(kids, e) : e \in ToSet(kids[d])}
  OBVIOUS
<1>2. kids[d] \in Seq(Entries) /\ ToSet(kids[d]) \subseteq Places
  BY SetOfSeq DEF Lists, Places
<1>3. Walks(w, ToSet(kids[d]))
  BY <1>2 DEF Walks
<1>4. ToSet(Walked(kids[d], w)) = ToSet(kids[d]) \cup UNION {ToSet(w[e]) : e \in ToSet(kids[d])}
  BY <1>2, <1>3, WalkedSet
<1>5. \A x \in Places : Descendants(kids, x) = ToSet(w[x]) /\ ToSet(w[x]) \subseteq Entries
  BY <1>1, SetOfSeq DEF Descendants
<1>6. UNION {ToSet(w[e]) : e \in ToSet(kids[d])} = UNION {Descendants(kids, e) : e \in ToSet(kids[d])}
  BY <1>2, <1>5
<1> QED  BY <1>1, <1>4, <1>5, <1>6

LEMMA HeightInduct ==
    ASSUME NEW kids, NEW N, NEW h, Heights(kids, N, h), NEW P,
           \A d \in Places : (\A e \in Places : h[e] < h[d] => e \in P) => d \in P
    PROVE  Places \subseteq P
<1>1. N \in Nat /\ \A d \in Places : h[d] \in 0 .. N
  BY DEF Heights
<1> DEFINE M == {n \in Nat : \A d \in Places : h[d] < n => d \in P}
<1>2. 0 \in M
  BY <1>1
<1>3. ASSUME NEW n \in Nat, n \in M PROVE n + 1 \in M
  <2> SUFFICES ASSUME NEW d \in Places, h[d] < n + 1 PROVE d \in P
    OBVIOUS
  <2>1. \A e \in Places : h[e] < h[d] => e \in P
    BY <1>1, <1>3
  <2> QED  BY <2>1
<1>4. Nat \subseteq M
  <2> HIDE DEF M
  <2> QED  BY <1>2, <1>3, NatInduct
<1>5. N + 1 \in M
  BY <1>1, <1>4
<1> QED  BY <1>1, <1>5

\* What is below an entry below d is below d, and d is not below itself.
LEMMA DescendantsClosed ==
    ASSUME NEW kids, Lists(kids), Founded(kids), NEW d \in Places
    PROVE  /\ d \notin Descendants(kids, d)
           /\ \A x \in Descendants(kids, d) :
                /\ Descendants(kids, x) \subseteq Descendants(kids, d)
                /\ ToSet(kids[x]) \subseteq Descendants(kids, d)
<1>1. PICK N, h : Heights(kids, N, h)
  BY DEF Founded
<1>2. \A c \in Places : \A x \in Descendants(kids, c) :
         x \in ToSet(kids[c]) \/ \E e \in ToSet(kids[c]) : x \in Descendants(kids, e)
  BY DescendantsDef
<1>3. \A c \in Places : \A e \in ToSet(kids[c]) :
         /\ e \in Descendants(kids, c) /\ Descendants(kids, e) \subseteq Descendants(kids, c)
         /\ e \in Places /\ h[e] < h[c]
  BY <1>1, DescendantsDef DEF Places, Heights
<1>4. \A c \in Places : Descendants(kids, c) \subseteq Places
  BY DescendantsDef DEF Places
<1> DEFINE P == {c \in Places :
                   \A x \in Descendants(kids, c) :
                      Descendants(kids, x) \subseteq Descendants(kids, c) /\ h[x] < h[c]}
<1>5. ASSUME NEW c \in Places, \A e \in Places : h[e] < h[c] => e \in P PROVE c \in P
  <2> SUFFICES ASSUME NEW x \in Descendants(kids, c)
               PROVE  Descendants(kids, x) \subseteq Descendants(kids, c) /\ h[x] < h[c]
    OBVIOUS
  <2>1. CASE x \in ToSet(kids[c])
    BY <1>3, <2>1
  <2>2. ASSUME NEW e \in ToSet(kids[c]), x \in Descendants(kids, e)
        PROVE  Descendants(kids, x) \subseteq Descendants(kids, c) /\ h[x] < h[c]
    <3>1. e \in P /\ h[e] < h[c]
      BY <1>3, <1>5
    <3>2. h[x] \in Int /\ h[e] \in Int /\ h[c] \in Int
      BY <1>1, <1>3, <1>4 DEF Heights
    <3> QED  BY <1>3, <2>2, <3>1, <3>2
  <2> QED  BY <1>2, <2>1, <2>2
<1>6. Places \subseteq P
  <2> HIDE DEF P
  <2> QED  BY <1>1, <1>5, HeightInduct
<1>7. \A x \in Descendants(kids, d) : x \in Places /\ ToSet(kids[x]) \subseteq Descendants(kids, x)
  BY <1>3, <1>4
<1>8. h[d] \in Int
  BY <1>1 DEF Heights
<1> QED  BY <1>6, <1>7, <1>8

\* S has what is in d, and with each entry below d what is in it.
ClosedFrom(kids, d, S) ==
    /\ ToSet(kids[d]) \subseteq S
    /\ \A x \in S \cap Descendants(kids, d) : ToSet(kids[x]) \subseteq S

LEMMA DescendantsInduct ==
    ASSUME NEW kids, Lists(kids), Founded(kids), NEW d \in Places, NEW S, ClosedFrom(kids, d, S)
    PROVE  Descendants(kids, d) \subseteq S
<1>1. PICK N, h : Heights(kids, N, h)
  BY DEF Founded
<1>2. \A c \in Places : \A e \in ToSet(kids[c]) : e \in Places /\ h[e] < h[c]
  BY <1>1, DescendantsDef DEF Places, Heights
<1> DEFINE P == {c \in Places :
                   c = d \/ c \in S \cap Descendants(kids, d) => Descendants(kids, c) \subseteq S}
<1>3. ASSUME NEW c \in Places, \A e \in Places : h[e] < h[c] => e \in P PROVE c \in P
  <2> SUFFICES ASSUME c = d \/ c \in S \cap Descendants(kids, d)
               PROVE  Descendants(kids, c) \subseteq S
    OBVIOUS
  <2>1. ToSet(kids[c]) \subseteq S
    BY DEF ClosedFrom
  <2>2. ToSet(kids[c]) \subseteq Descendants(kids, d)
    BY DescendantsDef, DescendantsClosed
  <2>3. \A e \in ToSet(kids[c]) : Descendants(kids, e) \subseteq S
    BY <1>2, <1>3, <2>1, <2>2
  <2>4. Descendants(kids, c)
          = ToSet(kids[c]) \cup UNION {Descendants(kids, e) : e \in ToSet(kids[c])}
    BY DescendantsDef
  <2> QED  BY <2>1, <2>3, <2>4
<1>4. Places \subseteq P
  <2> HIDE DEF P
  <2> QED  BY <1>1, <1>3, HeightInduct
<1> QED  BY <1>4

\* Everything below d is in d or in something below d.
LEMMA DescendantsParent ==
    ASSUME NEW kids, Lists(kids), Founded(kids), NEW d \in Places, NEW x \in Descendants(kids, d)
    PROVE  \E p \in {d} \cup Descendants(kids, d) : x \in ToSet(kids[p])
<1> DEFINE S == {y \in Entries : \E p \in {d} \cup Descendants(kids, d) : y \in ToSet(kids[p])}
<1>1. ClosedFrom(kids, d, S)
  <2>1. \A c \in Places : ToSet(kids[c]) \subseteq Entries
    BY SetOfSeq DEF Lists
  <2>2. Descendants(kids, d) \subseteq Places
    BY DescendantsDef DEF Places
  <2> QED  BY <2>1, <2>2 DEF ClosedFrom
<1>2. Descendants(kids, d) \subseteq S
  <2> HIDE DEF S
  <2> QED  BY <1>1, DescendantsInduct
<1> QED  BY <1>2

LEMMA DescendantsGrow ==
    ASSUME NEW kids, Lists(kids), Founded(kids), NEW more, Lists(more), Founded(more),
           NEW d \in Places, \A c \in {d} \cup Descendants(kids, d) : ToSet(kids[c]) \subseteq ToSet(more[c])
    PROVE  Descendants(kids, d) \subseteq Descendants(more, d)
<1>1. ToSet(more[d]) \subseteq Descendants(more, d)
  BY DescendantsDef
<1>2. \A x \in Descendants(more, d) : ToSet(more[x]) \subseteq Descendants(more, d)
  BY DescendantsClosed
<1>3. ClosedFrom(kids, d, Descendants(more, d))
  BY <1>1, <1>2 DEF ClosedFrom
<1> QED  BY <1>3, DescendantsInduct

(***************************************************************************)
(* Forests: what all entry trees are.                                      *)
(***************************************************************************)
\* The entries that are in some directory.
Linked(kids) == {e \in Entries : \E d \in Places : e \in ToSet(kids[d])}

OneParent(kids) == \A c, d \in Places : \A e \in ToSet(kids[c]) \cap ToSet(kids[d]) : c = d

\* Only what is in a directory has something in it.
NoneLoose(kids) == \A d \in Entries : kids[d] # <<>> => d \in Linked(kids)

Forest(kids) == Lists(kids) /\ Founded(kids) /\ OneParent(kids) /\ NoneLoose(kids)

LEMMA ListSets ==
    ASSUME NEW kids, Lists(kids)
    PROVE  /\ \A d \in Places : /\ kids[d] \in Seq(Entries) /\ ToSet(kids[d]) \subseteq Entries
                                /\ ToSet(kids[d]) \subseteq Linked(kids)
                                /\ kids[d] = <<>> <=> ToSet(kids[d]) = {}
           /\ Entries \subseteq Places /\ NULL \in Places /\ NULL \notin Entries
<1>1. ASSUME NEW d \in Places
      PROVE  kids[d] \in Seq(Entries) /\ ToSet(kids[d]) \subseteq Entries
  BY SetOfSeq DEF Lists
<1>2. ASSUME NEW d \in Places PROVE kids[d] = <<>> <=> ToSet(kids[d]) = {}
  <2>1. PICK s \in Seq(Entries) : s = kids[d]
    BY <1>1
  <2>2. s # <<>> => 1 \in 1 .. Len(s)
    BY EmptySeq
  <2>3. 1 \in 1 .. Len(s) => s[1] \in ToSet(s)
    BY SetOfSeq
  <2> QED  BY <2>1, <2>2, <2>3, SetOfEmpty
<1> QED  BY <1>1, <1>2, PathsAssumption DEF Linked, Places

\* All of a forest can be reached from its root.
LEMMA AllReached ==
    ASSUME NEW kids, Lists(kids), Founded(kids), NoneLoose(kids)
    PROVE  Descendants(kids, NULL) = Linked(kids)
<1>1. PICK N, h : Heights(kids, N, h)
  BY DEF Founded
<1>2. /\ N \in Nat /\ \A d \in Places : h[d] \in 0 .. N
      /\ \A d \in Places : \A e \in ToSet(kids[d]) : h[e] < h[d]
  BY <1>1 DEF Heights
<1> DEFINE M == {n \in Nat : \A e \in Linked(kids) :
                              N - h[e] < n => e \in Descendants(kids, NULL)}
<1>3. 0 \in M
  BY <1>2 DEF Linked, Places
<1>4. ASSUME NEW n \in Nat, n \in M PROVE n + 1 \in M
  <2> SUFFICES ASSUME NEW e \in Linked(kids), N - h[e] < n + 1
               PROVE  e \in Descendants(kids, NULL)
    OBVIOUS
  <2>1. PICK d \in Places : e \in ToSet(kids[d])
    BY DEF Linked
  <2>2. CASE d = NULL
    BY <2>1, <2>2, DescendantsDef
  <2>3. CASE d # NULL
    <3>1. d \in Linked(kids)
      BY <2>1, <2>3, SetOfEmpty DEF NoneLoose, Places
    <3>2. h[e] \in 0 .. N /\ h[d] \in 0 .. N /\ h[e] < h[d]
      BY <1>2, <2>1 DEF Linked, Places
    <3>3. d \in Descendants(kids, NULL)
      BY <1>2, <1>4, <3>1, <3>2
    <3> QED  BY <2>1, <3>3, ListSets, DescendantsClosed
  <2> QED  BY <2>2, <2>3
<1>5. Nat \subseteq M
  <2> HIDE DEF M
  <2> QED  BY <1>3, <1>4, NatInduct
<1>6. Linked(kids) \subseteq Descendants(kids, NULL)
  <2>1. N + 1 \in M
    BY <1>2, <1>5
  <2>2. \A e \in Linked(kids) : N - h[e] < N + 1
    BY <1>2 DEF Linked, Places
  <2> QED  BY <2>1, <2>2
<1>7. Descendants(kids, NULL) \subseteq Linked(kids)
  <2>1. ASSUME NEW x \in Descendants(kids, NULL) PROVE x \in Linked(kids)
    <3>1. PICK p \in {NULL} \cup Descendants(kids, NULL) : x \in ToSet(kids[p])
      BY ListSets, DescendantsParent
    <3>2. p \in Places /\ x \in Entries
      BY ListSets, DescendantsDef
    <3> QED  BY <3>1, <3>2 DEF Linked
  <2> QED  BY <2>1
<1> QED  BY <1>6, <1>7

LEMMA ForestFacts ==
    ASSUME NEW kids, Forest(kids)
    PROVE  /\ Lists(kids) /\ Founded(kids) /\ OneParent(kids) /\ NoneLoose(kids)
           /\ Descendants(kids, NULL) = Linked(kids)
           /\ \A d \in Places : Descendants(kids, d) \subseteq Linked(kids)
           /\ \A d \in Places : d \notin Linked(kids) \cup {NULL} =>
                                   kids[d] = <<>> /\ Descendants(kids, d) = {}
<1>1. Lists(kids) /\ Founded(kids) /\ OneParent(kids) /\ NoneLoose(kids)
  BY DEF Forest
<1>2. ASSUME NEW d \in Places, NEW x \in Descendants(kids, d) PROVE x \in Linked(kids)
  <2>1. PICK p \in {d} \cup Descendants(kids, d) : x \in ToSet(kids[p])
    BY <1>1, DescendantsParent
  <2>2. p \in Places
    BY <1>1, ListSets, DescendantsDef
  <2> QED  BY <1>1, <2>1, <2>2, ListSets
<1>3. ASSUME NEW d \in Places, d \notin Linked(kids) \cup {NULL}
      PROVE  kids[d] = <<>> /\ Descendants(kids, d) = {}
  <2>1. kids[d] = <<>>
    BY <1>1, <1>3 DEF NoneLoose, Places
  <2>2. ToSet(kids[d]) = {}
    BY <2>1, SetOfEmpty
  <2>3. Descendants(kids, d)
          = ToSet(kids[d]) \cup UNION {Descendants(kids, e) : e \in ToSet(kids[d])}
    BY <1>1, DescendantsDef
  <2> QED  BY <2>1, <2>2, <2>3
<1> QED  BY <1>1, <1>2, <1>3, AllReached

\* The directory of what is below d.
LEMMA ForestParent ==
    ASSUME NEW kids, Forest(kids), NEW d \in Places, NEW c \in Places, NEW x \in ToSet(kids[c])
    PROVE  x \in Descendants(kids, d) <=> c \in {d} \cup Descendants(kids, d)
<1>1. Lists(kids) /\ Founded(kids) /\ OneParent(kids)
  BY ForestFacts
<1>2. ASSUME x \in Descendants(kids, d) PROVE c \in {d} \cup Descendants(kids, d)
  <2>1. PICK p \in {d} \cup Descendants(kids, d) : x \in ToSet(kids[p])
    BY <1>1, <1>2, DescendantsParent
  <2>2. p \in Places
    BY <1>1, ListSets, DescendantsDef
  <2> QED  BY <1>1, <2>1, <2>2 DEF OneParent
<1>3. ASSUME c \in {d} \cup Descendants(kids, d) PROVE x \in Descendants(kids, d)
  BY <1>1, <1>3, DescendantsDef, DescendantsClosed
<1> QED  BY <1>2, <1>3

\* A new entry in a place of the forest.
Extended(kids, d, e) == [kids EXCEPT ![d] = Append(@, e)]

LEMMA ForestAdded ==
    ASSUME NEW kids, Forest(kids), NEW d \in Linked(kids) \cup {NULL},
           NEW e \in Entries \ Linked(kids), NEW more, more = Extended(kids, d, e)
    PROVE  /\ Forest(more) /\ Linked(more) = Linked(kids) \cup {e}
           /\ ToSet(more[d]) = ToSet(kids[d]) \cup {e}
           /\ \A c \in Places : c # d => more[c] = kids[c]
<1>1. /\ Lists(kids) /\ Founded(kids) /\ OneParent(kids) /\ NoneLoose(kids)
      /\ kids \in [Places -> Seq(Entries)] /\ d \in Places /\ d # e /\ e \in Places
  BY ForestFacts, PathsAssumption DEF Lists, Linked, Places
<1>2. ASSUME NEW c \in Places
      PROVE  /\ more[c] \in Seq(Entries)
             /\ ToSet(more[c]) = IF c = d THEN ToSet(kids[c]) \cup {e} ELSE ToSet(kids[c])
             /\ more[c] = IF c = d THEN Append(kids[c], e) ELSE kids[c]
  <2>1. CASE c = d
    <3>1. PICK s \in Seq(Entries) : s = kids[d]
      BY <1>1
    <3>2. PICK l \in Seq(Entries) : l = Append(s, e)
      BY AppendProperties
    <3>3. ToSet(l) = ToSet(s) \cup {e}
      BY <3>2, SetOfSeq
    <3>4. more[c] = l
      BY <1>1, <2>1, <3>1, <3>2 DEF Extended
    <3> QED  BY <2>1, <3>1, <3>2, <3>3, <3>4
  <2>2. CASE c # d
    BY <1>1, <2>2 DEF Extended
  <2> QED  BY <2>1, <2>2
<1>2a. \A c \in Places : e \notin ToSet(kids[c]) /\ ToSet(kids[c]) \subseteq Entries
  BY <1>1, ListSets
<1>3. Lists(more)
  BY <1>1, <1>2 DEF Lists, Extended
<1>4. Linked(more) = Linked(kids) \cup {e}
  BY <1>1, <1>2 DEF Linked
<1>5. NoneLoose(more)
  <2> SUFFICES ASSUME NEW c \in Entries, more[c] # <<>> PROVE c \in Linked(kids) \cup {e}
    BY <1>4 DEF NoneLoose
  <2>1. c \in Places /\ c # NULL
    BY PathsAssumption DEF Places
  <2>2. CASE c = d
    BY <2>1, <2>2
  <2>3. CASE c # d
    BY <1>1, <1>2, <2>1, <2>3 DEF NoneLoose
  <2> QED  BY <2>2, <2>3
<1>6. OneParent(more)
  <2> SUFFICES ASSUME NEW b \in Places, NEW c \in Places,
                      NEW x \in ToSet(more[b]) \cap ToSet(more[c])
               PROVE  b = c
    BY DEF OneParent
  <2>1. CASE x = e
    BY <1>2, <1>2a, <2>1
  <2>2. CASE x # e
    <3>1. \A a \in Places : ToSet(more[a]) \subseteq ToSet(kids[a]) \cup {e}
      BY <1>2
    <3>2. x \in ToSet(kids[b]) \cap ToSet(kids[c])
      BY <2>2, <3>1
    <3> QED  BY <1>1, <3>2 DEF OneParent
  <2> QED  BY <2>1, <2>2
<1>7. Founded(more)
  <2>1. PICK N, h : Heights(kids, N, h)
    BY <1>1 DEF Founded
  <2>2. /\ N \in Nat /\ \A c \in Places : h[c] \in 0 .. N
        /\ \A c \in Places : \A x \in ToSet(kids[c]) : h[x] < h[c]
    BY <2>1 DEF Heights
  <2> DEFINE g == [c \in Places |-> IF c = e THEN 0 ELSE h[c] + 1]
  <2>3. N + 1 \in Nat /\ g \in [Places -> 0 .. N + 1]
    BY <2>2
  <2>4. ASSUME NEW c \in Places, NEW x \in ToSet(more[c]) PROVE g[x] < g[c]
    <3>1. x \in Places /\ (x \in ToSet(kids[c]) => x # e) /\ ToSet(kids[e]) = {}
      <4>1. kids[e] = <<>>
        BY <1>1 DEF NoneLoose
      <4>2. x \in ToSet(kids[c]) \cup {e}
        BY <1>2, <2>4
      <4> QED  BY <1>1, <1>2a, <4>1, <4>2, SetOfEmpty DEF Places
    <3>2. CASE x \in ToSet(kids[c])
      <4>1. h[x] < h[c] /\ h[x] \in Int /\ h[c] \in Int /\ c # e
        BY <2>2, <3>1, <3>2
      <4> QED  BY <3>1, <3>2, <4>1
    <3>3. CASE x = e /\ c = d
      <4>1. h[c] \in 0 .. N
        BY <2>2
      <4> QED  BY <1>1, <3>1, <3>3, <4>1
    <3>4. x \in ToSet(kids[c]) \/ (x = e /\ c = d)
      <4>0. \A a \in Places : ToSet(more[a]) \subseteq ToSet(kids[a]) \cup {e}
        BY <1>2
      <4>1. CASE c = d
        BY <2>4, <4>0, <4>1
      <4>2. CASE c # d
        BY <1>2, <2>4, <4>2
      <4> QED  BY <4>1, <4>2
    <3> QED  BY <3>2, <3>3, <3>4
  <2> HIDE DEF g
  <2>5. Heights(more, N + 1, g)
    BY <2>3, <2>4 DEF Heights
  <2> QED  BY <2>5 DEF Founded
<1>8. d \in Places /\ ToSet(more[d]) = ToSet(kids[d]) \cup {e}
  BY <1>1, <1>2
<1>9. \A c \in Places : c # d => more[c] = kids[c]
  BY <1>2
<1> QED  BY <1>3, <1>4, <1>5, <1>6, <1>7, <1>8, <1>9 DEF Forest

\* Lists that have only things the lists of a forest have.
LEMMA ForestFewer ==
    ASSUME NEW kids, Forest(kids), NEW less, Lists(less),
           \A c \in Places : ToSet(less[c]) \subseteq ToSet(kids[c])
    PROVE  /\ Founded(less) /\ OneParent(less) /\ Linked(less) \subseteq Linked(kids)
           /\ \A d \in Places : Descendants(less, d) \subseteq Descendants(kids, d)
<1>1. Lists(kids) /\ Founded(kids) /\ OneParent(kids)
  BY ForestFacts
<1>2. Founded(less)
  <2>1. PICK N, h : Heights(kids, N, h)
    BY <1>1 DEF Founded
  <2>2. Heights(less, N, h)
    BY <2>1 DEF Heights
  <2> QED  BY <2>2 DEF Founded
<1>3. OneParent(less) /\ Linked(less) \subseteq Linked(kids)
  BY <1>1 DEF OneParent, Linked
<1>4. ASSUME NEW d \in Places PROVE Descendants(less, d) \subseteq Descendants(kids, d)
  <2>1. \A c \in {d} \cup Descendants(less, d) : c \in Places
    BY <1>2, ListSets, DescendantsDef
  <2> QED  BY <1>1, <1>2, <2>1, DescendantsGrow
<1> QED  BY <1>2, <1>3, <1>4

LEMMA UnlinkedSets ==
    ASSUME NEW kids, Lists(kids), NEW e \in Entries
    PROVE  /\ Lists(Unlinked(kids, e))
           /\ \A c \in Places : ToSet(Unlinked(kids, e)[c]) = ToSet(kids[c]) \ {e}
           /\ \A c \in Places : e \notin ToSet(kids[c]) => Unlinked(kids, e)[c] = kids[c]
<1>1. ASSUME NEW c \in Places
      PROVE  /\ Unlinked(kids, e)[c] \in Seq(Entries)
             /\ ToSet(Unlinked(kids, e)[c]) = ToSet(kids[c]) \ {e}
             /\ e \notin ToSet(kids[c]) => Unlinked(kids, e)[c] = kids[c]
  <2>1. PICK s \in Seq(Entries) : s = kids[c] /\ ToSet(s) \subseteq Entries
    BY ListSets
  <2>2. Unlinked(kids, e)[c] = Only(s, Entries \ {e})
    BY <2>1 DEF Unlinked
  <2>3. /\ Only(s, Entries \ {e}) \in Seq(Entries)
        /\ ToSet(Only(s, Entries \ {e})) = ToSet(s) \cap (Entries \ {e})
    BY OnlySet
  <2>4. e \notin ToSet(s) => Only(s, Entries \ {e}) = s
    BY <2>1, OnlyAll
  <2> QED  BY <2>1, <2>2, <2>3, <2>4
<1>2. Lists(Unlinked(kids, e))
  BY <1>1 DEF Unlinked, Lists
<1> QED  BY <1>1, <1>2

\* An entry is taken out of a forest, with everything below it.
Pruned(kids, e, gone) == [d \in Places |-> IF d \in gone THEN <<>> ELSE Unlinked(kids, e)[d]]

LEMMA ForestRemoved ==
    ASSUME NEW kids, Forest(kids), NEW e \in Linked(kids),
           NEW gone, gone = {e} \cup Descendants(kids, e),
           NEW less, less = Pruned(kids, e, gone)
    PROVE  /\ Forest(less) /\ Linked(less) = Linked(kids) \ gone
           /\ \A c \in Places : c \in gone => less[c] = <<>>
           /\ \A c \in Places : c \notin gone => ToSet(less[c]) = ToSet(kids[c]) \ gone
<1>1. /\ Lists(kids) /\ Founded(kids) /\ OneParent(kids) /\ NoneLoose(kids)
      /\ e \in Entries /\ e \in Places
  BY ForestFacts DEF Linked, Places
<1>2. ASSUME NEW c \in Places, c \notin gone, NEW x \in ToSet(kids[c]), x # e PROVE x \notin gone
  BY <1>1, <1>2, ForestParent
<1>3. ASSUME NEW c \in Places
      PROVE  /\ less[c] \in Seq(Entries)
             /\ c \in gone => less[c] = <<>> /\ ToSet(less[c]) = {}
             /\ c \notin gone => ToSet(less[c]) = ToSet(kids[c]) \ gone
  <2>1. less[c] = IF c \in gone THEN <<>> ELSE Unlinked(kids, e)[c]
    BY DEF Pruned
  <2>2. CASE c \in gone
    BY <2>1, <2>2, SetOfEmpty, EmptySeq
  <2>3. CASE c \notin gone
    <3>1. PICK s \in Seq(Entries) : s = Unlinked(kids, e)[c] /\ ToSet(s) = ToSet(kids[c]) \ {e}
      <4>1. Lists(Unlinked(kids, e)) /\ ToSet(Unlinked(kids, e)[c]) = ToSet(kids[c]) \ {e}
        BY <1>1, UnlinkedSets
      <4>2. Unlinked(kids, e)[c] \in Seq(Entries)
        BY <4>1 DEF Lists
      <4> QED  BY <4>1, <4>2
    <3>2. ToSet(kids[c]) \ {e} = ToSet(kids[c]) \ gone
      BY <1>2, <2>3
    <3> QED  BY <2>1, <2>3, <3>1, <3>2
  <2> QED  BY <2>2, <2>3
<1>4. Lists(less)
  BY <1>3 DEF Lists, Pruned
<1>5. ASSUME NEW c \in Places PROVE ToSet(less[c]) \subseteq ToSet(kids[c])
  <2>1. CASE c \in gone
    BY <1>3, <2>1
  <2>2. CASE c \notin gone
    <3>1. ToSet(less[c]) = ToSet(kids[c]) \ gone
      BY <1>3, <2>2
    <3> QED  BY <3>1
  <2> QED  BY <2>1, <2>2
<1>6. Founded(less) /\ OneParent(less)
  BY <1>4, <1>5, ForestFewer
<1>7. Linked(less) = Linked(kids) \ gone
  <2>1. ASSUME NEW x \in Linked(less) PROVE x \in Linked(kids) \ gone
    <3>1. PICK c \in Places : x \in ToSet(less[c])
      BY DEF Linked
    <3>2. c \notin gone
      BY <1>3, <3>1
    <3>3. x \in ToSet(kids[c]) \ gone
      BY <1>3, <3>1, <3>2
    <3> QED  BY <1>1, <3>3, ListSets
  <2>2. ASSUME NEW x \in Linked(kids) \ gone PROVE x \in Linked(less)
    <3>1. PICK c \in Places : x \in ToSet(kids[c])
      BY DEF Linked
    <3>2. c \notin gone
      BY <1>1, <2>2, <3>1, ForestParent
    <3>3. x \in ToSet(less[c])
      BY <1>3, <2>2, <3>1, <3>2
    <3> QED  BY <1>4, <3>3, ListSets
  <2> QED  BY <2>1, <2>2
<1>8. NoneLoose(less)
  <2> SUFFICES ASSUME NEW c \in Entries, less[c] # <<>> PROVE c \in Linked(kids) \ gone
    BY <1>7 DEF NoneLoose
  <2>1. c \in Places /\ c \notin gone
    BY <1>1, <1>3, ListSets
  <2>2. ToSet(less[c]) # {}
    BY <1>4, <2>1, ListSets
  <2>3. kids[c] # <<>>
    BY <1>3, <2>1, <2>2, SetOfEmpty
  <2> QED  BY <1>1, <2>1, <2>3 DEF NoneLoose
<1> QED  BY <1>3, <1>4, <1>6, <1>7, <1>8 DEF Forest

\* What is not gone from directories that are not gone stays; what is gone is gone
\* with everything in it.
Spared(kids, gone, less) ==
    /\ \A c \in Places \ gone : ToSet(kids[c]) \ gone \subseteq ToSet(less[c])
    /\ \A c \in Places \cap gone : ToSet(kids[c]) \subseteq gone

\* Then what is not gone is still below what it was below.
LEMMA SparedBelow ==
    ASSUME NEW kids, Forest(kids), NEW less, Forest(less), NEW gone, Spared(kids, gone, less),
           NEW top \in Places, top \notin gone
    PROVE  Descendants(kids, top) \subseteq gone \cup Descendants(less, top)
<1> DEFINE S == gone \cup Descendants(less, top)
<1>0. /\ \A c \in Places \ gone : ToSet(kids[c]) \ gone \subseteq ToSet(less[c])
      /\ \A c \in Places \cap gone : ToSet(kids[c]) \subseteq gone
  BY DEF Spared
<1>1. Lists(kids) /\ Founded(kids) /\ Lists(less) /\ Founded(less)
  BY ForestFacts
<1>2. ToSet(kids[top]) \subseteq S
  BY <1>0, <1>1, DescendantsDef
<1>3. ASSUME NEW x \in S \cap Descendants(kids, top) PROVE ToSet(kids[x]) \subseteq S
  <2>1. x \in Places
    BY <1>1, DescendantsDef, ListSets
  <2>2. CASE x \in gone
    BY <1>0, <2>1, <2>2
  <2>3. CASE x \notin gone
    <3>1. ToSet(less[x]) \subseteq Descendants(less, top)
      BY <1>1, <2>3, DescendantsClosed
    <3> QED  BY <1>0, <2>1, <2>3, <3>1
  <2> QED  BY <2>2, <2>3
<1>4. ClosedFrom(kids, top, S)
  BY <1>2, <1>3 DEF ClosedFrom
<1> QED  BY <1>1, <1>4, DescendantsInduct

\* An entry is moved to the end of a directory that is not below it.
Relinked(kids, src, dir) == [Unlinked(kids, src) EXCEPT ![dir] = Append(@, src)]

LEMMA ForestMoved ==
    ASSUME NEW kids, Forest(kids), NEW src \in Linked(kids), NEW dir \in Linked(kids) \cup {NULL},
           dir \notin {src} \cup Descendants(kids, src),
           NEW other, other = Relinked(kids, src, dir)
    PROVE  /\ Forest(other) /\ Linked(other) = Linked(kids)
           /\ ToSet(other[dir]) = ToSet(kids[dir]) \cup {src}
           /\ \A c \in Places : c # dir => ToSet(other[c]) = ToSet(kids[c]) \ {src}
<1> DEFINE low == {src} \cup Descendants(kids, src)
<1>1. /\ Lists(kids) /\ Founded(kids) /\ OneParent(kids) /\ NoneLoose(kids)
      /\ src \in Entries /\ src \in Places /\ dir \in Places
  BY ForestFacts, PathsAssumption DEF Linked, Places
<1> DEFINE less == Unlinked(kids, src)
<1>2. /\ Lists(less)
      /\ \A c \in Places : ToSet(less[c]) = ToSet(kids[c]) \ {src}
      /\ less \in [Places -> Seq(Entries)]
  BY <1>1, UnlinkedSets DEF Lists
<1>3. /\ other \in [Places -> Seq(Entries)]
      /\ ToSet(other[dir]) = ToSet(less[dir]) \cup {src}
      /\ \A c \in Places : c # dir => other[c] = less[c]
  <2> HIDE DEF less
  <2>1. PICK s \in Seq(Entries) : s = less[dir]
    BY <1>1, <1>2
  <2>2. PICK l \in Seq(Entries) : l = Append(s, src)
    BY <1>1, AppendProperties
  <2>3. ToSet(l) = ToSet(s) \cup {src}
    BY <1>1, <2>2, SetOfSeq
  <2>4. other = [less EXCEPT ![dir] = l]
    BY <2>1, <2>2 DEF less, Relinked
  <2> QED  BY <1>1, <1>2, <2>1, <2>3, <2>4
<1>4. Lists(other)
  BY <1>3 DEF Lists
<1>5. /\ ToSet(other[dir]) = ToSet(kids[dir]) \cup {src}
      /\ \A c \in Places : c # dir => ToSet(other[c]) = ToSet(kids[c]) \ {src}
  <2> HIDE DEF less
  <2> QED  BY <1>1, <1>2, <1>3
<1>6. ASSUME NEW c \in Places, NEW x \in ToSet(other[c])
      PROVE  (x = src /\ c = dir) \/ (x # src /\ x \in ToSet(kids[c]))
  BY <1>1, <1>2, <1>3, <1>5, <1>6
<1>7. Linked(other) = Linked(kids)
  <2>1. ASSUME NEW x \in Linked(other) PROVE x \in Linked(kids)
    <3>1. PICK c \in Places : x \in ToSet(other[c])
      BY DEF Linked
    <3> QED  BY <1>1, <1>6, <3>1, ListSets
  <2>2. ASSUME NEW x \in Linked(kids) PROVE x \in Linked(other)
    <3>1. PICK c \in Places : x \in ToSet(kids[c])
      BY DEF Linked
    <3>2. x = src => x \in ToSet(other[dir])
      BY <1>5
    <3>3. x # src => x \in ToSet(other[c])
      BY <1>5, <3>1
    <3> QED  BY <1>1, <1>4, <3>2, <3>3, ListSets
  <2> QED  BY <2>1, <2>2
<1>8. NoneLoose(other)
  <2> SUFFICES ASSUME NEW c \in Entries, other[c] # <<>> PROVE c \in Linked(kids)
    BY <1>7 DEF NoneLoose
  <2>1. c \in Places /\ c # NULL
    BY <1>1, ListSets
  <2>2. ToSet(other[c]) # {}
    BY <1>4, <2>1, ListSets
  <2>3. c # dir => ToSet(kids[c]) # {}
    BY <1>5, <2>1, <2>2
  <2>4. c # dir => kids[c] # <<>>
    BY <2>3, SetOfEmpty
  <2> QED  BY <1>1, <2>1, <2>4 DEF NoneLoose
<1>9. OneParent(other)
  <2> SUFFICES ASSUME NEW b \in Places, NEW c \in Places,
                      NEW x, x \in ToSet(other[b]), x \in ToSet(other[c])
               PROVE  b = c
    BY DEF OneParent
  <2>1. (x = src /\ b = dir) \/ (x # src /\ x \in ToSet(kids[b]))
    BY <1>6
  <2>2. (x = src /\ c = dir) \/ (x # src /\ x \in ToSet(kids[c]))
    BY <1>6
  <2> QED  BY <1>1, <2>1, <2>2 DEF OneParent
<1>10. Founded(other)
  <2>1. PICK N, h : Heights(kids, N, h)
    BY <1>1 DEF Founded
  <2>2. /\ N \in Nat /\ \A c \in Places : h[c] \in 0 .. N
        /\ \A c \in Places : \A x \in ToSet(kids[c]) : h[x] < h[c]
    BY <2>1 DEF Heights
  <2> DEFINE g == [c \in Places |-> IF c \in low THEN h[c] ELSE h[c] + h[src] + 1]
  <2>3. N + N + 1 \in Nat /\ g \in [Places -> 0 .. N + N + 1]
    BY <1>1, <2>2
  <2>4. ASSUME NEW c \in Places, NEW x \in ToSet(other[c]) PROVE g[x] < g[c]
    <3>1. x \in Places /\ h[x] \in Int /\ h[c] \in Int /\ h[src] \in Int /\ 0 <= h[src] /\ 0 <= h[c]
      <4>1. x \in Places
        BY <1>4, <2>4, ListSets
      <4>2. h[x] \in 0 .. N /\ h[c] \in 0 .. N /\ h[src] \in 0 .. N
        BY <1>1, <2>2, <4>1
      <4> QED  BY <2>2, <4>1, <4>2
    <3>2. CASE x = src /\ c = dir
      <4>1. g[x] = h[src] /\ g[c] = h[c] + h[src] + 1
        BY <1>1, <3>2
      <4> HIDE DEF g
      <4> QED  BY <3>1, <4>1
    <3>3. CASE x # src /\ x \in ToSet(kids[c])
      <4>1. h[x] < h[c]
        BY <2>2, <3>3
      <4>2. x \in low <=> c \in low
        BY <1>1, <3>3, ForestParent
      <4>3. /\ g[x] = IF x \in low THEN h[x] ELSE h[x] + h[src] + 1
            /\ g[c] = IF c \in low THEN h[c] ELSE h[c] + h[src] + 1
        BY <3>1
      <4> HIDE DEF g, low
      <4> QED  BY <3>1, <4>1, <4>2, <4>3
    <3> QED  BY <1>6, <2>4, <3>2, <3>3
  <2> HIDE DEF g
  <2>5. Heights(other, N + N + 1, g)
    BY <2>3, <2>4 DEF Heights
  <2> QED  BY <2>5 DEF Founded
<1> QED  BY <1>4, <1>5, <1>7, <1>8, <1>9, <1>10 DEF Forest

\* What is moved is below src as before, what is not is where it was.
LEMMA MovedBelow ==
    ASSUME NEW kids, Forest(kids), NEW src \in Linked(kids), NEW dir \in Linked(kids) \cup {NULL},
           dir \notin {src} \cup Descendants(kids, src),
           NEW other, other = Relinked(kids, src, dir)
    PROVE  /\ Descendants(kids, src) \subseteq Descendants(other, src)
           /\ \A top \in Places \ ({src} \cup Descendants(kids, src)) :
                 Descendants(kids, top)
                   \subseteq {src} \cup Descendants(kids, src) \cup Descendants(other, top)
<1> DEFINE low == {src} \cup Descendants(kids, src)
<1>1. /\ Lists(kids) /\ Founded(kids) /\ src \in Entries /\ src \in Places /\ dir \in Places
      /\ src \notin Descendants(kids, src) /\ low \subseteq Places
  <2>1. Lists(kids) /\ Founded(kids) /\ src \in Entries /\ src \in Places /\ dir \in Places
    BY ForestFacts, PathsAssumption DEF Linked, Places
  <2> QED  BY <2>1, DescendantsClosed, DescendantsDef, ListSets
<1>2. /\ Forest(other) /\ Linked(other) = Linked(kids)
      /\ ToSet(other[dir]) = ToSet(kids[dir]) \cup {src}
      /\ \A c \in Places : c # dir => ToSet(other[c]) = ToSet(kids[c]) \ {src}
  BY ForestMoved
<1>3. \A c \in Places : c \in low => ToSet(kids[c]) \subseteq Descendants(kids, src)
  BY <1>1, DescendantsDef, DescendantsClosed
<1>4. Descendants(kids, src) \subseteq Descendants(other, src)
  <2>1. ASSUME NEW c \in low PROVE ToSet(kids[c]) \subseteq ToSet(other[c])
    <3>1. c \in Places /\ c # dir
      BY <1>1
    <3>2. src \notin ToSet(kids[c])
      BY <1>1, <1>3, <3>1
    <3>3. ToSet(other[c]) = ToSet(kids[c]) \ {src}
      BY <1>2, <3>1
    <3> QED  BY <3>2, <3>3
  <2>2. Lists(other) /\ Founded(other)
    BY <1>2, ForestFacts
  <2> QED  BY <1>1, <2>1, <2>2, DescendantsGrow
<1>5. ASSUME NEW top \in Places \ low
      PROVE  Descendants(kids, top) \subseteq low \cup Descendants(other, top)
  <2>1. ASSUME NEW c \in Places \ low PROVE ToSet(kids[c]) \ low \subseteq ToSet(other[c])
    <3>1. CASE c = dir
      BY <1>2, <3>1
    <3>2. CASE c # dir
      <4>1. ToSet(other[c]) = ToSet(kids[c]) \ {src}
        BY <1>2, <3>2
      <4> QED  BY <4>1
    <3> QED  BY <3>1, <3>2
  <2>2. \A c \in Places : c \in low => ToSet(kids[c]) \subseteq low
    BY <1>3
  <2>3. Spared(kids, low, other)
    BY <2>1, <2>2 DEF Spared
  <2> HIDE DEF low
  <2> QED  BY <1>2, <2>3, SparedBelow
<1> QED  BY <1>4, <1>5

(***************************************************************************)
(* Names.                                                                  *)
(***************************************************************************)
LEMMA ParentIs ==
    ASSUME NEW t, Forest(t.kids), NEW d \in Places, NEW e \in ToSet(t.kids[d])
    PROVE  Parent(t, e) = d
<1>1. \A c \in Places : e \in ToSet(t.kids[c]) <=> c = d
  BY ForestFacts DEF OneParent
<1> QED  BY <1>1 DEF Parent

\* A forest whose entries have names, or NULL for one.
Named(t) == Forest(t.kids) /\ \A e \in Linked(t.kids) : t.info[e].name \in Names \cup {NULL}

\* The names of directory d, none for the root.
NamesOf(t, d) == IF d = NULL THEN <<>> ELSE NamesTo(t, d)

LEMMA NamesDef ==
    ASSUME NEW t, Named(t)
    PROVE  /\ \A d \in Linked(t.kids) \cup {NULL} : NamesOf(t, d) \in Seq(Names \cup {NULL})
           /\ \A d \in Places : \A e \in ToSet(t.kids[d]) :
                 NamesTo(t, e) = Append(NamesOf(t, d), t.info[e].name)
<1> DEFINE S == Linked(t.kids)
           V == Seq(Names \cup {NULL})
           step[f \in [S -> V]] ==
             [x \in S |-> Append(IF Parent(t, x) = NULL THEN <<>> ELSE f[Parent(t, x)],
                                 t.info[x].name)]
<1>1. /\ Forest(t.kids) /\ Lists(t.kids) /\ Founded(t.kids) /\ Content(t) = S
      /\ S \subseteq Entries /\ NULL \notin S
      /\ \A x \in S : t.info[x].name \in Names \cup {NULL}
  BY ForestFacts, ListSets DEF Named, Content, Linked
<1>2. ASSUME NEW x \in S
      PROVE  /\ Parent(t, x) \in S \cup {NULL} /\ Parent(t, x) \in Places
             /\ x \in ToSet(t.kids[Parent(t, x)])
  <2>1. PICK d \in Places : x \in ToSet(t.kids[d])
    BY DEF Linked
  <2>2. d \in Descendants(t.kids, NULL) \cup {NULL}
    BY <1>1, <2>1, ForestParent, ForestFacts, ListSets
  <2>3. Parent(t, x) = d
    BY <1>1, <2>1, ParentIs
  <2> QED  BY <1>1, <2>1, <2>2, <2>3, ForestFacts
<1>3. step \in [[S -> V] -> [S -> V]]
  <2>1. ASSUME NEW f \in [S -> V], NEW x \in S
        PROVE  Append(IF Parent(t, x) = NULL THEN <<>> ELSE f[Parent(t, x)], t.info[x].name) \in V
    <3>1. PICK s \in V : s = IF Parent(t, x) = NULL THEN <<>> ELSE f[Parent(t, x)]
      BY <1>2, EmptySeq
    <3>2. Append(s, t.info[x].name) \in V
      BY <1>1, <3>1, AppendProperties
    <3> QED  BY <3>1, <3>2
  <2> QED  BY <2>1
<1>4. PICK N, h : Heights(t.kids, N, h)
  BY <1>1 DEF Founded
<1>5. /\ N \in Nat /\ \A d \in Places : h[d] \in 0 .. N
      /\ \A d \in Places : \A e \in ToSet(t.kids[d]) : h[e] < h[d]
  BY <1>4 DEF Heights
<1> DEFINE rank == [x \in S |-> N - h[x]]
<1>6. rank \in [S -> 0 .. N]
  <2>1. ASSUME NEW x \in S PROVE N - h[x] \in 0 .. N
    <3>1. h[x] \in 0 .. N
      BY <1>1, <1>5, ListSets
    <3> QED  BY <1>5, <3>1
  <2> QED  BY <2>1
<1>7. ASSUME NEW f \in [S -> V], NEW g \in [S -> V], NEW x \in S,
             \A y \in S : rank[y] < rank[x] => f[y] = g[y]
      PROVE  step[f][x] = step[g][x]
  <2>1. CASE Parent(t, x) = NULL
    BY <2>1
  <2>2. CASE Parent(t, x) # NULL
    <3>1. PICK d \in S : d = Parent(t, x)
      BY <1>2, <2>2
    <3>2. h[x] < h[d] /\ h[x] \in 0 .. N /\ h[d] \in 0 .. N
      BY <1>1, <1>2, <1>5, <3>1, ListSets
    <3>3. rank[d] < rank[x]
      BY <1>5, <3>2
    <3>4. f[d] = g[d]
      BY <1>7, <3>3
    <3> QED  BY <3>1, <3>4
  <2> QED  BY <2>1, <2>2
<1>8. PICK f \in [S -> V] : f = step[f]
  <2> HIDE DEF step, rank, V, S
  <2>1. Recursive(S, V, N, rank, step)
    <3>1. V # {}
      BY EmptySeq DEF V
    <3> QED  BY <1>3, <1>5, <1>6, <1>7, <3>1 DEF Recursive
  <2> QED  BY <2>1, Recursion
<1>9. f = [x \in S |-> Append(IF Parent(t, x) = NULL THEN <<>> ELSE f[Parent(t, x)],
                             t.info[x].name)]
  BY <1>8
<1>10. PICK g : /\ g = [x \in S |-> Append(IF Parent(t, x) = NULL THEN <<>> ELSE g[Parent(t, x)],
                                           t.info[x].name)]
                /\ \A x : NamesTo(t, x) = g[x]
  BY <1>1, <1>9 DEF NamesTo
<1>11. \A x \in S : g[x] = f[x]
  <2> DEFINE P == {x \in S : g[x] = f[x]}
  <2>1. ASSUME NEW x \in S, Parent(t, x) = NULL \/ Parent(t, x) \in P PROVE x \in P
    <3>1. /\ g[x] = Append(IF Parent(t, x) = NULL THEN <<>> ELSE g[Parent(t, x)], t.info[x].name)
          /\ f[x] = Append(IF Parent(t, x) = NULL THEN <<>> ELSE f[Parent(t, x)], t.info[x].name)
      BY <1>9, <1>10
    <3> QED  BY <2>1, <3>1
  <2>2. ASSUME NEW d \in Places, d = NULL \/ d \in P, NEW x \in ToSet(t.kids[d]) PROVE x \in P
    <3>1. x \in S /\ Parent(t, x) = d
      BY <1>1, ParentIs, ListSets
    <3> QED  BY <2>1, <2>2, <3>1
  <2>3. ClosedFrom(t.kids, NULL, P)
    <3>1. \A x \in P : x \in Places
      BY <1>1, ListSets
    <3> HIDE DEF P
    <3> QED  BY <1>1, <2>2, <3>1, ListSets DEF ClosedFrom
  <2>4. Descendants(t.kids, NULL) \subseteq P
    <3> HIDE DEF P
    <3> QED  BY <1>1, <2>3, DescendantsInduct, ListSets
  <2> QED  BY <1>1, <2>4, ForestFacts
<1>12. ASSUME NEW d \in S \cup {NULL} PROVE NamesOf(t, d) \in V
  BY <1>8, <1>10, <1>11, EmptySeq DEF NamesOf
<1>13. ASSUME NEW d \in Places, NEW e \in ToSet(t.kids[d])
       PROVE  NamesTo(t, e) = Append(NamesOf(t, d), t.info[e].name)
  <2>1. e \in S /\ Parent(t, e) = d
    BY <1>1, ParentIs, ListSets
  <2>2. NamesTo(t, e) = Append(IF d = NULL THEN <<>> ELSE g[d], t.info[e].name)
    BY <1>10, <2>1
  <2> QED  BY <1>10, <2>2 DEF NamesOf
<1> QED  BY <1>12, <1>13

\* The entries in S have the same names in u as in t, and are in the same directories,
\* which are in S too.
SameAbove(t, u, S) ==
    \A x \in S, d \in Places : x \in ToSet(u.kids[d]) =>
       x \in ToSet(t.kids[d]) /\ d \in S \cup {NULL} /\ u.info[x].name = t.info[x].name

LEMMA NamesSame ==
    ASSUME NEW t, NEW u, Named(t), Named(u), NEW S, SameAbove(t, u, S)
    PROVE  \A x \in S \cap Linked(u.kids) : NamesTo(u, x) = NamesTo(t, x)
<1>1. Forest(u.kids) /\ Lists(u.kids) /\ Founded(u.kids)
  BY ForestFacts DEF Named
<1> DEFINE P == {x \in Linked(u.kids) : x \in S => NamesTo(u, x) = NamesTo(t, x)}
<1>2. ASSUME NEW d \in Places, d = NULL \/ d \in P, NEW x \in ToSet(u.kids[d]) PROVE x \in P
  <2>1. x \in Linked(u.kids)
    BY <1>1, ListSets
  <2> SUFFICES ASSUME x \in S PROVE NamesTo(u, x) = NamesTo(t, x)
    BY <2>1
  <2>2. x \in ToSet(t.kids[d]) /\ d \in S \cup {NULL} /\ u.info[x].name = t.info[x].name
    BY DEF SameAbove
  <2>3. NamesOf(u, d) = NamesOf(t, d)
    BY <1>2, <2>2 DEF NamesOf
  <2>4. /\ NamesTo(u, x) = Append(NamesOf(u, d), u.info[x].name)
        /\ NamesTo(t, x) = Append(NamesOf(t, d), t.info[x].name)
    BY <2>2, NamesDef
  <2> QED  BY <2>2, <2>3, <2>4
<1>3. ClosedFrom(u.kids, NULL, P)
  <2>1. NULL \in Places /\ \A x \in P : x \in Places
    BY <1>1, ListSets DEF Linked
  <2> HIDE DEF P
  <2> QED  BY <1>2, <2>1 DEF ClosedFrom
<1>4. Descendants(u.kids, NULL) \subseteq P
  <2> HIDE DEF P
  <2> QED  BY <1>1, <1>3, DescendantsInduct, ListSets
<1> QED  BY <1>1, <1>4, ForestFacts

\* No two entries of a directory have the same name; what has no name does not count.
Distinct(t) ==
    \A d \in Places : \A x, y \in ToSet(t.kids[d]) :
       t.info[x].name = t.info[y].name /\ t.info[x].name # NULL => x = y

NamelessAreBare(t) ==
    \A d \in Entries : t.info[d].name = NULL => t.kids[d] = <<>>

LEMMA NamesInjective ==
    ASSUME NEW t, Named(t), Distinct(t), NamelessAreBare(t)
    PROVE  \A x, y \in Linked(t.kids) :
              t.info[x].name # NULL /\ NamesTo(t, x) = NamesTo(t, y) => x = y
<1> DEFINE L == Linked(t.kids)
<1>1. /\ Forest(t.kids) /\ Lists(t.kids) /\ Founded(t.kids) /\ L \subseteq Entries
      /\ NULL \notin L /\ NULL \in Places /\ Entries \subseteq Places
      /\ \A x \in L : t.info[x].name \in Names \cup {NULL}
  BY ForestFacts, ListSets DEF Named, Linked
<1>2. \A x \in L : \E d \in Places : x \in ToSet(t.kids[d])
  BY DEF Linked
<1>3. \A d \in Places : \A x \in ToSet(t.kids[d]) :
         d \in L \cup {NULL} /\ NamesTo(t, x) = Append(NamesOf(t, d), t.info[x].name)
  <2>1. ASSUME NEW d \in Places, NEW x \in ToSet(t.kids[d]) PROVE d \in L \cup {NULL}
    BY <1>1, <2>1, ForestFacts, SetOfEmpty
  <2> QED  BY <2>1, NamesDef
<1>4. \A d \in L \cup {NULL} : NamesOf(t, d) \in Seq(Names \cup {NULL})
  BY NamesDef
<1>5. ASSUME NEW x \in L PROVE NamesOf(t, x) = NamesTo(t, x) /\ NamesTo(t, x) # <<>>
  <2>1. PICK d \in Places : x \in ToSet(t.kids[d])
    BY <1>2
  <2>2. PICK s \in Seq(Names \cup {NULL}), n \in Names \cup {NULL} : NamesTo(t, x) = Append(s, n)
    BY <1>1, <1>3, <1>4, <2>1
  <2>3. Append(s, n) # <<>>
    OBVIOUS
  <2> QED  BY <1>1, <2>2, <2>3 DEF NamesOf
<1> DEFINE P == {x \in L : \A y \in L :
                   t.info[x].name # NULL /\ NamesTo(t, x) = NamesTo(t, y) => x = y}
<1>6. ASSUME NEW d \in Places, d = NULL \/ d \in P, NEW x \in ToSet(t.kids[d]) PROVE x \in P
  <2>1. x \in L
    BY <1>1, ListSets
  <2> SUFFICES ASSUME NEW y \in L, t.info[x].name # NULL, NamesTo(t, x) = NamesTo(t, y)
               PROVE  x = y
    BY <2>1
  <2>2. PICK c \in Places : y \in ToSet(t.kids[c])
    BY <1>2
  <2>3. PICK p, q \in Seq(Names \cup {NULL}) : p = NamesOf(t, d) /\ q = NamesOf(t, c)
    BY <1>3, <1>4, <2>2
  <2>4. PICK m, n \in Names \cup {NULL} : m = t.info[x].name /\ n = t.info[y].name
    BY <1>1, <2>1
  <2>5. Append(p, m) = Append(q, n)
    BY <1>3, <2>2, <2>3, <2>4
  <2>6. p = q /\ m = n
    BY <2>5, AppendInjective
  <2>7. d = c
    <3>1. CASE d = NULL
      <4>1. q = <<>>
        BY <2>3, <2>6, <3>1 DEF NamesOf
      <4> QED  BY <1>3, <1>5, <2>2, <2>3, <3>1, <4>1
    <3>2. CASE d # NULL
      <4>1. d \in P /\ d \in L /\ d \in Entries
        BY <1>1, <1>6, <3>2
      <4>2. t.info[d].name # NULL
        BY <4>1, SetOfEmpty DEF NamelessAreBare
      <4>3. p = NamesTo(t, d) /\ p # <<>>
        BY <1>5, <2>3, <4>1
      <4>4. c # NULL
        BY <2>3, <2>6, <4>3 DEF NamesOf
      <4>5. c \in L /\ q = NamesTo(t, c)
        BY <1>3, <1>5, <2>2, <2>3, <4>4
      <4> QED  BY <2>6, <4>1, <4>2, <4>3, <4>5
    <3> QED  BY <3>1, <3>2
  <2> QED  BY <2>2, <2>4, <2>6, <2>7 DEF Distinct
<1>7. ClosedFrom(t.kids, NULL, P)
  <2>1. NULL \in Places /\ \A x \in P : x \in Places
    BY <1>1
  <2> HIDE DEF P
  <2> QED  BY <1>6, <2>1 DEF ClosedFrom
<1>8. Descendants(t.kids, NULL) \subseteq P
  <2> HIDE DEF P
  <2> QED  BY <1>1, <1>7, DescendantsInduct
<1> QED  BY <1>1, <1>8, ForestFacts

(***************************************************************************)
(* Paths.  The loaders make paths in which names and separators alternate, *)
(* such as /a/b/ without the first separator, the calls that add entries   *)
(* never do.                                                               *)
(***************************************************************************)
EndsInSep(path) == path = <<>> \/ path[Len(path)] = SEP

Alternating(path) ==
    \A i \in 1 .. Len(path) : path[i] = SEP <=> i > 1 /\ path[i - 1] # SEP

Regular(path, type) == Alternating(path) /\ (type = "dir" <=> EndsInSep(path))

Irregular(path) == \E i \in 1 .. Len(path) : path[i] = SEP /\ (i = 1 \/ path[i - 1] = SEP)

LEMMA LastAppended ==
    ASSUME NEW S, NEW s \in Seq(S), s # <<>>
    PROVE  \E t \in Seq(S), e \in S : s = Append(t, e)
<1> DEFINE P == {r \in Seq(S) : r # <<>> => \E t \in Seq(S), e \in S : r = Append(t, e)}
<1>1. <<>> \in P
  BY EmptySeq
<1>2. ASSUME NEW t \in Seq(S), t \in P, NEW e \in S PROVE Append(t, e) \in P
  BY AppendProperties
<1>3. Seq(S) \subseteq P
  <2> HIDE DEF P
  <2> QED  BY <1>1, <1>2, SeqInduct
<1> QED  BY <1>3

LEMMA AppendedPath ==
    ASSUME NEW s \in Seq(Parts), NEW e \in Parts
    PROVE  /\ EndsInSep(Append(s, e)) <=> e = SEP
           /\ Alternating(Append(s, e)) <=> Alternating(s) /\ (e = SEP <=> ~ EndsInSep(s))
           /\ Irregular(Append(s, e)) <=> Irregular(s) \/ (e = SEP /\ EndsInSep(s))
<1>1. PICK t \in Seq(Parts) : /\ t = Append(s, e) /\ t # <<>> /\ Len(t) = Len(s) + 1
                              /\ t[Len(t)] = e
                              /\ \A i \in 1 .. Len(s) : t[i] = s[i]
  <2>1. /\ Append(s, e) \in Seq(Parts) /\ Append(s, e) # <<>>
        /\ Len(Append(s, e)) = Len(s) + 1
        /\ \A i \in 1 .. Len(s) : Append(s, e)[i] = s[i]
        /\ Append(s, e)[Len(s) + 1] = e
    BY AppendProperties
  <2> QED  BY <2>1
<1>2. Len(s) \in Nat /\ (s = <<>> <=> Len(s) = 0)
  BY EmptySeq
<1>3. EndsInSep(t) <=> e = SEP
  BY <1>1 DEF EndsInSep
<1>4. EndsInSep(s) <=> Len(s) = 0 \/ t[Len(s)] = SEP
  BY <1>1, <1>2 DEF EndsInSep
<1>5. PICK n \in Nat : n = Len(s) + 1 /\ n - 1 = Len(s) /\ Len(t) = n /\ (n > 1 <=> Len(s) # 0)
  BY <1>1, <1>2
<1>6. \A i \in 1 .. Len(s) : i \in 1 .. n /\ (i > 1 => i - 1 \in 1 .. Len(s))
  BY <1>5
<1>7. \A i \in 1 .. n : i = n \/ i \in 1 .. Len(s)
  BY <1>5
<1>8. n \in 1 .. n /\ t[n] = e /\ (EndsInSep(s) <=> n = 1 \/ t[n - 1] = SEP)
  <2>1. n \in 1 .. n /\ (n = 1 <=> Len(s) = 0)
    BY <1>2, <1>5
  <2>2. t[n] = e /\ t[n - 1] = t[Len(s)]
    BY <1>1, <1>5
  <2> QED  BY <1>4, <2>1, <2>2
<1>9. Alternating(s) <=> \A i \in 1 .. Len(s) : t[i] = SEP <=> i > 1 /\ t[i - 1] # SEP
  BY <1>1, <1>6 DEF Alternating
<1>10. Irregular(s) <=> \E i \in 1 .. Len(s) : t[i] = SEP /\ (i = 1 \/ t[i - 1] = SEP)
  BY <1>1, <1>6 DEF Irregular
<1>11. Alternating(t) <=> Alternating(s) /\ (e = SEP <=> ~ EndsInSep(s))
  BY <1>5, <1>6, <1>7, <1>8, <1>9 DEF Alternating
<1>12. Irregular(t) <=> Irregular(s) \/ (e = SEP /\ EndsInSep(s))
  BY <1>5, <1>6, <1>7, <1>8, <1>10 DEF Irregular
<1> QED  BY <1>1, <1>3, <1>11, <1>12

LEMMA EmptyPath ==
    /\ EndsInSep(<<>>) /\ Alternating(<<>>) /\ Regular(<<>>, "dir") /\ ~ Irregular(<<>>)
    /\ Stripped(<<>>) = <<>> /\ <<>> \in Seq(Parts)
<1>1. Len(<<>>) = 0 /\ <<>> \in Seq(Parts)
  BY EmptySeq
<1> QED  BY <1>1, OnlyEmpty DEF EndsInSep, Alternating, Regular, Irregular, Stripped

\* No path is of both kinds.
LEMMA OneKind ==
    ASSUME NEW path, NEW type, Regular(path, type)
    PROVE  ~ Irregular(path)
<1>1. \A i \in 1 .. Len(path) : path[i] = SEP <=> i > 1 /\ path[i - 1] # SEP
  BY DEF Regular, Alternating
<1> QED  BY <1>1 DEF Irregular

LEMMA StrippedAppend ==
    ASSUME NEW s \in Seq(Parts), NEW e \in Parts
    PROVE  /\ Stripped(s) \in Seq(Names)
           /\ Stripped(Append(s, e)) = IF e = SEP THEN Stripped(s) ELSE Append(Stripped(s), e)
<1>1. e \in Names <=> e # SEP
  BY PathsAssumption DEF Parts
<1>2. Only(s, Names) \in Seq(Names)
  <2> DEFINE P == {p \in Seq(Parts) : Only(p, Names) \in Seq(Names)}
  <2>1. <<>> \in P
    BY OnlyEmpty, EmptySeq
  <2>2. ASSUME NEW p \in Seq(Parts), p \in P, NEW x \in Parts PROVE Append(p, x) \in P
    <3>1. Append(p, x) \in Seq(Parts)
      BY AppendProperties
    <3>2. Only(Append(p, x), Names) = IF x \in Names THEN Append(Only(p, Names), x) ELSE Only(p, Names)
      BY OnlyAppend
    <3>3. x \in Names => Append(Only(p, Names), x) \in Seq(Names)
      BY <2>2, AppendProperties
    <3> QED  BY <2>2, <3>1, <3>2, <3>3
  <2>3. Seq(Parts) \subseteq P
    <3> HIDE DEF P
    <3> QED  BY <2>1, <2>2, SeqInduct
  <2> QED  BY <2>3
<1> QED  BY <1>1, <1>2, OnlyAppend DEF Stripped

\* A path of the loaders is known by its names and by what it leads to.
LEMMA RegularUnique ==
    ASSUME NEW s \in Seq(Parts), NEW t \in Seq(Parts), NEW type, Regular(s, type), Regular(t, type),
           Stripped(s) = Stripped(t)
    PROVE  s = t
<1> DEFINE P == {p \in Seq(Parts) : \A q \in Seq(Parts) :
                    Alternating(p) /\ Alternating(q) /\ (EndsInSep(p) <=> EndsInSep(q))
                      /\ Stripped(p) = Stripped(q) => p = q}
<1>1. <<>> \in P
  <2> SUFFICES ASSUME NEW q \in Seq(Parts), Alternating(q), EndsInSep(q), Stripped(q) = <<>>,
                      q # <<>>
               PROVE  FALSE
    BY EmptyPath
  <2>1. PICK r \in Seq(Parts), e \in Parts : q = Append(r, e)
    BY LastAppended
  <2>2. e = SEP /\ Alternating(r) /\ ~ EndsInSep(r) /\ Stripped(r) = <<>>
    BY <2>1, AppendedPath, StrippedAppend
  <2>3. PICK x \in Seq(Parts), f \in Parts : r = Append(x, f)
    BY <2>2, LastAppended DEF EndsInSep
  <2>4. f # SEP /\ Stripped(r) = Append(Stripped(x), f) /\ Stripped(x) \in Seq(Names)
    BY <2>2, <2>3, AppendedPath, StrippedAppend
  <2>5. Append(Stripped(x), f) # <<>>
    <3>1. f \in Names
      BY <2>4 DEF Parts
    <3> QED  BY <2>4, <3>1, AppendProperties
  <2> QED  BY <2>2, <2>4, <2>5
<1>2. ASSUME NEW p \in Seq(Parts), p \in P, NEW e \in Parts PROVE Append(p, e) \in P
  <2>1. Append(p, e) \in Seq(Parts)
    BY AppendProperties
  <2> SUFFICES ASSUME NEW q \in Seq(Parts), Alternating(Append(p, e)), Alternating(q),
                      EndsInSep(Append(p, e)) <=> EndsInSep(q), Stripped(Append(p, e)) = Stripped(q)
               PROVE  Append(p, e) = q
    BY <2>1
  <2>2. Alternating(p) /\ (e = SEP <=> ~ EndsInSep(p)) /\ (EndsInSep(q) <=> e = SEP)
    BY AppendedPath
  <2>3. Stripped(q) = IF e = SEP THEN Stripped(p) ELSE Append(Stripped(p), e)
    BY StrippedAppend
  <2>4. Stripped(p) \in Seq(Names) /\ (e # SEP => e \in Names)
    BY StrippedAppend DEF Parts
  <2>5. q # <<>>
    <3> SUFFICES ASSUME q = <<>> PROVE FALSE
      OBVIOUS
    <3>1. e = SEP /\ Stripped(p) = <<>> /\ ~ EndsInSep(p)
      BY <2>2, <2>3, EmptyPath
    <3>2. PICK x \in Seq(Parts), f \in Parts : p = Append(x, f)
      BY <3>1, LastAppended DEF EndsInSep
    <3>3. f # SEP /\ Stripped(p) = Append(Stripped(x), f) /\ Stripped(x) \in Seq(Names)
      BY <3>1, <3>2, AppendedPath, StrippedAppend
    <3>4. Append(Stripped(x), f) # <<>>
      BY <3>3, AppendProperties DEF Parts
    <3> QED  BY <3>1, <3>3, <3>4
  <2>6. PICK r \in Seq(Parts), f \in Parts : q = Append(r, f)
    BY <2>5, LastAppended
  <2>7. /\ Alternating(r) /\ (f = SEP <=> ~ EndsInSep(r)) /\ (f = SEP <=> e = SEP)
        /\ EndsInSep(r) <=> EndsInSep(p)
    BY <2>2, <2>6, AppendedPath
  <2>8. /\ Stripped(q) = IF f = SEP THEN Stripped(r) ELSE Append(Stripped(r), f)
        /\ Stripped(r) \in Seq(Names) /\ (f # SEP => f \in Names)
    BY <2>6, StrippedAppend DEF Parts
  <2>9. Stripped(p) = Stripped(r) /\ e = f
    <3>1. CASE e = SEP
      BY <2>3, <2>7, <2>8, <3>1
    <3>2. CASE e # SEP
      <4>1. Append(Stripped(p), e) = Append(Stripped(r), f)
        BY <2>3, <2>7, <2>8, <3>2
      <4> QED  BY <2>4, <2>7, <2>8, <3>2, <4>1, AppendInjective
    <3> QED  BY <3>1, <3>2
  <2> QED  BY <1>2, <2>2, <2>6, <2>7, <2>9
<1>3. Seq(Parts) \subseteq P
  <2> HIDE DEF P
  <2> QED  BY <1>1, <1>2, SeqInduct
<1> QED  BY <1>3 DEF Regular

LEMMA FormedPathFacts ==
    ASSUME NEW p \in Seq(Parts), NEW n \in Names, NEW type \in {"file", "dir"},
           NEW how \in {"added", "loaded"}
    PROVE  /\ FormedPath(p, n, type, how) \in Seq(Parts) \ {<<>>}
           /\ Stripped(FormedPath(p, n, type, how)) = Append(Stripped(p), n)
           /\ how = "loaded" /\ Regular(p, "dir") => Regular(FormedPath(p, n, type, how), type)
           /\ how = "added" /\ (Regular(p, "dir") \/ Irregular(p))
                => Irregular(FormedPath(p, n, type, how))
<1>1. n \in Parts /\ SEP \in Parts /\ n # SEP
  BY PathsAssumption DEF Parts
<1>2. PICK a \in Seq(Parts) : a = Append(p, n) /\ a # <<>>
  BY <1>1, AppendProperties
<1>3. PICK b \in Seq(Parts) : b = Append(p, SEP) /\ b # <<>>
  BY <1>1, AppendProperties
<1>4. PICK c \in Seq(Parts) : c = Append(a, SEP) /\ c # <<>>
  BY <1>1, AppendProperties
<1>5. PICK d \in Seq(Parts) : d = Append(b, n) /\ d # <<>>
  BY <1>1, AppendProperties
<1>6. /\ p \o <<n>> = a /\ p \o <<n, SEP>> = c /\ p \o <<SEP, n>> = d
  BY <1>1, <1>2, <1>3, <1>4, <1>5
<1>7. FormedPath(p, n, type, how)
        = IF how = "added" THEN d ELSE IF type = "file" THEN a ELSE c
  BY <1>6 DEF FormedPath
<1>8. /\ Stripped(a) = Append(Stripped(p), n) /\ Stripped(c) = Stripped(a)
      /\ Stripped(b) = Stripped(p) /\ Stripped(d) = Append(Stripped(b), n)
  BY <1>1, <1>2, <1>3, <1>4, <1>5, StrippedAppend
<1>9. Alternating(p) /\ EndsInSep(p) =>
        Alternating(a) /\ ~ EndsInSep(a) /\ Alternating(c) /\ EndsInSep(c) /\ Irregular(b)
  BY <1>1, <1>2, <1>3, <1>4, AppendedPath
<1>10. Irregular(p) => Irregular(b)
  BY <1>1, <1>3, AppendedPath
<1>11. Irregular(b) => Irregular(d)
  BY <1>1, <1>5, AppendedPath
<1>12. CASE how = "added"
  BY <1>5, <1>7, <1>8, <1>9, <1>10, <1>11, <1>12 DEF Regular
<1>13. CASE how = "loaded" /\ type = "file"
  BY <1>2, <1>7, <1>8, <1>9, <1>13 DEF Regular
<1>14. CASE how = "loaded" /\ type = "dir"
  BY <1>4, <1>7, <1>8, <1>9, <1>14 DEF Regular
<1> QED  BY <1>12, <1>13, <1>14

(***************************************************************************)
(* Trees.                                                                  *)
(***************************************************************************)
LEMMA InfoFacts ==
    ASSUME NEW i \in Infos
    PROVE  /\ i.type \in {"file", "dir", "untyped", "none"}
           /\ i.size \in Int /\ i.start \in Int /\ i.time \in Times
           /\ i.type \in {"file", "dir"} =>
                /\ i.name \in Names /\ i.name # NULL
                /\ i.path \in Seq(Parts) /\ i.path # <<>> /\ i.path # NULL
           /\ i.type \in {"untyped", "none"} => i.name = NULL /\ i.path = NULL
           /\ i.type = "dir" => i.size = 0 /\ i.start = -1
           /\ i = NoInfo <=> i.type = "none"
           /\ i.type = "untyped" => i = UntypedInfo
           /\ i.type = "file" => i \in FileInfos
           /\ i.type = "dir" => i \in DirInfos
<1>1. NULL \notin Names /\ NULL \notin Seq(Parts)
  BY PathsAssumption DEF Parts
<1>2. CASE i \in FileInfos
  BY <1>1, <1>2 DEF FileInfos, NoInfo, UntypedInfo
<1>3. CASE i \in DirInfos
  BY <1>1, <1>3 DEF DirInfos, NoInfo, UntypedInfo
<1>4. CASE i = UntypedInfo \/ i = NoInfo
  BY <1>4 DEF NoInfo, UntypedInfo, Times
<1> QED  BY <1>2, <1>3, <1>4 DEF Infos

\* What all trees of a session are: a forest whose entries have their members set;
\* only directories have something in them.
TreeOK(t) ==
    /\ t = [kids |-> t.kids, info |-> t.info]
    /\ Forest(t.kids)
    /\ t.info \in [Entries -> Infos]
    /\ \A e \in Entries : t.info[e].type # "none" <=> e \in Linked(t.kids)
    /\ \A d \in Entries : t.kids[d] # <<>> => t.info[d].type = "dir"

LEMMA TreeFacts ==
    ASSUME NEW t, TreeOK(t)
    PROVE  /\ Forest(t.kids) /\ Named(t) /\ NamelessAreBare(t)
           /\ Content(t) = Linked(t.kids)
           /\ \A e \in Linked(t.kids) : /\ e \in Entries /\ e \in Places /\ e # NULL
                                        /\ t.info[e] \in Infos /\ t.info[e].type # "none"
           /\ Dirs(t) \subseteq Linked(t.kids) /\ Files(t) \subseteq Linked(t.kids)
           /\ Untyped(t) \subseteq Linked(t.kids)
           /\ \A d \in Places : \A e \in ToSet(t.kids[d]) : d \in Dirs(t) \cup {NULL}
<1>1. Forest(t.kids) /\ t.info \in [Entries -> Infos]
  BY DEF TreeOK
<1>2. \A e \in Entries : t.info[e] \in Infos
  BY <1>1
<1>3. Content(t) = Linked(t.kids)
  BY <1>1, ForestFacts DEF Content
<1>4. \A e \in Linked(t.kids) : e \in Entries /\ e \in Places /\ e # NULL /\ t.info[e] \in Infos
  BY <1>1, <1>2, PathsAssumption DEF Linked, Places
<1>5. ASSUME NEW e \in Entries
      PROVE  /\ t.info[e].name \in Names \cup {NULL}
             /\ t.info[e].type = "dir" => t.info[e].name # NULL
  BY <1>2, InfoFacts
<1>6. Named(t)
  BY <1>1, <1>4, <1>5 DEF Named
<1>7. NamelessAreBare(t)
  BY <1>5 DEF NamelessAreBare, TreeOK
<1>8. ASSUME NEW d \in Places, NEW e \in ToSet(t.kids[d]) PROVE d \in Dirs(t) \cup {NULL}
  <2> SUFFICES ASSUME d # NULL PROVE d \in Dirs(t)
    OBVIOUS
  <2>1. d \in Entries /\ t.kids[d] # <<>>
    BY SetOfEmpty DEF Places
  <2>2. t.info[d].type = "dir" /\ d \in Linked(t.kids)
    BY <1>1, <2>1, ForestFacts DEF TreeOK, NoneLoose
  <2> QED  BY <1>3, <2>2 DEF Dirs
<1>9. \A e \in Linked(t.kids) : t.info[e].type # "none"
  BY <1>4 DEF TreeOK
<1> QED  BY <1>1, <1>3, <1>4, <1>6, <1>7, <1>8, <1>9 DEF Dirs, Files, Untyped

LEMMA NoTreeOK == TreeOK(NoTree) /\ Linked(NoTree.kids) = {}
<1>1. /\ NoTree.kids = [d \in Places |-> <<>>] /\ NoTree.info = [e \in Entries |-> NoInfo]
      /\ NoTree = [kids |-> NoTree.kids, info |-> NoTree.info]
  BY DEF NoTree
<1>2. \A d \in Places : NoTree.kids[d] = <<>> /\ ToSet(NoTree.kids[d]) = {}
  BY <1>1, SetOfEmpty
<1>3. Lists(NoTree.kids)
  BY <1>1, EmptySeq DEF Lists
<1>4. Linked(NoTree.kids) = {}
  BY <1>2 DEF Linked
<1>5. Heights(NoTree.kids, 0, [d \in Places |-> 0])
  BY <1>2 DEF Heights
<1>6. Forest(NoTree.kids)
  BY <1>2, <1>3, <1>5 DEF Forest, Founded, OneParent, NoneLoose, Places
<1>7. NoInfo \in Infos /\ NoInfo.type = "none"
  BY DEF Infos, NoInfo
<1>8. NoTree.info \in [Entries -> Infos]
  BY <1>1, <1>7
<1>9. \A e \in Entries : NoTree.info[e].type = "none" /\ NoTree.kids[e] = <<>>
  BY <1>1, <1>2, <1>7 DEF Places
<1> QED  BY <1>1, <1>4, <1>6, <1>8, <1>9 DEF TreeOK

\* What the lemmas on Added take of the members of a new entry.
Members(name, type, size, time, how) ==
    /\ name \in Names /\ type \in {"file", "dir", "untyped"} /\ size \in Int /\ time \in Times
    /\ how \in {"added", "loaded"}
    /\ type = "dir" => size = 0

LEMMA PathOfDir ==
    ASSUME NEW t, TreeOK(t), NEW d \in Dirs(t) \cup {NULL}
    PROVE  PathOf(t, d) \in Seq(Parts) /\ (d # NULL => PathOf(t, d) = t.info[d].path)
<1>1. CASE d = NULL
  BY <1>1, EmptySeq DEF PathOf
<1>2. CASE d # NULL
  <2>1. d \in Linked(t.kids) /\ t.info[d].type = "dir" /\ t.info[d] \in Infos
    BY <1>2, TreeFacts DEF Dirs
  <2> QED  BY <1>2, <2>1, InfoFacts DEF PathOf
<1> QED  BY <1>1, <1>2

\* u is the tree t with a new entry.
IsAdded(t, d, e, name, type, size, time, how, u) ==
    /\ TreeOK(t) /\ d \in Dirs(t) \cup {NULL} /\ e \in Entries \ Content(t)
    /\ Members(name, type, size, time, how)
    /\ u = Added(t, d, e, name, type, size, time, how)

\* What that says of lists and members.
AddsTo(t, d, e, name, type, size, time, how, u) ==
    /\ TreeOK(u) /\ Linked(u.kids) = Linked(t.kids) \cup {e}
    /\ ToSet(u.kids[d]) = ToSet(t.kids[d]) \cup {e}
    /\ \A c \in Places : c # d => u.kids[c] = t.kids[c]
    /\ \A x \in Linked(t.kids) : u.info[x] = t.info[x]
    /\ type = "untyped" => u.info[e] = UntypedInfo
    /\ type # "untyped" =>
         u.info[e] = [type |-> type, name |-> name, size |-> size, start |-> -1,
                      time |-> time, path |-> FormedPath(PathOf(t, d), name, type, how)]

LEMMA AddedTree ==
    ASSUME NEW t, NEW d, NEW e, NEW name, NEW type, NEW size, NEW time, NEW how, NEW u,
           IsAdded(t, d, e, name, type, size, time, how, u)
    PROVE  AddsTo(t, d, e, name, type, size, time, how, u)
<1>0. /\ TreeOK(t) /\ d \in Dirs(t) \cup {NULL} /\ e \in Entries \ Content(t)
      /\ Members(name, type, size, time, how)
      /\ u = Added(t, d, e, name, type, size, time, how)
  BY DEF IsAdded
<1>1. /\ Forest(t.kids) /\ Content(t) = Linked(t.kids) /\ t.info \in [Entries -> Infos]
      /\ d \in Linked(t.kids) \cup {NULL} /\ e \in Entries \ Linked(t.kids)
      /\ t = [kids |-> t.kids, info |-> t.info]
  BY <1>0, TreeFacts DEF TreeOK
<1>2. /\ u.kids = Extended(t.kids, d, e)
      /\ u = [kids |-> u.kids, info |-> u.info]
  BY <1>0 DEF Added, Extended
<1>3. /\ Forest(u.kids) /\ Linked(u.kids) = Linked(t.kids) \cup {e}
      /\ ToSet(u.kids[d]) = ToSet(t.kids[d]) \cup {e}
      /\ \A c \in Places : c # d => u.kids[c] = t.kids[c]
  <2>1. PICK k, m : k = t.kids /\ m = u.kids
    OBVIOUS
  <2>2. Forest(k) /\ d \in Linked(k) \cup {NULL} /\ e \in Entries \ Linked(k) /\ m = Extended(k, d, e)
    BY <1>1, <1>2, <2>1
  <2>3. /\ Forest(m) /\ Linked(m) = Linked(k) \cup {e} /\ ToSet(m[d]) = ToSet(k[d]) \cup {e}
        /\ \A c \in Places : c # d => m[c] = k[c]
    BY <2>2, ForestAdded
  <2> QED  BY <2>1, <2>3
<1> DEFINE new == IF type = "untyped" THEN UntypedInfo
                  ELSE [type |-> type, name |-> name, size |-> size, start |-> -1,
                        time |-> time, path |-> FormedPath(PathOf(t, d), name, type, how)]
<1>4. u.info = [t.info EXCEPT ![e] = new]
  BY <1>0 DEF Added, UntypedInfo
<1>5. new \in Infos /\ new.type = type
  <2>1. CASE type = "untyped"
    BY <2>1 DEF Infos, UntypedInfo, NoInfo
  <2>2. CASE type # "untyped"
    <3>1. type \in {"file", "dir"} /\ name \in Names /\ how \in {"added", "loaded"}
      BY <1>0, <2>2 DEF Members
    <3>2. PICK p : p = FormedPath(PathOf(t, d), name, type, how) /\ p \in Seq(Parts) \ {<<>>}
      BY <1>0, <3>1, PathOfDir, FormedPathFacts
    <3>3. new = [type |-> type, name |-> name, size |-> size, start |-> -1, time |-> time,
                 path |-> p]
      BY <2>2, <3>2
    <3>4. type = "file" => new \in FileInfos
      BY <1>0, <3>2, <3>3 DEF FileInfos, Members
    <3>5. type = "dir" => new \in DirInfos
      BY <1>0, <3>2, <3>3 DEF DirInfos, Members
    <3> QED  BY <3>1, <3>3, <3>4, <3>5 DEF Infos
  <2> QED  BY <2>1, <2>2
<1> HIDE DEF new
<1>6. u.info \in [Entries -> Infos] /\ u.info[e] = new /\ \A x \in Entries \ {e} : u.info[x] = t.info[x]
  BY <1>1, <1>4, <1>5
<1>7. type # "none"
  BY <1>0 DEF Members
<1>8. ASSUME NEW x \in Entries PROVE u.info[x].type # "none" <=> x \in Linked(u.kids)
  BY <1>0, <1>3, <1>5, <1>6, <1>7 DEF TreeOK
<1>9. ASSUME NEW x \in Entries, u.kids[x] # <<>> PROVE u.info[x].type = "dir"
  <2>1. t.kids[e] = <<>> /\ e # d /\ e \in Places /\ x \in Places
    BY <1>1, ForestFacts, ListSets
  <2>2. CASE x = d
    <3>1. t.info[x].type = "dir" /\ x # e
      BY <1>0, <1>1, <2>1, <2>2, ListSets, ForestFacts DEF Dirs
    <3> QED  BY <1>6, <3>1
  <2>3. CASE x # d
    <3>1. t.kids[x] # <<>> /\ x # e
      BY <1>3, <1>9, <2>1, <2>3
    <3> QED  BY <1>0, <1>6, <3>1 DEF TreeOK
  <2> QED  BY <2>2, <2>3
<1>10. TreeOK(u)
  BY <1>2, <1>3, <1>6, <1>8, <1>9 DEF TreeOK
<1>11. \A x \in Linked(t.kids) : x \in Entries \ {e}
  BY <1>1 DEF Linked
<1> QED  BY <1>3, <1>6, <1>10, <1>11 DEF new, AddsTo

(***************************************************************************)
(* Stale paths, and whose paths the loaders made.                          *)
(***************************************************************************)
\* The path of e does not lead to where e is.
StaleIn(t, e) == Stripped(t.info[e].path) # NamesTo(t, e)

StaleOnlyBelow(t, tops) ==
    \A e \in Content(t) \ Untyped(t) :
       StaleIn(t, e) => \E top \in tops : e \in Subtree(t, top)

\* The entries in from, and no others, have paths as the loaders make them.
PathsOK(t, from) ==
    \A e \in Content(t) \ Untyped(t) :
       IF e \in from THEN Regular(t.info[e].path, t.info[e].type) ELSE Irregular(t.info[e].path)

LEMMA TypedFacts ==
    ASSUME NEW t, TreeOK(t), NEW e \in Content(t) \ Untyped(t)
    PROVE  /\ e \in Entries /\ e \in Linked(t.kids)
           /\ t.info[e].type \in {"file", "dir"}
           /\ t.info[e].name \in Names /\ t.info[e].name # NULL
           /\ t.info[e].path \in Seq(Parts) /\ t.info[e].path # <<>> /\ t.info[e].path # NULL
<1>1. e \in Linked(t.kids) /\ e \in Entries /\ t.info[e] \in Infos /\ t.info[e].type # "none"
  BY TreeFacts
<1>2. t.info[e].type # "untyped"
  BY DEF Untyped
<1> QED  BY <1>1, <1>2, InfoFacts

\* The directories of a tree have paths of one of the two kinds, the root has that of
\* the loaders.
LEMMA DirPaths ==
    ASSUME NEW t, TreeOK(t), NEW from, PathsOK(t, from), NEW d \in Dirs(t) \cup {NULL}
    PROVE  /\ d \in from \cup {NULL} => Regular(PathOf(t, d), "dir")
           /\ d \notin from \cup {NULL} => Irregular(PathOf(t, d))
<1>1. CASE d = NULL
  BY <1>1, EmptyPath DEF PathOf
<1>2. CASE d # NULL
  <2>1. d \in Content(t) \ Untyped(t) /\ t.info[d].type = "dir"
    BY <1>2, TreeFacts DEF Dirs, Untyped
  <2> QED  BY <1>2, <2>1 DEF PathsOK, PathOf
<1> QED  BY <1>1, <1>2

LEMMA AddedNames ==
    ASSUME NEW t, NEW d, NEW e, NEW name, NEW type, NEW size, NEW time, NEW how, NEW u,
           IsAdded(t, d, e, name, type, size, time, how, u)
    PROVE  /\ \A x \in Content(t) : NamesTo(u, x) = NamesTo(t, x)
           /\ NamesTo(u, e) = Append(NamesOf(t, d), u.info[e].name)
           /\ \A top \in Places : Descendants(t.kids, top) \subseteq Descendants(u.kids, top)
           /\ \A top \in Places :
                 d \in {top} \cup Descendants(t.kids, top) => e \in Descendants(u.kids, top)
<1>1. TreeOK(t) /\ d \in Dirs(t) \cup {NULL} /\ e \in Entries \ Content(t)
  BY DEF IsAdded
<1>2. /\ TreeOK(u) /\ Linked(u.kids) = Linked(t.kids) \cup {e}
      /\ ToSet(u.kids[d]) = ToSet(t.kids[d]) \cup {e}
      /\ \A c \in Places : c # d => u.kids[c] = t.kids[c]
      /\ \A x \in Linked(t.kids) : u.info[x] = t.info[x]
  <2>1. AddsTo(t, d, e, name, type, size, time, how, u)
    BY AddedTree
  <2> QED  BY <2>1 DEF AddsTo
<1>3. /\ Named(t) /\ Named(u) /\ Content(t) = Linked(t.kids) /\ Forest(t.kids) /\ Forest(u.kids)
      /\ d \in Places /\ d \in Linked(t.kids) \cup {NULL} /\ e \in Places /\ d # e
  <2>1. Named(t) /\ Named(u) /\ Content(t) = Linked(t.kids) /\ Forest(t.kids) /\ Forest(u.kids)
    BY <1>1, <1>2, TreeFacts
  <2>2. d \in Linked(t.kids) \cup {NULL}
    BY <1>1, TreeFacts
  <2> QED  BY <1>1, <2>1, <2>2, PathsAssumption DEF Linked, Places
<1>4. SameAbove(t, u, Linked(t.kids))
  <2> SUFFICES ASSUME NEW x \in Linked(t.kids), NEW c \in Places, x \in ToSet(u.kids[c])
               PROVE  /\ x \in ToSet(t.kids[c]) /\ c \in Linked(t.kids) \cup {NULL}
                      /\ u.info[x].name = t.info[x].name
    BY DEF SameAbove
  <2>1. x # e
    BY <1>1, <1>3
  <2>2. x \in ToSet(t.kids[c])
    <3>1. CASE c = d
      BY <1>2, <2>1, <3>1
    <3>2. CASE c # d
      BY <1>2, <3>2
    <3> QED  BY <3>1, <3>2
  <2>3. c \in Linked(t.kids) \cup {NULL}
    BY <1>3, <2>2, ForestFacts, SetOfEmpty
  <2> QED  BY <1>2, <2>2, <2>3
<1>5. \A x \in Content(t) : NamesTo(u, x) = NamesTo(t, x)
  BY <1>2, <1>3, <1>4, NamesSame
<1>6. NamesTo(u, e) = Append(NamesOf(t, d), u.info[e].name)
  <2>1. e \in ToSet(u.kids[d])
    BY <1>2
  <2>2. NamesTo(u, e) = Append(NamesOf(u, d), u.info[e].name)
    BY <1>3, <2>1, NamesDef
  <2>3. NamesOf(u, d) = NamesOf(t, d)
    BY <1>3, <1>5 DEF NamesOf
  <2> QED  BY <2>2, <2>3
<1>7. ASSUME NEW top \in Places
      PROVE  /\ Descendants(t.kids, top) \subseteq Descendants(u.kids, top)
             /\ d \in {top} \cup Descendants(t.kids, top) => e \in Descendants(u.kids, top)
  <2>1. \A c \in Places : ToSet(t.kids[c]) \subseteq ToSet(u.kids[c])
    BY <1>2
  <2>2. \A c \in {top} \cup Descendants(t.kids, top) : c \in Places
    BY <1>3, ForestFacts, DescendantsDef, ListSets
  <2>3. Descendants(t.kids, top) \subseteq Descendants(u.kids, top)
    BY <1>3, <2>1, <2>2, ForestFacts, DescendantsGrow
  <2>4. d \in {top} \cup Descendants(u.kids, top) => e \in Descendants(u.kids, top)
    BY <1>2, <1>3, ForestParent
  <2> QED  BY <2>3, <2>4
<1> QED  BY <1>5, <1>6, <1>7

LEMMA AddedStale ==
    ASSUME NEW t, NEW d, NEW e, NEW name, NEW type, NEW size, NEW time, NEW how, NEW u,
           IsAdded(t, d, e, name, type, size, time, how, u),
           NEW tops, tops \subseteq Content(t), StaleOnlyBelow(t, tops)
    PROVE  StaleOnlyBelow(u, tops)
<1>1. /\ TreeOK(t) /\ d \in Dirs(t) \cup {NULL} /\ e \in Entries \ Content(t)
      /\ Members(name, type, size, time, how)
  BY DEF IsAdded
<1>2. /\ TreeOK(u) /\ Linked(u.kids) = Linked(t.kids) \cup {e}
      /\ \A x \in Linked(t.kids) : u.info[x] = t.info[x]
      /\ type = "untyped" => u.info[e] = UntypedInfo
      /\ type # "untyped" =>
           u.info[e] = [type |-> type, name |-> name, size |-> size, start |-> -1,
                        time |-> time, path |-> FormedPath(PathOf(t, d), name, type, how)]
  <2>1. AddsTo(t, d, e, name, type, size, time, how, u)
    BY AddedTree
  <2> QED  BY <2>1 DEF AddsTo
<1>3. /\ Content(t) = Linked(t.kids) /\ Content(u) = Linked(u.kids)
      /\ \A top \in tops : top \in Places
  BY <1>1, <1>2, TreeFacts
<1>4. /\ \A x \in Content(t) : NamesTo(u, x) = NamesTo(t, x)
      /\ NamesTo(u, e) = Append(NamesOf(t, d), u.info[e].name)
      /\ \A top \in Places : Descendants(t.kids, top) \subseteq Descendants(u.kids, top)
      /\ \A top \in Places :
            d \in {top} \cup Descendants(t.kids, top) => e \in Descendants(u.kids, top)
  BY AddedNames
<1> SUFFICES ASSUME NEW x \in Content(u) \ Untyped(u), StaleIn(u, x)
             PROVE  \E top \in tops : x \in Subtree(u, top)
  BY DEF StaleOnlyBelow
<1>5. CASE x # e
  <2>1. x \in Content(t) /\ u.info[x] = t.info[x]
    BY <1>2, <1>3, <1>5
  <2>2. x \in Content(t) \ Untyped(t)
    BY <1>3, <2>1 DEF Untyped
  <2>3. StaleIn(t, x)
    BY <1>4, <2>1 DEF StaleIn
  <2>4. PICK top \in tops : x \in Subtree(t, top)
    BY <2>2, <2>3 DEF StaleOnlyBelow
  <2> QED  BY <1>3, <1>4, <2>4 DEF Subtree
<1>6. CASE x = e
  <2>1. type \in {"file", "dir"} /\ name \in Names /\ how \in {"added", "loaded"}
    <3>1. type # "untyped"
      BY <1>2, <1>6 DEF Untyped, UntypedInfo, NoInfo
    <3> QED  BY <1>1, <3>1 DEF Members
  <2>2. u.info[e].path = FormedPath(PathOf(t, d), name, type, how) /\ u.info[e].name = name
    BY <1>2, <2>1
  <2>3. Stripped(u.info[e].path) = Append(Stripped(PathOf(t, d)), name)
    <3>1. PICK p \in Seq(Parts) : p = PathOf(t, d)
      BY <1>1, PathOfDir
    <3>2. Stripped(FormedPath(p, name, type, how)) = Append(Stripped(p), name)
      BY <2>1, FormedPathFacts
    <3> QED  BY <2>2, <3>1, <3>2
  <2>4. Stripped(PathOf(t, d)) # NamesOf(t, d)
    BY <1>4, <1>6, <2>2, <2>3 DEF StaleIn
  <2>5. d # NULL
    BY <2>4, EmptyPath DEF PathOf, NamesOf
  <2>6. StaleIn(t, d) /\ d \in Content(t) \ Untyped(t)
    BY <1>1, <2>4, <2>5 DEF StaleIn, PathOf, NamesOf, Dirs, Untyped
  <2>7. PICK top \in tops : d \in Subtree(t, top)
    BY <2>6 DEF StaleOnlyBelow
  <2> QED  BY <1>3, <1>4, <1>6, <2>7 DEF Subtree
<1> QED  BY <1>5, <1>6

LEMMA AddedPaths ==
    ASSUME NEW t, NEW d, NEW e, NEW name, NEW type, NEW size, NEW time, NEW how, NEW u,
           IsAdded(t, d, e, name, type, size, time, how, u),
           NEW from, from \subseteq Content(t), PathsOK(t, from)
    PROVE  /\ how = "added" => PathsOK(u, from)
           /\ how = "loaded" /\ from = Content(t) => PathsOK(u, from \cup {e})
<1>1. /\ TreeOK(t) /\ d \in Dirs(t) \cup {NULL} /\ e \in Entries \ Content(t)
      /\ Members(name, type, size, time, how)
  BY DEF IsAdded
<1>2. /\ TreeOK(u) /\ Linked(u.kids) = Linked(t.kids) \cup {e}
      /\ \A x \in Linked(t.kids) : u.info[x] = t.info[x]
      /\ type = "untyped" => u.info[e] = UntypedInfo
      /\ type # "untyped" =>
           u.info[e] = [type |-> type, name |-> name, size |-> size, start |-> -1,
                        time |-> time, path |-> FormedPath(PathOf(t, d), name, type, how)]
  <2>1. AddsTo(t, d, e, name, type, size, time, how, u)
    BY AddedTree
  <2> QED  BY <2>1 DEF AddsTo
<1>3. Content(t) = Linked(t.kids) /\ Content(u) = Linked(u.kids)
  BY <1>1, <1>2, TreeFacts
<1>4. ASSUME NEW x \in Content(u) \ Untyped(u), x # e
      PROVE  x \in Content(t) \ Untyped(t) /\ u.info[x] = t.info[x]
  BY <1>2, <1>3, <1>4 DEF Untyped
<1>5. ASSUME e \in Content(u) \ Untyped(u)
      PROVE  /\ how = "added" => Irregular(u.info[e].path)
             /\ how = "loaded" /\ from = Content(t) => Regular(u.info[e].path, u.info[e].type)
  <2>1. type \in {"file", "dir"} /\ name \in Names /\ how \in {"added", "loaded"}
    <3>1. type # "untyped"
      BY <1>2, <1>5 DEF Untyped, UntypedInfo, NoInfo
    <3> QED  BY <1>1, <3>1 DEF Members
  <2>2. u.info[e].path = FormedPath(PathOf(t, d), name, type, how) /\ u.info[e].type = type
    BY <1>2, <2>1
  <2>3. PathOf(t, d) \in Seq(Parts)
    BY <1>1, PathOfDir
  <2>4. /\ d \in from \cup {NULL} => Regular(PathOf(t, d), "dir")
        /\ d \notin from \cup {NULL} => Irregular(PathOf(t, d))
    BY <1>1, DirPaths
  <2>5. from = Content(t) => d \in from \cup {NULL}
    BY <1>1 DEF Dirs
  <2> QED  BY <2>1, <2>2, <2>3, <2>4, <2>5, FormedPathFacts
<1>6. ASSUME how = "added" PROVE PathsOK(u, from)
  BY <1>1, <1>4, <1>5, <1>6 DEF PathsOK
<1>7. ASSUME how = "loaded", from = Content(t) PROVE PathsOK(u, from \cup {e})
  BY <1>4, <1>5, <1>7 DEF PathsOK
<1> QED  BY <1>6, <1>7

LEMMA AddedDistinct ==
    ASSUME NEW t, NEW d, NEW e, NEW name, NEW type, NEW size, NEW time, NEW how, NEW u,
           IsAdded(t, d, e, name, type, size, time, how, u),
           Distinct(t), \A x \in ToSet(t.kids[d]) : t.info[x].name # name
    PROVE  Distinct(u)
<1>1. /\ TreeOK(t) /\ d \in Dirs(t) \cup {NULL} /\ e \in Entries \ Content(t)
  BY DEF IsAdded
<1>2. /\ TreeOK(u) /\ Linked(u.kids) = Linked(t.kids) \cup {e}
      /\ ToSet(u.kids[d]) = ToSet(t.kids[d]) \cup {e}
      /\ \A c \in Places : c # d => u.kids[c] = t.kids[c]
      /\ \A x \in Linked(t.kids) : u.info[x] = t.info[x]
      /\ type = "untyped" => u.info[e] = UntypedInfo
      /\ type # "untyped" =>
           u.info[e] = [type |-> type, name |-> name, size |-> size, start |-> -1,
                        time |-> time, path |-> FormedPath(PathOf(t, d), name, type, how)]
  <2>1. AddsTo(t, d, e, name, type, size, time, how, u)
    BY AddedTree
  <2> QED  BY <2>1 DEF AddsTo
<1>3. u.info[e].name \in {name, NULL}
  BY <1>2 DEF UntypedInfo, NoInfo
<1>4. \A c \in Places : \A x \in ToSet(t.kids[c]) : u.info[x] = t.info[x]
  BY <1>1, <1>2, TreeFacts, ForestFacts, ListSets
<1>5. \A c \in Places : \A x \in ToSet(u.kids[c]) : x \in ToSet(t.kids[c]) \/ (x = e /\ c = d)
  <2> SUFFICES ASSUME NEW c \in Places, NEW x \in ToSet(u.kids[c])
               PROVE  x \in ToSet(t.kids[c]) \/ (x = e /\ c = d)
    OBVIOUS
  <2>1. CASE c = d
    BY <1>2, <2>1
  <2>2. CASE c # d
    BY <1>2, <2>2
  <2> QED  BY <2>1, <2>2
<1> QED  BY <1>3, <1>4, <1>5 DEF Distinct

\* u has no more than t, and what there is has its name.
Within(t, u) ==
    /\ TreeOK(t) /\ TreeOK(u)
    /\ \A c \in Places : ToSet(u.kids[c]) \subseteq ToSet(t.kids[c])
    /\ \A x \in Linked(u.kids) : u.info[x].name = t.info[x].name

LEMMA WithinNames ==
    ASSUME NEW t, NEW u, Within(t, u)
    PROVE  /\ \A x \in Content(u) : NamesTo(u, x) = NamesTo(t, x)
           /\ Content(u) \subseteq Content(t)
           /\ Distinct(t) => Distinct(u)
<1>1. /\ TreeOK(t) /\ TreeOK(u)
      /\ \A c \in Places : ToSet(u.kids[c]) \subseteq ToSet(t.kids[c])
      /\ \A x \in Linked(u.kids) : u.info[x].name = t.info[x].name
  BY DEF Within
<1>2. /\ Named(t) /\ Named(u) /\ Forest(u.kids) /\ Content(u) = Linked(u.kids)
      /\ Content(t) = Linked(t.kids)
  BY <1>1, TreeFacts
<1>3. SameAbove(t, u, Linked(u.kids))
  <2> SUFFICES ASSUME NEW x \in Linked(u.kids), NEW c \in Places, x \in ToSet(u.kids[c])
               PROVE  c \in Linked(u.kids) \cup {NULL}
    BY <1>1 DEF SameAbove
  <2> QED  BY <1>2, ForestFacts, SetOfEmpty
<1>4. \A c \in Places : \A x \in ToSet(u.kids[c]) : x \in Linked(u.kids)
  BY <1>2, ForestFacts, ListSets
<1>5. \A x \in Content(u) : NamesTo(u, x) = NamesTo(t, x)
  BY <1>2, <1>3, NamesSame
<1>6. Content(u) \subseteq Content(t)
  BY <1>1, <1>2 DEF Linked
<1>7. ASSUME Distinct(t) PROVE Distinct(u)
  BY <1>1, <1>4, <1>7 DEF Distinct
<1> QED  BY <1>5, <1>6, <1>7

(***************************************************************************)
(* Removing and moving.                                                    *)
(***************************************************************************)
IsRemoved(t, e, u) == TreeOK(t) /\ e \in Content(t) /\ u = Removed(t, e)

RemovesFrom(t, e, u) ==
    /\ TreeOK(u) /\ Linked(u.kids) = Linked(t.kids) \ Subtree(t, e)
    /\ Content(u) = Content(t) \ Subtree(t, e)
    /\ Within(t, u)
    /\ \A x \in Content(u) : u.info[x] = t.info[x]
    /\ Spared(t.kids, Subtree(t, e), u.kids)

LEMMA RemovedTree ==
    ASSUME NEW t, NEW e, NEW u, IsRemoved(t, e, u)
    PROVE  RemovesFrom(t, e, u)
<1>1. /\ TreeOK(t) /\ e \in Content(t) /\ u = Removed(t, e)
  BY DEF IsRemoved
<1>2. /\ Forest(t.kids) /\ Content(t) = Linked(t.kids) /\ t.info \in [Entries -> Infos]
      /\ e \in Entries /\ e \in Places
  BY <1>1, TreeFacts DEF TreeOK
<1>3. PICK gone : gone = Subtree(t, e) /\ gone = {e} \cup Descendants(t.kids, e)
  BY DEF Subtree
<1>4. /\ u = [kids |-> u.kids, info |-> u.info]
      /\ u.kids = Pruned(t.kids, e, gone)
      /\ u.info = [x \in Entries |-> IF x \in gone THEN NoInfo ELSE t.info[x]]
  BY <1>1, <1>3 DEF Removed, Pruned
<1>5. PICK k, m : k = t.kids /\ m = u.kids
  OBVIOUS
<1>6. /\ Forest(m) /\ Linked(m) = Linked(k) \ gone
      /\ \A c \in Places : c \in gone => m[c] = <<>>
      /\ \A c \in Places : c \notin gone => ToSet(m[c]) = ToSet(k[c]) \ gone
  <2>1. /\ Forest(k) /\ e \in Linked(k) /\ gone = {e} \cup Descendants(k, e)
        /\ m = Pruned(k, e, gone)
    BY <1>1, <1>2, <1>3, <1>4, <1>5
  <2> QED  BY <2>1, ForestRemoved
<1>7. ASSUME NEW c \in Places
      PROVE  /\ c \in gone => m[c] = <<>>
             /\ c \notin gone => ToSet(m[c]) = ToSet(k[c]) \ gone
             /\ ToSet(m[c]) \subseteq ToSet(k[c])
  <2>1. CASE c \in gone
    BY <1>6, <2>1, SetOfEmpty
  <2>2. CASE c \notin gone
    <3>1. ToSet(m[c]) = ToSet(k[c]) \ gone
      BY <1>6, <2>2
    <3> QED  BY <2>2, <3>1
  <2> QED  BY <2>1, <2>2
<1>8. NoInfo \in Infos /\ NoInfo.type = "none"
  BY DEF Infos, NoInfo
<1>9. /\ u.info \in [Entries -> Infos]
      /\ \A x \in Entries : u.info[x] = IF x \in gone THEN NoInfo ELSE t.info[x]
  BY <1>2, <1>4, <1>8
<1>10. ASSUME NEW x \in Entries PROVE u.info[x].type # "none" <=> x \in Linked(m)
  <2>1. x \in gone => x \notin Linked(m)
    BY <1>6
  <2>2. x \notin gone => (x \in Linked(m) <=> x \in Linked(k))
    BY <1>6
  <2>3. t.info[x].type # "none" <=> x \in Linked(k)
    BY <1>1, <1>5 DEF TreeOK
  <2> QED  BY <1>8, <1>9, <2>1, <2>2, <2>3
<1>11. ASSUME NEW x \in Entries, m[x] # <<>> PROVE u.info[x].type = "dir"
  <2>1. x \in Places /\ x \notin gone
    BY <1>2, <1>7, <1>11, ForestFacts, ListSets
  <2>2. ToSet(m[x]) # {}
    BY <1>6, <1>11, <2>1, ForestFacts, ListSets
  <2>3. k[x] # <<>>
    BY <1>7, <2>1, <2>2, SetOfEmpty
  <2> QED  BY <1>1, <1>5, <1>9, <2>1, <2>3 DEF TreeOK
<1>12. TreeOK(u)
  BY <1>4, <1>5, <1>6, <1>9, <1>10, <1>11 DEF TreeOK
<1>13. Content(u) = Linked(m)
  BY <1>5, <1>12, TreeFacts
<1>14. \A x \in Linked(m) : u.info[x] = t.info[x]
  BY <1>6, <1>9 DEF Linked
<1>15. Within(t, u)
  BY <1>1, <1>5, <1>7, <1>12, <1>14 DEF Within
<1>16. Spared(k, gone, m)
  <2>1. ASSUME NEW c \in Places \cap gone PROVE ToSet(k[c]) \subseteq gone
    BY <1>2, <1>3, <1>5, ForestFacts, DescendantsDef, DescendantsClosed
  <2>2. ASSUME NEW c \in Places \ gone PROVE ToSet(k[c]) \ gone \subseteq ToSet(m[c])
    <3>1. ToSet(m[c]) = ToSet(k[c]) \ gone
      BY <1>7
    <3> QED  BY <3>1
  <2> QED  BY <2>1, <2>2 DEF Spared
<1> QED  BY <1>2, <1>3, <1>5, <1>6, <1>12, <1>13, <1>14, <1>15, <1>16 DEF RemovesFrom

LEMMA RemovedStale ==
    ASSUME NEW t, NEW e, NEW u, IsRemoved(t, e, u),
           NEW tops, tops \subseteq Content(t), StaleOnlyBelow(t, tops)
    PROVE  StaleOnlyBelow(u, tops \ Subtree(t, e))
<1>1. RemovesFrom(t, e, u) /\ TreeOK(t) /\ e \in Content(t)
  BY RemovedTree DEF IsRemoved
<1>2. /\ TreeOK(u) /\ Content(u) = Content(t) \ Subtree(t, e) /\ Within(t, u)
      /\ \A x \in Content(u) : u.info[x] = t.info[x]
      /\ Spared(t.kids, Subtree(t, e), u.kids)
  BY <1>1 DEF RemovesFrom
<1>3. Forest(t.kids) /\ Forest(u.kids) /\ \A x \in Content(t) : x \in Places
  BY <1>1, <1>2, TreeFacts
<1> SUFFICES ASSUME NEW x \in Content(u) \ Untyped(u), StaleIn(u, x)
             PROVE  \E top \in tops \ Subtree(t, e) : x \in Subtree(u, top)
  BY DEF StaleOnlyBelow
<1>4. x \in Content(t) \ Untyped(t) /\ StaleIn(t, x) /\ x \notin Subtree(t, e)
  <2>1. NamesTo(u, x) = NamesTo(t, x)
    BY <1>2, WithinNames
  <2> QED  BY <1>2, <2>1 DEF StaleIn, Untyped
<1>5. PICK top \in tops : x \in Subtree(t, top)
  BY <1>4 DEF StaleOnlyBelow
<1>6. top \notin Subtree(t, e)
  <2>1. Lists(t.kids) /\ Founded(t.kids) /\ e \in Places
    BY <1>1, <1>3, ForestFacts
  <2>2. top \in Subtree(t, e) => Subtree(t, top) \subseteq Subtree(t, e)
    BY <2>1, DescendantsClosed DEF Subtree
  <2> QED  BY <1>4, <1>5, <2>2
<1>7. x \in Subtree(u, top)
  <2>1. Descendants(t.kids, top) \subseteq Subtree(t, e) \cup Descendants(u.kids, top)
    BY <1>2, <1>3, <1>6, SparedBelow
  <2> QED  BY <1>4, <1>5, <2>1 DEF Subtree
<1> QED  BY <1>6, <1>7

LEMMA RemovedPaths ==
    ASSUME NEW t, NEW e, NEW u, IsRemoved(t, e, u), NEW from, PathsOK(t, from)
    PROVE  PathsOK(u, from \ Subtree(t, e)) /\ (Distinct(t) => Distinct(u))
<1>1. RemovesFrom(t, e, u)
  BY RemovedTree
<1>2. /\ Content(u) = Content(t) \ Subtree(t, e) /\ Within(t, u)
      /\ \A x \in Content(u) : u.info[x] = t.info[x]
  BY <1>1 DEF RemovesFrom
<1> QED  BY <1>2, WithinNames DEF PathsOK, Untyped

IsMoved(t, src, dir, u) ==
    /\ TreeOK(t) /\ src \in Content(t) /\ dir \in Dirs(t) \cup {NULL} /\ dir \notin Subtree(t, src)
    /\ u = MovedInto(t, src, dir)

MovesTo(t, src, dir, u) ==
    /\ TreeOK(u) /\ Linked(u.kids) = Linked(t.kids) /\ Content(u) = Content(t) /\ u.info = t.info
    /\ ToSet(u.kids[dir]) = ToSet(t.kids[dir]) \cup {src}
    /\ \A c \in Places : c # dir => ToSet(u.kids[c]) = ToSet(t.kids[c]) \ {src}
    /\ Subtree(t, src) \subseteq Subtree(u, src)
    /\ \A top \in Places \ Subtree(t, src) :
          Descendants(t.kids, top) \subseteq Subtree(t, src) \cup Descendants(u.kids, top)

LEMMA MovedTree ==
    ASSUME NEW t, NEW src, NEW dir, NEW u, IsMoved(t, src, dir, u)
    PROVE  MovesTo(t, src, dir, u)
<1>1. /\ TreeOK(t) /\ src \in Content(t) /\ dir \in Dirs(t) \cup {NULL}
      /\ dir \notin Subtree(t, src) /\ u = MovedInto(t, src, dir)
  BY DEF IsMoved
<1>2. /\ Forest(t.kids) /\ Content(t) = Linked(t.kids) /\ dir \in Linked(t.kids) \cup {NULL}
  BY <1>1, TreeFacts
<1>3. /\ u.kids = Relinked(t.kids, src, dir) /\ u.info = t.info
      /\ u = [kids |-> u.kids, info |-> u.info]
  <2>1. t = [kids |-> t.kids, info |-> t.info]
    BY <1>1 DEF TreeOK
  <2>2. PICK k, i : t = [kids |-> k, info |-> i]
    BY <2>1
  <2>3. u = [kids |-> Relinked(k, src, dir), info |-> i]
    BY <1>1, <2>2 DEF MovedInto, Relinked
  <2> QED  BY <2>2, <2>3
<1>4. PICK k, m : k = t.kids /\ m = u.kids
  OBVIOUS
<1>5. /\ Forest(k) /\ src \in Linked(k) /\ dir \in Linked(k) \cup {NULL}
      /\ dir \notin {src} \cup Descendants(k, src)
      /\ m = Relinked(k, src, dir)
  BY <1>1, <1>2, <1>3, <1>4 DEF Subtree
<1>6. /\ Forest(m) /\ Linked(m) = Linked(k)
      /\ ToSet(m[dir]) = ToSet(k[dir]) \cup {src}
      /\ \A c \in Places : c # dir => ToSet(m[c]) = ToSet(k[c]) \ {src}
  BY <1>5, ForestMoved
<1>7. /\ Descendants(k, src) \subseteq Descendants(m, src)
      /\ \A top \in Places \ ({src} \cup Descendants(k, src)) :
            Descendants(k, top) \subseteq {src} \cup Descendants(k, src) \cup Descendants(m, top)
  BY <1>5, MovedBelow
<1>8. ASSUME NEW x \in Entries, m[x] # <<>> PROVE t.info[x].type = "dir"
  <2>1. CASE x = dir
    BY <1>1, <1>2, <2>1, ForestFacts, ListSets DEF Dirs
  <2>2. CASE x # dir
    <3>1. x \in Places /\ ToSet(m[x]) # {}
      BY <1>6, <1>8, ForestFacts, ListSets
    <3>2. ToSet(m[x]) = ToSet(k[x]) \ {src}
      BY <1>6, <2>2, <3>1
    <3>3. k[x] # <<>>
      BY <3>1, <3>2, SetOfEmpty
    <3> QED  BY <1>1, <1>4, <3>3 DEF TreeOK
  <2> QED  BY <2>1, <2>2
<1>9. TreeOK(u)
  BY <1>1, <1>3, <1>4, <1>6, <1>8 DEF TreeOK
<1>10. Content(u) = Linked(m)
  BY <1>4, <1>9, TreeFacts
<1>11. /\ Subtree(t, src) = {src} \cup Descendants(k, src)
       /\ Subtree(u, src) = {src} \cup Descendants(m, src)
  BY <1>4 DEF Subtree
<1> QED  BY <1>2, <1>3, <1>4, <1>6, <1>7, <1>9, <1>10, <1>11 DEF MovesTo

LEMMA MovedNames ==
    ASSUME NEW t, NEW src, NEW dir, NEW u, IsMoved(t, src, dir, u)
    PROVE  \A x \in Content(t) \ Subtree(t, src) : NamesTo(u, x) = NamesTo(t, x)
<1>1. /\ TreeOK(t) /\ src \in Content(t) /\ MovesTo(t, src, dir, u)
  BY MovedTree DEF IsMoved
<1>2. /\ TreeOK(u) /\ Content(u) = Content(t) /\ u.info = t.info
      /\ ToSet(u.kids[dir]) = ToSet(t.kids[dir]) \cup {src}
      /\ \A c \in Places : c # dir => ToSet(u.kids[c]) = ToSet(t.kids[c]) \ {src}
  BY <1>1 DEF MovesTo
<1>3. /\ Named(t) /\ Named(u) /\ Forest(t.kids) /\ Content(t) = Linked(t.kids)
      /\ Content(u) = Linked(u.kids) /\ src \in Places
  BY <1>1, <1>2, TreeFacts
<1>4. PICK low : low = Subtree(t, src) /\ low = {src} \cup Descendants(t.kids, src)
  BY DEF Subtree
<1>5. SameAbove(t, u, Content(t) \ low)
  <2> SUFFICES ASSUME NEW x \in Content(t) \ low, NEW c \in Places, x \in ToSet(u.kids[c])
               PROVE  x \in ToSet(t.kids[c]) /\ c \in (Content(t) \ low) \cup {NULL}
    BY <1>2 DEF SameAbove
  <2>1. x # src
    BY <1>4
  <2>2. x \in ToSet(t.kids[c])
    <3>1. CASE c = dir
      BY <1>2, <2>1, <3>1
    <3>2. CASE c # dir
      <4>1. ToSet(u.kids[c]) = ToSet(t.kids[c]) \ {src}
        BY <1>2, <3>2
      <4> QED  BY <4>1
    <3> QED  BY <3>1, <3>2
  <2>3. c \in Content(t) \cup {NULL}
    BY <1>3, <2>2, ForestFacts, SetOfEmpty
  <2>4. c \notin low
    BY <1>3, <1>4, <2>1, <2>2, ForestParent
  <2> QED  BY <2>2, <2>3, <2>4
<1> QED  BY <1>2, <1>3, <1>4, <1>5, NamesSame

LEMMA MovedStale ==
    ASSUME NEW t, NEW src, NEW dir, NEW u, IsMoved(t, src, dir, u),
           NEW tops, tops \subseteq Content(t), StaleOnlyBelow(t, tops)
    PROVE  StaleOnlyBelow(u, tops \cup {src})
<1>1. TreeOK(t) /\ src \in Content(t) /\ MovesTo(t, src, dir, u)
  BY MovedTree DEF IsMoved
<1>2. /\ TreeOK(u) /\ Content(u) = Content(t) /\ u.info = t.info
      /\ Subtree(t, src) \subseteq Subtree(u, src)
      /\ \A top \in Places \ Subtree(t, src) :
            Descendants(t.kids, top) \subseteq Subtree(t, src) \cup Descendants(u.kids, top)
  BY <1>1 DEF MovesTo
<1>3. Forest(t.kids) /\ \A x \in Content(t) : x \in Places
  BY <1>1, TreeFacts
<1> SUFFICES ASSUME NEW x \in Content(u) \ Untyped(u), StaleIn(u, x), x \notin Subtree(u, src)
             PROVE  \E top \in tops : x \in Subtree(u, top)
  BY DEF StaleOnlyBelow
<1>4. x \in Content(t) \ Untyped(t) /\ x \notin Subtree(t, src)
  BY <1>2 DEF Untyped
<1>5. StaleIn(t, x)
  <2>1. NamesTo(u, x) = NamesTo(t, x)
    BY <1>4, MovedNames
  <2> QED  BY <1>2, <2>1 DEF StaleIn
<1>6. PICK top \in tops : x \in Subtree(t, top)
  BY <1>4, <1>5 DEF StaleOnlyBelow
<1>7. top \notin Subtree(t, src)
  <2>1. Lists(t.kids) /\ Founded(t.kids) /\ src \in Places
    BY <1>1, <1>3, ForestFacts
  <2>2. top \in Subtree(t, src) => Subtree(t, top) \subseteq Subtree(t, src)
    BY <2>1, DescendantsClosed DEF Subtree
  <2> QED  BY <1>4, <1>6, <2>2
<1> QED  BY <1>2, <1>3, <1>4, <1>6, <1>7 DEF Subtree

LEMMA MovedPaths ==
    ASSUME NEW t, NEW src, NEW dir, NEW u, IsMoved(t, src, dir, u), NEW from, PathsOK(t, from)
    PROVE  /\ PathsOK(u, from)
           /\ Distinct(t) /\ (\A x \in ToSet(t.kids[dir]) \ {src} :
                                t.info[x].name # t.info[src].name)
                => Distinct(u)
<1>1. MovesTo(t, src, dir, u)
  BY MovedTree
<1>2. /\ Content(u) = Content(t) /\ u.info = t.info
      /\ ToSet(u.kids[dir]) = ToSet(t.kids[dir]) \cup {src}
      /\ \A c \in Places : c # dir => ToSet(u.kids[c]) = ToSet(t.kids[c]) \ {src}
  BY <1>1 DEF MovesTo
<1>3. PathsOK(u, from)
  BY <1>2 DEF PathsOK, Untyped
<1>4. ASSUME Distinct(t),
             \A x \in ToSet(t.kids[dir]) \ {src} : t.info[x].name # t.info[src].name
      PROVE  Distinct(u)
  <2>1. ASSUME NEW c \in Places, NEW x \in ToSet(u.kids[c])
        PROVE  (x = src /\ c = dir) \/ (x # src /\ x \in ToSet(t.kids[c]))
    <3>1. CASE c = dir
      BY <1>2, <2>1, <3>1
    <3>2. CASE c # dir
      <4>1. ToSet(u.kids[c]) = ToSet(t.kids[c]) \ {src}
        BY <1>2, <3>2
      <4> QED  BY <2>1, <4>1
    <3> QED  BY <3>1, <3>2
  <2> QED  BY <1>2, <1>4, <2>1 DEF Distinct
<1> QED  BY <1>3, <1>4

(***************************************************************************)
(* Saving.                                                                 *)
(***************************************************************************)
LEMMA BeginsDef ==
    ASSUME NEW sizes \in Seq(Int)
    PROVE  \A i \in 1 .. Len(sizes) : Begins(sizes)[i] \in Int
<1> DEFINE I == 1 .. Len(sizes)
           step[f \in [I -> Int]] ==
             [i \in I |-> IF i = 1 THEN 0 ELSE f[i - 1] + sizes[i - 1]]
<1>1. \A i \in I : i = 1 \/ (i - 1 \in I /\ sizes[i - 1] \in Int /\ i - 1 < i)
  OBVIOUS
<1>2. step \in [[I -> Int] -> [I -> Int]]
  <2>1. ASSUME NEW f \in [I -> Int], NEW i \in I, i # 1
        PROVE  f[i - 1] + sizes[i - 1] \in Int
    <3>1. PICK j \in I : j = i - 1 /\ sizes[j] \in Int
      BY <1>1, <2>1
    <3>2. f[j] \in Int
      OBVIOUS
    <3> QED  BY <3>1, <3>2
  <2> QED  BY <2>1
<1>3. \E f \in [I -> Int] : f = step[f]
  <2> DEFINE rank == [i \in I |-> i]
  <2>1. Int # {} /\ Len(sizes) \in Nat /\ rank \in [I -> 0 .. Len(sizes)]
    OBVIOUS
  <2>2. \A f, g \in [I -> Int] : \A x \in I :
          (\A y \in I : rank[y] < rank[x] => f[y] = g[y]) => step[f][x] = step[g][x]
    BY <1>1
  <2> HIDE DEF step, I, rank
  <2>3. Recursive(I, Int, Len(sizes), rank, step)
    BY <1>2, <2>1, <2>2 DEF Recursive
  <2> QED  BY <2>3, Recursion
<1>4. PICK f : f = [i \in I |-> IF i = 1 THEN 0 ELSE f[i - 1] + sizes[i - 1]]
  BY <1>3
<1>5. PICK g : /\ g = [i \in I |-> IF i = 1 THEN 0 ELSE g[i - 1] + sizes[i - 1]]
               /\ Begins(sizes) = g
  BY <1>4 DEF Begins
<1>6. \A i \in I : g[i] = IF i = 1 THEN 0 ELSE g[i - 1] + sizes[i - 1]
  BY <1>5
<1> DEFINE P == {i \in Nat : i \in I => g[i] \in Int}
<1>7. 0 \in P
  OBVIOUS
<1>8. ASSUME NEW i \in Nat, i \in P PROVE i + 1 \in P
  <2> SUFFICES ASSUME i + 1 \in I PROVE g[i + 1] \in Int
    OBVIOUS
  <2>1. PICK j \in I : j = i + 1 /\ j - 1 = i
    OBVIOUS
  <2>2. CASE j = 1
    BY <1>6, <2>1, <2>2
  <2>3. CASE j # 1
    <3>1. g[j] = g[i] + sizes[i]
      BY <1>6, <2>1, <2>3
    <3>2. i \in I /\ sizes[i] \in Int
      BY <1>1, <2>1, <2>3
    <3> QED  BY <1>8, <2>1, <3>1, <3>2
  <2> QED  BY <2>2, <2>3
<1>9. Nat \subseteq P
  <2> HIDE DEF P
  <2> QED  BY <1>7, <1>8, NatInduct
<1> QED  BY <1>5, <1>9

\* Where the contents of e start in the data chunk when t is saved.
StartOf(t, e) ==
    LET order == Preorder(t.kids, NULL)
    IN  Begins([i \in DOMAIN order |-> t.info[order[i]].size])
          [CHOOSE i \in DOMAIN order : order[i] = e]

\* All that saving asks of a tree: its walks end.
Listed(t) ==
    /\ t = [kids |-> t.kids, info |-> t.info]
    /\ Lists(t.kids) /\ Founded(t.kids)
    /\ t.info \in [Entries -> Infos]

LEMMA TreeListed ==
    ASSUME NEW t, TreeOK(t)
    PROVE  Listed(t)
BY ForestFacts DEF TreeOK, Listed

LEMMA StartFacts ==
    ASSUME NEW t, Listed(t)
    PROVE  /\ \A e \in Content(t) : StartOf(t, e) \in Int
           /\ \A u, e : u.kids = t.kids /\ (\A x \in Entries : u.info[x].size = t.info[x].size)
                          => StartOf(u, e) = StartOf(t, e)
<1>1. /\ Lists(t.kids) /\ Founded(t.kids) /\ t.info \in [Entries -> Infos]
      /\ NULL \in Places
  BY DEF Listed, Places
<1>2. PICK order \in Seq(Entries) : order = Preorder(t.kids, NULL)
  BY <1>1, PreorderDef
<1>3. DOMAIN order = 1 .. Len(order) /\ Len(order) \in Nat /\ \A i \in 1 .. Len(order) : order[i] \in Entries
  BY ElementOfSeq
<1> DEFINE sizes == [i \in DOMAIN order |-> t.info[order[i]].size]
<1>4. sizes \in Seq(Int) /\ Len(sizes) = Len(order)
  <2>1. \A i \in DOMAIN order : t.info[order[i]].size \in Int
    BY <1>1, <1>3, InfoFacts
  <2>2. sizes \in [1 .. Len(order) -> Int]
    BY <1>3, <2>1
  <2> HIDE DEF sizes
  <2> QED  BY <1>3, <2>2
<1>5. ASSUME NEW e \in Content(t) PROVE StartOf(t, e) \in Int
  <2>1. \E i \in DOMAIN order : order[i] = e
    BY <1>2, <1>3, SetOfSeq DEF Content, Descendants
  <2>2. PICK i \in 1 .. Len(order) : i = CHOOSE j \in DOMAIN order : order[j] = e
    BY <1>3, <2>1
  <2>3. Begins(sizes)[i] \in Int
    <3> HIDE DEF sizes
    <3> QED  BY <1>4, BeginsDef
  <2>4. StartOf(t, e) = Begins(sizes)[i]
    BY <1>2, <2>2 DEF StartOf
  <2> QED  BY <2>3, <2>4
<1>6. ASSUME NEW u, NEW e, u.kids = t.kids, \A x \in Entries : u.info[x].size = t.info[x].size
      PROVE  StartOf(u, e) = StartOf(t, e)
  <2>1. [i \in DOMAIN order |-> u.info[order[i]].size] = sizes
    BY <1>3, <1>6
  <2>2. StartOf(t, e) = Begins(sizes)[CHOOSE i \in DOMAIN order : order[i] = e]
    BY <1>2 DEF StartOf
  <2>3. StartOf(u, e) = Begins([i \in DOMAIN order |-> u.info[order[i]].size])
                          [CHOOSE i \in DOMAIN order : order[i] = e]
    BY <1>2, <1>6 DEF StartOf
  <2> HIDE DEF sizes
  <2> QED  BY <2>1, <2>2, <2>3
<1> QED  BY <1>5, <1>6

\* Rearranging sets where files start, nothing else.
RearrangesTo(t, u) ==
    /\ TreeOK(u) /\ u.kids = t.kids /\ Content(u) = Content(t)
    /\ Untyped(u) = Untyped(t) /\ Files(u) = Files(t) /\ Dirs(u) = Dirs(t)
    /\ \A e \in Entries :
          /\ u.info[e].type = t.info[e].type /\ u.info[e].name = t.info[e].name
          /\ u.info[e].path = t.info[e].path /\ u.info[e].size = t.info[e].size
          /\ u.info[e].time = t.info[e].time
          /\ u.info[e].start = IF e \in Files(t) THEN StartOf(t, e) ELSE t.info[e].start
    /\ Within(t, u)

LEMMA RearrangedInfo ==
    ASSUME NEW t, Listed(t), NEW u, u = Rearranged(t)
    PROVE  /\ Listed(u) /\ u.kids = t.kids
           /\ \A e \in Entries :
                /\ u.info[e].type = t.info[e].type /\ u.info[e].name = t.info[e].name
                /\ u.info[e].path = t.info[e].path /\ u.info[e].size = t.info[e].size
                /\ u.info[e].time = t.info[e].time
                /\ u.info[e].start = IF e \in Files(t) THEN StartOf(t, e) ELSE t.info[e].start
<1>1. /\ t.info \in [Entries -> Infos] /\ t = [kids |-> t.kids, info |-> t.info]
      /\ Files(t) \subseteq Entries /\ Files(t) \subseteq Content(t)
      /\ \A e \in Files(t) : t.info[e].type = "file"
  <2>1. Content(t) \subseteq Entries
    BY DescendantsDef DEF Listed, Content, Places
  <2> QED  BY <2>1 DEF Listed, Files
<1>2. /\ u.kids = t.kids /\ u = [kids |-> u.kids, info |-> u.info]
      /\ u.info = [e \in Entries |-> IF e \in Files(t)
                                     THEN [t.info[e] EXCEPT !.start = StartOf(t, e)]
                                     ELSE t.info[e]]
  <2>1. PICK k, i : t = [kids |-> k, info |-> i]
    BY <1>1
  <2>2. u = [kids |-> k,
             info |-> [e \in Entries |-> IF e \in Files(t)
                                         THEN [t.info[e] EXCEPT !.start = StartOf(t, e)]
                                         ELSE t.info[e]]]
    BY <2>1 DEF Rearranged, StartOf
  <2> QED  BY <2>1, <2>2
<1>3. ASSUME NEW e \in Files(t)
      PROVE  /\ u.info[e] \in FileInfos
             /\ u.info[e].type = t.info[e].type /\ u.info[e].name = t.info[e].name
             /\ u.info[e].path = t.info[e].path /\ u.info[e].size = t.info[e].size
             /\ u.info[e].time = t.info[e].time /\ u.info[e].start = StartOf(t, e)
  <2>1. t.info[e] \in FileInfos
    BY <1>1, InfoFacts
  <2>2. StartOf(t, e) \in Int
    BY <1>1, StartFacts
  <2>3. u.info[e] = [t.info[e] EXCEPT !.start = StartOf(t, e)]
    BY <1>1, <1>2
  <2>4. PICK s \in Int, i \in FileInfos : s = StartOf(t, e) /\ i = t.info[e]
    BY <2>1, <2>2
  <2>5. /\ [i EXCEPT !.start = s] \in FileInfos
        /\ [i EXCEPT !.start = s].type = i.type /\ [i EXCEPT !.start = s].name = i.name
        /\ [i EXCEPT !.start = s].path = i.path /\ [i EXCEPT !.start = s].size = i.size
        /\ [i EXCEPT !.start = s].time = i.time /\ [i EXCEPT !.start = s].start = s
    BY DEF FileInfos
  <2> QED  BY <2>3, <2>4, <2>5
<1>4. ASSUME NEW e \in Entries, e \notin Files(t) PROVE u.info[e] = t.info[e]
  BY <1>2, <1>4
<1>5. u.info \in [Entries -> Infos]
  <2>1. \A e \in Entries : u.info[e] \in Infos
    BY <1>1, <1>3, <1>4 DEF Infos
  <2> QED  BY <1>2, <2>1
<1>6. \A e \in Entries :
         /\ u.info[e].type = t.info[e].type /\ u.info[e].name = t.info[e].name
         /\ u.info[e].path = t.info[e].path /\ u.info[e].size = t.info[e].size
         /\ u.info[e].time = t.info[e].time
         /\ u.info[e].start = IF e \in Files(t) THEN StartOf(t, e) ELSE t.info[e].start
  BY <1>3, <1>4
<1>7. Listed(u)
  BY <1>2, <1>5 DEF Listed
<1> QED  BY <1>2, <1>6, <1>7

LEMMA RearrangedTree ==
    ASSUME NEW t, TreeOK(t), NEW u, u = Rearranged(t)
    PROVE  RearrangesTo(t, u)
<1>2. Listed(u) /\ u.kids = t.kids
  BY TreeListed, RearrangedInfo
<1>6. \A e \in Entries :
         /\ u.info[e].type = t.info[e].type /\ u.info[e].name = t.info[e].name
         /\ u.info[e].path = t.info[e].path /\ u.info[e].size = t.info[e].size
         /\ u.info[e].time = t.info[e].time
         /\ u.info[e].start = IF e \in Files(t) THEN StartOf(t, e) ELSE t.info[e].start
  BY TreeListed, RearrangedInfo
<1>7. TreeOK(u)
  BY <1>2, <1>6 DEF TreeOK, Listed
<1>8. /\ Content(u) = Content(t) /\ Untyped(u) = Untyped(t) /\ Files(u) = Files(t)
      /\ Dirs(u) = Dirs(t)
  <2>1. Content(u) = Content(t) /\ Content(t) \subseteq Entries
    BY <1>2, TreeFacts DEF Content
  <2> QED  BY <1>6, <2>1 DEF Untyped, Files, Dirs
<1>9. Within(t, u)
  BY <1>2, <1>6, <1>7, TreeFacts DEF Within
<1> QED  BY <1>2, <1>6, <1>7, <1>8, <1>9 DEF RearrangesTo

LEMMA RearrangedKeeps ==
    ASSUME NEW t, TreeOK(t), NEW u, u = Rearranged(t)
    PROVE  /\ \A tops : StaleOnlyBelow(t, tops) => StaleOnlyBelow(u, tops)
           /\ \A from : PathsOK(t, from) => PathsOK(u, from)
           /\ Distinct(t) => Distinct(u)
<1>1. RearrangesTo(t, u)
  BY RearrangedTree
<1>2. /\ u.kids = t.kids /\ Content(u) = Content(t) /\ Untyped(u) = Untyped(t)
      /\ \A e \in Entries : u.info[e].type = t.info[e].type /\ u.info[e].path = t.info[e].path
      /\ Within(t, u)
  BY <1>1 DEF RearrangesTo
<1>3. \A e \in Content(t) : e \in Entries /\ NamesTo(u, e) = NamesTo(t, e)
  BY <1>2, TreeFacts, WithinNames
<1>4. \A e \in Content(t) : StaleIn(u, e) <=> StaleIn(t, e)
  BY <1>2, <1>3 DEF StaleIn
<1>5. \A top, e : e \in Subtree(u, top) <=> e \in Subtree(t, top)
  BY <1>2 DEF Subtree
<1>6. ASSUME NEW tops, StaleOnlyBelow(t, tops) PROVE StaleOnlyBelow(u, tops)
  BY <1>2, <1>4, <1>5, <1>6 DEF StaleOnlyBelow
<1>7. ASSUME NEW from, PathsOK(t, from) PROVE PathsOK(u, from)
  BY <1>2, <1>3, <1>7 DEF PathsOK
<1> QED  BY <1>2, <1>6, <1>7, WithinNames

(***************************************************************************)
(* Opening.                                                                *)
(***************************************************************************)
LEMMA ModFacts ==
    ASSUME NEW a \in Int, NEW b \in Int, b > 0
    PROVE  /\ a % b \in Int /\ 0 <= a % b /\ a % b < b
           /\ 0 <= a /\ a < b => a % b = a
<1>1. a % b \in Int /\ 0 <= a % b /\ a % b < b
  OBVIOUS
<1>2. 0 <= a /\ a < b => a % b = a
  OBVIOUS
<1> QED  BY <1>1, <1>2

\* A number is cut to an int, and is the same if it is one.
LEMMA AtoiFacts ==
    ASSUME NEW n \in Int
    PROVE  /\ atoi(n) \in -(IntMax + 1) .. IntMax
           /\ n \in -(IntMax + 1) .. IntMax => atoi(n) = n
<1>1. PICK m \in Nat : m = IntMax
  BY PathsAssumption
<1>2. PICK a \in Int : a = n + m + 1
  OBVIOUS
<1>3. PICK b \in Int : b = 2 * (m + 1) /\ b > 0
  OBVIOUS
<1>4. a % b \in Int /\ 0 <= a % b /\ a % b < b /\ (0 <= a /\ a < b => a % b = a)
  BY <1>3, ModFacts
<1>5. atoi(n) = (a % b) - (m + 1)
  BY <1>1, <1>2, <1>3 DEF atoi
<1>6. PICK c \in Int : c = a % b
  BY <1>4
<1> QED  BY <1>1, <1>2, <1>3, <1>4, <1>5, <1>6

\* h is a header made from t, or such a header with something taken out of it.
Worn(h, t) ==
    /\ h.kids = t.kids
    /\ \A e \in Entries :
          /\ h.node[e].tag \in {t.info[e].type, "untyped"}
          /\ h.node[e].name \in {t.info[e].name, NULL}
          /\ h.node[e].time \in {t.info[e].time, NULL}
          /\ t.info[e].type = "file" =>
               /\ h.node[e].size \in {t.info[e].size, NULL}
               /\ h.node[e].start \in {t.info[e].start, NULL}

LEMMA LoadedLists ==
    ASSUME NEW h, Lists(h.kids)
    PROVE  /\ Lists(LoadedKids(h))
           /\ \A d \in Places : ToSet(LoadedKids(h)[d])
                                  = {x \in ToSet(h.kids[d]) : h.node[x].tag \in {"file", "dir"}}
<1>1. ASSUME NEW d \in Places
      PROVE  /\ LoadedKids(h)[d] \in Seq(Entries)
             /\ ToSet(LoadedKids(h)[d])
                  = {x \in ToSet(h.kids[d]) : h.node[x].tag \in {"file", "dir"}}
  <2>1. PICK s \in Seq(Entries) : s = h.kids[d] /\ ToSet(s) \subseteq Entries
    BY ListSets
  <2>2. PICK f : f = Only(s, Tagged(h, "file")) /\ f \in Seq(Entries)
                 /\ ToSet(f) = ToSet(s) \cap Tagged(h, "file")
    BY OnlySet
  <2>3. PICK g : g = Only(s, Tagged(h, "dir")) /\ g \in Seq(Entries)
                 /\ ToSet(g) = ToSet(s) \cap Tagged(h, "dir")
    BY OnlySet
  <2>4. LoadedKids(h)[d] = f \o g
    BY <2>1, <2>2, <2>3 DEF LoadedKids
  <2>5. f \o g \in Seq(Entries) /\ ToSet(f \o g) = ToSet(f) \cup ToSet(g)
    BY <2>2, <2>3, ConcatSet
  <2>6. ToSet(f) \cup ToSet(g) = {x \in ToSet(s) : h.node[x].tag \in {"file", "dir"}}
    BY <2>1, <2>2, <2>3 DEF Tagged
  <2> QED  BY <2>1, <2>4, <2>5, <2>6
<1>2. Lists(LoadedKids(h))
  BY <1>1 DEF Lists, LoadedKids
<1> QED  BY <1>1, <1>2

\* The entries the loader comes to.
Read(h) == Descendants(LoadedKids(h), NULL)

\* The lists of what is loaded.
ReadLists(h) == [d \in Places |-> IF d \in Read(h) \cup {NULL} THEN LoadedKids(h)[d] ELSE <<>>]

\* No directory above e, nor e, has an unknown tag.
KnownIn(h, t, e) == \A top \in Content(t) : e \in Subtree(t, top) => h.node[top].tag # "untyped"

LEMMA ReadFacts ==
    ASSUME NEW t, TreeOK(t), NEW h, Worn(h, t)
    PROVE  /\ Lists(LoadedKids(h)) /\ Founded(LoadedKids(h)) /\ OneParent(LoadedKids(h))
           /\ \A d \in Places : ToSet(LoadedKids(h)[d]) \subseteq ToSet(t.kids[d])
           /\ Read(h) = {e \in Content(t) : KnownIn(h, t, e)}
           /\ \A e \in Read(h) : h.node[e].tag = t.info[e].type /\ h.node[e].tag \in {"file", "dir"}
<1> DEFINE K == LoadedKids(h)
<1>1. /\ h.kids = t.kids /\ Forest(t.kids) /\ Lists(t.kids) /\ Founded(t.kids)
      /\ Content(t) = Linked(t.kids) /\ Content(t) = Descendants(t.kids, NULL)
      /\ NULL \in Places /\ NULL \notin Entries
  BY TreeFacts, ForestFacts, PathsAssumption DEF Worn, Content, Places
<1>2. /\ Lists(K)
      /\ \A d \in Places : ToSet(K[d]) = {x \in ToSet(t.kids[d]) : h.node[x].tag \in {"file", "dir"}}
  BY <1>1, LoadedLists
<1>3. \A d \in Places : \A x : x \in ToSet(K[d]) <=>
                                 x \in ToSet(t.kids[d]) /\ h.node[x].tag \in {"file", "dir"}
  <2> HIDE DEF K
  <2> QED  BY <1>2
<1>4. \A d \in Places : ToSet(K[d]) \subseteq ToSet(t.kids[d])
  <2> HIDE DEF K
  <2> QED  BY <1>3
<1>5. Founded(K) /\ OneParent(K) /\ Linked(K) \subseteq Linked(t.kids)
  <2> HIDE DEF K
  <2> QED  BY <1>1, <1>2, <1>4, ForestFewer
<1>6. \A e \in Content(t) : /\ e \in Entries /\ e \in Places /\ t.info[e].type \in {"file", "dir", "untyped"}
                            /\ h.node[e].tag \in {t.info[e].type, "untyped"}
  <2>1. \A e \in Content(t) : e \in Entries /\ e \in Places /\ t.info[e] \in Infos
                              /\ t.info[e].type # "none"
    BY TreeFacts
  <2>2. \A e \in Content(t) : t.info[e].type \in {"file", "dir", "untyped"}
    BY <2>1, InfoFacts
  <2> QED  BY <2>1, <2>2 DEF Worn
<1>6a. \A d \in Places : ToSet(t.kids[d]) \subseteq Content(t)
  <2>1. PICK k : k = t.kids /\ Lists(k)
    BY <1>1
  <2>2. \A d \in Places : ToSet(k[d]) \subseteq Linked(k)
    BY <2>1, ListSets
  <2> QED  BY <1>1, <2>1, <2>2
<1> DEFINE S == {e \in Content(t) : KnownIn(h, t, e)}
<1>7. ASSUME NEW d \in Places, d = NULL \/ d \in S, NEW x \in ToSet(K[d]) PROVE x \in S
  <2>1. x \in ToSet(t.kids[d]) /\ h.node[x].tag # "untyped"
    BY <1>3
  <2>2. x \in Content(t)
    BY <1>6a, <2>1
  <2>3. ASSUME NEW top \in Content(t), x \in Subtree(t, top) PROVE h.node[top].tag # "untyped"
    <3>1. CASE top = x
      BY <2>1, <3>1
    <3>2. CASE x \in Descendants(t.kids, top)
      <4>1. d \in Subtree(t, top)
        BY <1>1, <1>6, <2>1, <2>3, <3>2, ForestParent DEF Subtree
      <4>2. d # NULL
        <5>1. Subtree(t, top) \subseteq Entries
          BY <1>1, <1>6, <2>3, DescendantsDef DEF Subtree
        <5> QED  BY <1>1, <4>1, <5>1
      <4> QED  BY <1>7, <4>1, <4>2 DEF KnownIn
    <3> QED  BY <2>3, <3>1, <3>2 DEF Subtree
  <2> QED  BY <2>2, <2>3 DEF KnownIn
<1>8. Read(h) \subseteq S
  <2>1. ClosedFrom(K, NULL, S)
    <3>1. \A x \in S : x \in Places
      BY <1>6
    <3> HIDE DEF K, S
    <3> QED  BY <1>1, <1>7, <3>1 DEF ClosedFrom
  <2> HIDE DEF S
  <2> QED  BY <1>1, <1>2, <1>5, <2>1, DescendantsInduct DEF Read
<1> DEFINE U == {e \in Content(t) : KnownIn(h, t, e) => e \in Read(h)}
<1>9. ASSUME NEW d \in Places, d = NULL \/ d \in U, NEW x \in ToSet(t.kids[d]) PROVE x \in U
  <2>1. x \in Content(t)
    BY <1>6a
  <2> SUFFICES ASSUME KnownIn(h, t, x) PROVE x \in Read(h)
    BY <2>1
  <2>2. h.node[x].tag \in {"file", "dir"}
    <3>1. x \in Subtree(t, x)
      BY DEF Subtree
    <3> QED  BY <1>6, <2>1, <3>1 DEF KnownIn
  <2>3. x \in ToSet(K[d])
    BY <1>3, <2>2
  <2>4. d = NULL \/ d \in Read(h)
    <3> SUFFICES ASSUME d # NULL PROVE KnownIn(h, t, d)
      BY <1>9
    <3> SUFFICES ASSUME NEW top \in Content(t), d \in Subtree(t, top)
                 PROVE  x \in Subtree(t, top)
      BY DEF KnownIn
    <3> QED  BY <1>1, <1>6, ForestParent DEF Subtree
  <2> HIDE DEF K
  <2>5. ToSet(K[d]) \subseteq Read(h)
    BY <1>1, <1>2, <1>5, <2>4, DescendantsDef, DescendantsClosed DEF Read, K
  <2> QED  BY <2>3, <2>5
<1>10. Content(t) \subseteq U
  <2>1. ClosedFrom(t.kids, NULL, U)
    <3>1. \A x \in U : x \in Places
      BY <1>6
    <3> HIDE DEF U
    <3> QED  BY <1>1, <1>9, <3>1 DEF ClosedFrom
  <2> HIDE DEF U
  <2> QED  BY <1>1, <2>1, DescendantsInduct
<1>11. Read(h) = S
  BY <1>8, <1>10
<1>12. ASSUME NEW e \in Read(h) PROVE h.node[e].tag = t.info[e].type /\ h.node[e].tag \in {"file", "dir"}
  <2>1. e \in Content(t) /\ e \in Subtree(t, e) /\ KnownIn(h, t, e)
    BY <1>11, <1>12 DEF Subtree
  <2>2. h.node[e].tag # "untyped"
    BY <2>1 DEF KnownIn
  <2> QED  BY <1>6, <2>1, <2>2
<1> QED  BY <1>2, <1>4, <1>5, <1>11, <1>12

LEMMA ReadForest ==
    ASSUME NEW t, TreeOK(t), NEW h, Worn(h, t), NEW less, less = ReadLists(h)
    PROVE  /\ Forest(less) /\ Linked(less) = Read(h)
           /\ \A d \in Places : ToSet(less[d]) \subseteq ToSet(t.kids[d])
           /\ \A d \in Places : d \in Read(h) \cup {NULL} => less[d] = LoadedKids(h)[d]
<1> DEFINE K == LoadedKids(h)
<1>1. /\ Lists(K) /\ Founded(K)
      /\ \A d \in Places : ToSet(K[d]) \subseteq ToSet(t.kids[d])
      /\ Forest(t.kids) /\ NULL \in Places /\ NULL \notin Entries
  BY ReadFacts, TreeFacts, PathsAssumption DEF Places
<1> HIDE DEF K
<1>2. \A d \in Places : /\ d \in Read(h) \cup {NULL} => less[d] = K[d]
                        /\ d \notin Read(h) \cup {NULL} => less[d] = <<>>
  BY DEF ReadLists, K
<1>3. Lists(less)
  <2>1. \A d \in Places : less[d] \in Seq(Entries)
    BY <1>1, <1>2, EmptySeq DEF Lists
  <2> QED  BY <2>1 DEF Lists, ReadLists
<1>4. ASSUME NEW d \in Places PROVE ToSet(less[d]) \subseteq ToSet(t.kids[d])
  <2>1. CASE d \in Read(h) \cup {NULL}
    BY <1>1, <1>2, <2>1
  <2>2. CASE d \notin Read(h) \cup {NULL}
    BY <1>2, <2>2, SetOfEmpty
  <2> QED  BY <2>1, <2>2
<1>5. Founded(less) /\ OneParent(less)
  BY <1>1, <1>3, <1>4, ForestFewer
<1>6. \A d \in Read(h) \cup {NULL} : d \in Places /\ ToSet(K[d]) \subseteq Read(h)
  <2>1. Read(h) = Descendants(K, NULL) /\ Read(h) \subseteq Entries
    BY <1>1, DescendantsDef DEF Read, K
  <2>2. ToSet(K[NULL]) \subseteq Read(h)
    BY <1>1, <2>1, DescendantsDef
  <2>3. \A d \in Read(h) : ToSet(K[d]) \subseteq Read(h)
    BY <1>1, <2>1, DescendantsClosed
  <2> QED  BY <1>1, <2>1, <2>2, <2>3 DEF Places
<1>7. Linked(less) \subseteq Read(h)
  <2> SUFFICES ASSUME NEW x \in Linked(less) PROVE x \in Read(h)
    OBVIOUS
  <2>1. PICK d \in Places : x \in ToSet(less[d])
    BY DEF Linked
  <2>2. d \in Read(h) \cup {NULL}
    BY <1>2, <2>1, SetOfEmpty
  <2> QED  BY <1>2, <1>6, <2>1, <2>2
<1>8. Read(h) \subseteq Linked(less)
  <2> SUFFICES ASSUME NEW x \in Read(h) PROVE x \in Linked(less)
    OBVIOUS
  <2>1. PICK p \in {NULL} \cup Descendants(K, NULL) : x \in ToSet(K[p])
    BY <1>1, DescendantsParent DEF Read, K
  <2>2. p \in Read(h) \cup {NULL}
    BY <2>1 DEF Read, K
  <2>3. p \in Places /\ less[p] = K[p]
    BY <1>2, <1>6, <2>2
  <2> QED  BY <1>3, <2>1, <2>3, ListSets
<1>9. NoneLoose(less)
  <2>1. ASSUME NEW d \in Entries, less[d] # <<>> PROVE d \in Read(h)
    BY <1>1, <1>2, <2>1 DEF Places
  <2> QED  BY <1>8, <2>1 DEF NoneLoose
<1> QED  BY <1>2, <1>3, <1>4, <1>5, <1>7, <1>8, <1>9 DEF Forest, K

\* A node that does not crash the loader.
Readable(n) ==
    /\ n.tag \in {"file", "dir"} /\ n.name \in Names /\ n.time \in Times
    /\ n.tag = "file" => n.size \in Int /\ n.start \in Int

LEMMA LoadedEntryFacts ==
    ASSUME NEW n, Readable(n), NEW p \in Seq(Parts)
    PROVE  /\ LoadedEntry(n, p) \in FileInfos \cup DirInfos
           /\ LoadedEntry(n, p).type = n.tag /\ LoadedEntry(n, p).name = n.name
           /\ LoadedEntry(n, p).path = FormedPath(p, n.name, n.tag, "loaded")
           /\ LoadedEntry(n, p).time = (IF n.time = NULL THEN "epoch" ELSE n.time)
           /\ LoadedEntry(n, p).size = (IF n.tag = "file" THEN atoi(n.size) ELSE 0)
           /\ LoadedEntry(n, p).start = (IF n.tag = "file" THEN atoi(n.start) ELSE -1)
<1>1. /\ n.tag \in {"file", "dir"} /\ n.name \in Names /\ n.time \in Times
      /\ n.tag = "file" => n.size \in Int /\ n.start \in Int
  BY DEF Readable
<1>2. PICK path \in Seq(Parts) \ {<<>>} : path = FormedPath(p, n.name, n.tag, "loaded")
  BY <1>1, FormedPathFacts
<1>3. PICK time \in Times : time = IF n.time = NULL THEN "epoch" ELSE n.time
  BY <1>1 DEF Times
<1>4. CASE n.tag = "file"
  <2>1. PICK a, b : a = atoi(n.size) /\ b = atoi(n.start) /\ a \in Int /\ b \in Int
    <3>1. \A m \in Int : atoi(m) \in Int
      <4>1. \A m \in Int : atoi(m) \in -(IntMax + 1) .. IntMax
        BY AtoiFacts
      <4>2. IntMax \in Int
        BY PathsAssumption
      <4> QED  BY <4>1, <4>2
    <3> QED  BY <1>1, <1>4, <3>1
  <2>2. LoadedEntry(n, p) = [type |-> "file", name |-> n.name, path |-> path, size |-> a,
                             start |-> b, time |-> time]
    BY <1>2, <1>3, <1>4, <2>1 DEF LoadedEntry
  <2> QED  BY <1>1, <1>2, <1>3, <1>4, <2>1, <2>2 DEF FileInfos
<1>5. CASE n.tag = "dir"
  <2>1. LoadedEntry(n, p) = [type |-> "dir", name |-> n.name, path |-> path, size |-> 0,
                             start |-> -1, time |-> time]
    BY <1>2, <1>3, <1>5 DEF LoadedEntry
  <2> QED  BY <1>1, <1>2, <1>3, <1>5, <2>1 DEF DirInfos
<1> QED  BY <1>1, <1>4, <1>5

IsLoaded(h, t, u) == TreeOK(t) /\ Worn(h, t) /\ ~ Unreadable(h) /\ u = Loaded(h)

LEMMA NodesReadable ==
    ASSUME NEW h, NEW t, TreeOK(t), Worn(h, t), ~ Unreadable(h)
    PROVE  \A e \in Read(h) : /\ Readable(h.node[e]) /\ h.node[e].name = t.info[e].name
                              /\ h.node[e].tag = t.info[e].type
                              /\ h.node[e].time \in {t.info[e].time, NULL}
                              /\ h.node[e].tag = "file" => /\ h.node[e].size = t.info[e].size
                                                           /\ h.node[e].start = t.info[e].start
<1> SUFFICES ASSUME NEW e \in Read(h)
             PROVE  /\ Readable(h.node[e]) /\ h.node[e].name = t.info[e].name
                    /\ h.node[e].tag = t.info[e].type
                    /\ h.node[e].time \in {t.info[e].time, NULL}
                    /\ h.node[e].tag = "file" => /\ h.node[e].size = t.info[e].size
                                                 /\ h.node[e].start = t.info[e].start
  OBVIOUS
<1>1. e \in Content(t) /\ h.node[e].tag = t.info[e].type /\ h.node[e].tag \in {"file", "dir"}
  BY ReadFacts
<1>2. e \in Entries /\ t.info[e] \in Infos
  BY <1>1, TreeFacts
<1>3. /\ t.info[e].name \in Names /\ t.info[e].size \in Int /\ t.info[e].start \in Int
      /\ t.info[e].time \in Times
  BY <1>1, <1>2, InfoFacts
<1>4. /\ h.node[e].name # NULL
      /\ h.node[e].tag = "file" => h.node[e].size # NULL /\ h.node[e].start # NULL
  BY DEF Unreadable, Read
<1>5. /\ h.node[e].name \in {t.info[e].name, NULL} /\ h.node[e].time \in {t.info[e].time, NULL}
      /\ t.info[e].type = "file" => /\ h.node[e].size \in {t.info[e].size, NULL}
                                    /\ h.node[e].start \in {t.info[e].start, NULL}
  BY <1>2 DEF Worn
<1>6. NULL \in Times
  BY DEF Times
<1> QED  BY <1>1, <1>3, <1>4, <1>5, <1>6 DEF Readable

DirOf(h, e) == CHOOSE d \in Places : e \in ToSet(LoadedKids(h)[d])

\* The members of the entries that are read.
LEMMA LoadedInfo ==
    ASSUME NEW h, NEW t, NEW u, IsLoaded(h, t, u)
    PROVE  /\ u = [kids |-> u.kids, info |-> u.info] /\ u.kids = ReadLists(h)
           /\ u.info \in [Entries -> Infos]
           /\ \A e \in Entries \ Read(h) : u.info[e] = NoInfo
           /\ \A e \in Read(h) : /\ DirOf(h, e) \in Read(h) \cup {NULL}
                                 /\ e \in ToSet(LoadedKids(h)[DirOf(h, e)])
                                 /\ u.info[e] \in FileInfos \cup DirInfos
                                 /\ u.info[e] = LoadedEntry(h.node[e],
                                      IF DirOf(h, e) = NULL THEN <<>>
                                      ELSE u.info[DirOf(h, e)].path)
<1> DEFINE S == Read(h)
           W == FileInfos \cup DirInfos
           V == W \cup {[path |-> <<>>]}
           step[f \in [S -> V]] ==
             [e \in S |-> LoadedEntry(h.node[e], IF DirOf(h, e) = NULL THEN <<>>
                                                 ELSE f[DirOf(h, e)].path)]
<1>1. /\ TreeOK(t) /\ Worn(h, t) /\ u = Loaded(h) /\ \A e \in S : Readable(h.node[e])
  BY NodesReadable DEF IsLoaded
<1>2. PICK K : /\ K = LoadedKids(h) /\ Lists(K) /\ Founded(K) /\ OneParent(K)
               /\ S = Descendants(K, NULL)
  BY <1>1, ReadFacts DEF Read
<1>3. NULL \in Places /\ NULL \notin Entries /\ S \subseteq Entries /\ S \subseteq Places
  BY <1>2, DescendantsDef, PathsAssumption DEF Places
<1>4. \A d \in Places : \A e \in ToSet(K[d]) : DirOf(h, e) = d
  <2> SUFFICES ASSUME NEW d \in Places, NEW e \in ToSet(K[d]) PROVE DirOf(h, e) = d
    OBVIOUS
  <2>1. \A c \in Places : e \in ToSet(K[c]) <=> c = d
    BY <1>2 DEF OneParent
  <2> QED  BY <1>2, <2>1 DEF DirOf
<1>5. ASSUME NEW e \in S
      PROVE  /\ DirOf(h, e) \in S \cup {NULL} /\ DirOf(h, e) \in Places
             /\ e \in ToSet(K[DirOf(h, e)])
  <2>1. PICK d \in {NULL} \cup S : e \in ToSet(K[d])
    BY <1>2, <1>3, DescendantsParent
  <2>2. d \in Places
    BY <1>3
  <2>3. DirOf(h, e) = d
    BY <1>4, <2>1, <2>2
  <2> QED  BY <2>1, <2>2, <2>3
<1>6. ASSUME NEW f \in [S -> V], NEW e \in S
      PROVE  LoadedEntry(h.node[e], IF DirOf(h, e) = NULL THEN <<>> ELSE f[DirOf(h, e)].path) \in W
  <2>1. PICK p \in Seq(Parts) : p = IF DirOf(h, e) = NULL THEN <<>> ELSE f[DirOf(h, e)].path
    <3>1. CASE DirOf(h, e) = NULL
      BY <3>1, EmptySeq
    <3>2. CASE DirOf(h, e) # NULL
      <4>1. f[DirOf(h, e)] \in V
        BY <1>5, <3>2
      <4>2. \A i \in V : i.path \in Seq(Parts)
        <5>1. \A i \in W : i.path \in Seq(Parts)
          BY DEF FileInfos, DirInfos
        <5>2. [path |-> <<>>].path \in Seq(Parts)
          BY EmptySeq
        <5> HIDE DEF W
        <5> QED  BY <5>1, <5>2
      <4> HIDE DEF V
      <4> QED  BY <3>2, <4>1, <4>2
    <3> QED  BY <3>1, <3>2
  <2>2. LoadedEntry(h.node[e], p) \in W
    BY <1>1, LoadedEntryFacts
  <2> QED  BY <2>1, <2>2
<1>7. step \in [[S -> V] -> [S -> V]]
  BY <1>6
<1>8. PICK N, rank : /\ N \in Nat /\ rank \in [S -> 0 .. N]
                     /\ \A e \in S : DirOf(h, e) # NULL => rank[DirOf(h, e)] < rank[e]
  <2>1. PICK N, g : Heights(K, N, g)
    BY <1>2 DEF Founded
  <2>2. /\ N \in Nat /\ \A d \in Places : g[d] \in 0 .. N
        /\ \A d \in Places : \A e \in ToSet(K[d]) : g[e] < g[d]
    BY <2>1 DEF Heights
  <2> DEFINE r == [e \in S |-> N - g[e]]
  <2>3. ASSUME NEW e \in S PROVE N - g[e] \in 0 .. N
    <3>1. g[e] \in 0 .. N
      BY <1>3, <2>2
    <3> QED  BY <2>2, <3>1
  <2>4. r \in [S -> 0 .. N]
    BY <2>3
  <2>5. ASSUME NEW e \in S, DirOf(h, e) # NULL PROVE r[DirOf(h, e)] < r[e]
    <3>1. PICK d \in S : d = DirOf(h, e) /\ e \in ToSet(K[d]) /\ d \in Places
      BY <1>5, <2>5
    <3>2. g[e] \in 0 .. N /\ g[d] \in 0 .. N /\ g[e] < g[d]
      BY <1>3, <2>2, <3>1
    <3>3. r[d] < r[e]
      BY <2>2, <3>2
    <3> QED  BY <3>1, <3>3
  <2> HIDE DEF r
  <2> QED  BY <2>2, <2>4, <2>5
<1>9. \A f, g \in [S -> V] : \A e \in S :
         (\A y \in S : rank[y] < rank[e] => f[y] = g[y]) => step[f][e] = step[g][e]
  <2> SUFFICES ASSUME NEW f \in [S -> V], NEW g \in [S -> V], NEW e \in S,
                      \A y \in S : rank[y] < rank[e] => f[y] = g[y]
               PROVE  step[f][e] = step[g][e]
    OBVIOUS
  <2>1. CASE DirOf(h, e) = NULL
    BY <2>1
  <2>2. CASE DirOf(h, e) # NULL
    <3>1. PICK d \in S : d = DirOf(h, e) /\ rank[d] < rank[e]
      BY <1>5, <1>8, <2>2
    <3>2. f[d] = g[d]
      BY <3>1
    <3> QED  BY <3>1, <3>2
  <2> QED  BY <2>1, <2>2
<1>10. PICK f \in [S -> V] : f = step[f]
  <2>1. V # {}
    OBVIOUS
  <2> HIDE DEF step, V, S
  <2>2. Recursive(S, V, N, rank, step)
    BY <1>7, <1>8, <1>9, <2>1 DEF Recursive
  <2> QED  BY <2>2, Recursion
<1>11. f = [e \in S |-> LoadedEntry(h.node[e], IF DirOf(h, e) = NULL THEN <<>>
                                               ELSE f[DirOf(h, e)].path)]
  BY <1>10
<1>12. PICK g : /\ g = [e \in S |-> LoadedEntry(h.node[e], IF DirOf(h, e) = NULL THEN <<>>
                                                          ELSE g[DirOf(h, e)].path)]
                /\ u = [kids |-> ReadLists(h),
                        info |-> [e \in Entries |-> IF e \in S THEN g[e] ELSE NoInfo]]
  BY <1>1, <1>11 DEF Loaded, Read, ReadLists, DirOf
<1>13. \A e \in S : g[e] = LoadedEntry(h.node[e], IF DirOf(h, e) = NULL THEN <<>>
                                                  ELSE g[DirOf(h, e)].path)
  BY <1>12
<1>13a. ToSet(K[NULL]) \subseteq S /\ \A d \in S : ToSet(K[d]) \subseteq S
  <2>1. ToSet(K[NULL]) \subseteq Descendants(K, NULL)
    BY <1>2, <1>3, DescendantsDef
  <2>2. \A d \in Descendants(K, NULL) : ToSet(K[d]) \subseteq Descendants(K, NULL)
    BY <1>2, <1>3, DescendantsClosed
  <2> HIDE DEF S
  <2> QED  BY <1>2, <2>1, <2>2
<1> DEFINE P == {e \in S : g[e] \in W}
<1>14. ASSUME NEW d \in Places, d = NULL \/ d \in P, NEW e \in ToSet(K[d]) PROVE e \in P
  <2>1. e \in S
    BY <1>13a, <1>14
  <2>2. DirOf(h, e) = d
    BY <1>4
  <2>3. PICK p \in Seq(Parts) : p = IF d = NULL THEN <<>> ELSE g[d].path
    <3>1. CASE d = NULL
      BY <3>1, EmptySeq
    <3>2. CASE d # NULL
      <4>1. \A i \in W : i.path \in Seq(Parts)
        BY DEF FileInfos, DirInfos
      <4> HIDE DEF W
      <4> QED  BY <1>14, <3>2, <4>1
    <3> QED  BY <3>1, <3>2
  <2>4. LoadedEntry(h.node[e], p) \in W
    BY <1>1, <2>1, LoadedEntryFacts
  <2> HIDE DEF W
  <2> QED  BY <1>13, <2>1, <2>2, <2>3, <2>4
<1>15. S \subseteq P
  <2>1. ClosedFrom(K, NULL, P)
    <3>1. \A e \in P : e \in Places
      BY <1>3
    <3> HIDE DEF P
    <3> QED  BY <1>3, <1>14, <3>1 DEF ClosedFrom
  <2> HIDE DEF P
  <2> QED  BY <1>2, <1>3, <2>1, DescendantsInduct
<1>16. /\ u.kids = ReadLists(h) /\ u = [kids |-> u.kids, info |-> u.info]
       /\ u.info = [e \in Entries |-> IF e \in S THEN g[e] ELSE NoInfo]
  BY <1>12
<1>17. \A e \in Entries : u.info[e] = IF e \in S THEN g[e] ELSE NoInfo
  BY <1>16
<1>18. u.info \in [Entries -> Infos]
  <2>1. ASSUME NEW e \in Entries PROVE u.info[e] \in Infos
    <3>1. e \in S => g[e] \in W
      BY <1>15
    <3> QED  BY <1>17, <3>1 DEF Infos
  <2> QED  BY <1>16, <2>1
<1>19. ASSUME NEW e \in S
       PROVE  /\ DirOf(h, e) \in Read(h) \cup {NULL}
              /\ e \in ToSet(LoadedKids(h)[DirOf(h, e)])
              /\ u.info[e] \in FileInfos \cup DirInfos
              /\ u.info[e] = LoadedEntry(h.node[e], IF DirOf(h, e) = NULL THEN <<>>
                                                    ELSE u.info[DirOf(h, e)].path)
  <2>1. e \in Entries /\ u.info[e] = g[e] /\ g[e] \in W
    BY <1>3, <1>15, <1>17
  <2>2. DirOf(h, e) # NULL => u.info[DirOf(h, e)] = g[DirOf(h, e)]
    BY <1>3, <1>5, <1>17
  <2>3. u.info[e] = LoadedEntry(h.node[e], IF DirOf(h, e) = NULL THEN <<>>
                                           ELSE u.info[DirOf(h, e)].path)
    BY <1>13, <2>1, <2>2
  <2> QED  BY <1>2, <1>5, <2>1, <2>3
<1>20. \A e \in Entries \ Read(h) : u.info[e] = NoInfo
  BY <1>17
<1> QED  BY <1>16, <1>18, <1>19, <1>20

LoadsTo(h, t, u) ==
    /\ TreeOK(u) /\ u.kids = ReadLists(h) /\ Content(u) = Read(h) /\ Untyped(u) = {}
    /\ Within(t, u)
    /\ \A d \in Places : \A e \in ToSet(u.kids[d]) :
          u.info[e] = LoadedEntry(h.node[e], PathOf(u, d))
    /\ \A e \in Content(u) : u.info[e].type = t.info[e].type /\ u.info[e].type \in {"file", "dir"}

LEMMA LoadedTree ==
    ASSUME NEW h, NEW t, NEW u, IsLoaded(h, t, u)
    PROVE  LoadsTo(h, t, u)
<1>1. TreeOK(t) /\ Worn(h, t) /\ ~ Unreadable(h)
  BY DEF IsLoaded
<1>2. /\ u = [kids |-> u.kids, info |-> u.info] /\ u.kids = ReadLists(h)
      /\ u.info \in [Entries -> Infos]
      /\ \A e \in Entries \ Read(h) : u.info[e] = NoInfo
      /\ \A e \in Read(h) : /\ DirOf(h, e) \in Read(h) \cup {NULL}
                            /\ e \in ToSet(LoadedKids(h)[DirOf(h, e)])
                            /\ u.info[e] \in FileInfos \cup DirInfos
                            /\ u.info[e] = LoadedEntry(h.node[e],
                                 IF DirOf(h, e) = NULL THEN <<>>
                                 ELSE u.info[DirOf(h, e)].path)
  BY LoadedInfo
<1>3. PICK m : m = u.kids /\ m = ReadLists(h)
  BY <1>2
<1>4. /\ Forest(m) /\ Linked(m) = Read(h)
      /\ \A d \in Places : ToSet(m[d]) \subseteq ToSet(t.kids[d])
      /\ \A d \in Places : d \in Read(h) \cup {NULL} => m[d] = LoadedKids(h)[d]
  BY <1>1, <1>3, ReadForest
<1>5. Read(h) \subseteq Entries /\ Read(h) \subseteq Places /\ NULL \in Places /\ NULL \notin Entries
  BY <1>4, PathsAssumption DEF Linked, Places
<1>6. ASSUME NEW e \in Read(h)
      PROVE  u.info[e].type = t.info[e].type /\ u.info[e].name = t.info[e].name
             /\ u.info[e].type \in {"file", "dir"}
  <2>1. PICK p \in Seq(Parts) : p = IF DirOf(h, e) = NULL THEN <<>> ELSE u.info[DirOf(h, e)].path
    <3>1. CASE DirOf(h, e) = NULL
      BY <3>1, EmptySeq
    <3>2. CASE DirOf(h, e) # NULL
      <4>1. u.info[DirOf(h, e)] \in FileInfos \cup DirInfos
        BY <1>2, <3>2
      <4>2. \A i \in FileInfos \cup DirInfos : i.path \in Seq(Parts)
        BY DEF FileInfos, DirInfos
      <4> QED  BY <3>2, <4>1, <4>2
    <3> QED  BY <3>1, <3>2
  <2>2. /\ Readable(h.node[e]) /\ h.node[e].name = t.info[e].name
        /\ h.node[e].tag = t.info[e].type
    BY <1>1, NodesReadable
  <2>3. PICK n : n = h.node[e] /\ Readable(n)
    BY <2>2
  <2>4. u.info[e] = LoadedEntry(n, p)
    BY <1>2, <2>1, <2>3
  <2>5. u.info[e].type = n.tag /\ u.info[e].name = n.name
    <3>1. LoadedEntry(n, p).type = n.tag /\ LoadedEntry(n, p).name = n.name
      BY <2>3, LoadedEntryFacts
    <3> QED  BY <2>4, <3>1
  <2> QED  BY <2>2, <2>3, <2>5 DEF Readable
<1>7. ASSUME NEW e \in Entries PROVE u.info[e].type # "none" <=> e \in Linked(m)
  <2>1. NoInfo.type = "none"
    BY DEF NoInfo
  <2> QED  BY <1>2, <1>4, <1>6, <2>1
<1>8. ASSUME NEW d \in Entries, m[d] # <<>> PROVE u.info[d].type = "dir"
  <2>1. d \in Places /\ ToSet(m[d]) # {}
    BY <1>4, <1>8, ForestFacts, ListSets
  <2>2. t.kids[d] # <<>>
    BY <1>4, <2>1, SetOfEmpty
  <2>3. t.info[d].type = "dir"
    BY <1>1, <2>2 DEF TreeOK
  <2>4. d \in Read(h)
    BY <1>4, <1>8, ForestFacts DEF NoneLoose
  <2> QED  BY <1>6, <2>3, <2>4
<1>9. TreeOK(u)
  BY <1>2, <1>3, <1>4, <1>7, <1>8 DEF TreeOK
<1>10. Content(u) = Read(h)
  BY <1>3, <1>4, <1>9, TreeFacts
<1>11. Untyped(u) = {}
  BY <1>6, <1>10 DEF Untyped
<1>12. Within(t, u)
  BY <1>1, <1>3, <1>4, <1>6, <1>9 DEF Within
<1>13. ASSUME NEW d \in Places, NEW e \in ToSet(m[d])
       PROVE  u.info[e] = LoadedEntry(h.node[e], PathOf(u, d))
  <2>1. e \in Read(h)
    BY <1>4, ForestFacts, ListSets
  <2>2. PICK c \in Places : c = DirOf(h, e) /\ e \in ToSet(m[c])
    BY <1>2, <1>4, <1>5, <2>1
  <2>3. c = d
    BY <1>4, <2>2, ForestFacts DEF OneParent
  <2> QED  BY <1>2, <2>1, <2>2, <2>3 DEF PathOf
<1> QED  BY <1>2, <1>3, <1>6, <1>9, <1>10, <1>11, <1>12, <1>13 DEF LoadsTo

\* What is loaded has the path that leads to it.
LEMMA LoadedPaths ==
    ASSUME NEW h, NEW t, NEW u, IsLoaded(h, t, u)
    PROVE  \A e \in Content(u) : Regular(u.info[e].path, u.info[e].type) /\ ~ StaleIn(u, e)
<1>1. /\ TreeOK(t) /\ Worn(h, t) /\ ~ Unreadable(h) /\ LoadsTo(h, t, u)
  BY LoadedTree DEF IsLoaded
<1>2. /\ TreeOK(u) /\ Content(u) = Read(h) /\ Untyped(u) = {}
      /\ \A d \in Places : \A e \in ToSet(u.kids[d]) :
            u.info[e] = LoadedEntry(h.node[e], PathOf(u, d))
  BY <1>1 DEF LoadsTo
<1>3. PICK k : /\ k = u.kids /\ Forest(k) /\ Lists(k) /\ Founded(k) /\ Content(u) = Linked(k)
               /\ Content(u) = Descendants(k, NULL)
  BY <1>2, TreeFacts, ForestFacts DEF Content
<1>4. \A d \in Places : \A e \in ToSet(k[d]) : /\ d \in Dirs(u) \cup {NULL} /\ e \in Content(u)
                                               /\ NamesTo(u, e) = Append(NamesOf(u, d), u.info[e].name)
  <2>1. Named(u)
    BY <1>2, TreeFacts
  <2>4. \A d \in Places : ToSet(k[d]) \subseteq Linked(k)
    BY <1>3, ListSets
  <2>2. \A d \in Places : \A e \in ToSet(k[d]) : e \in Content(u)
    BY <1>3, <2>4
  <2>3. \A d \in Places : \A e \in ToSet(k[d]) : d \in Dirs(u) \cup {NULL}
    BY <1>2, <1>3, TreeFacts
  <2> QED  BY <1>3, <2>1, <2>2, <2>3, NamesDef
<1> DEFINE P == {e \in Content(u) : Regular(u.info[e].path, u.info[e].type) /\ ~ StaleIn(u, e)}
<1>5. ASSUME NEW d \in Places, d = NULL \/ d \in P, NEW e \in ToSet(k[d]) PROVE e \in P
  <2>1. e \in Content(u) /\ d \in Dirs(u) \cup {NULL}
    BY <1>4
  <2>2. PICK p \in Seq(Parts) : p = PathOf(u, d)
    BY <1>2, <2>1, PathOfDir
  <2>3. Regular(p, "dir") /\ Stripped(p) = NamesOf(u, d)
    <3>1. CASE d = NULL
      BY <2>2, <3>1, EmptyPath DEF PathOf, NamesOf
    <3>2. CASE d # NULL
      BY <1>5, <2>1, <2>2, <3>2 DEF PathOf, NamesOf, StaleIn, Dirs
    <3> QED  BY <3>1, <3>2
  <2>4. Readable(h.node[e])
    BY <1>1, <1>2, <2>1, NodesReadable
  <2>5. PICK n \in Names, tag \in {"file", "dir"} : n = h.node[e].name /\ tag = h.node[e].tag
    BY <2>4 DEF Readable
  <2>6. /\ u.info[e].type = tag /\ u.info[e].name = n
        /\ u.info[e].path = FormedPath(p, n, tag, "loaded")
    <3>1. u.info[e] = LoadedEntry(h.node[e], p)
      BY <1>2, <1>3, <2>2
    <3> QED  BY <2>4, <2>5, <3>1, LoadedEntryFacts
  <2>7. /\ Stripped(FormedPath(p, n, tag, "loaded")) = Append(Stripped(p), n)
        /\ Regular(FormedPath(p, n, tag, "loaded"), tag)
    BY <2>3, FormedPathFacts
  <2>8. NamesTo(u, e) = Append(NamesOf(u, d), n)
    BY <1>4, <2>6
  <2> QED  BY <2>1, <2>3, <2>6, <2>7, <2>8 DEF StaleIn
<1>6. Content(u) \subseteq P
  <2>1. ClosedFrom(k, NULL, P)
    <3>1. NULL \in Places /\ \A e \in P : e \in Places
      BY <1>3, ListSets DEF Linked
    <3> HIDE DEF P
    <3> QED  BY <1>5, <3>1 DEF ClosedFrom
  <2> HIDE DEF P
  <2> QED  BY <1>3, <2>1, DescendantsInduct, ListSets
<1> QED  BY <1>6

LEMMA LoadedKeeps ==
    ASSUME NEW h, NEW t, NEW u, IsLoaded(h, t, u)
    PROVE  /\ StaleOnlyBelow(u, {}) /\ PathsOK(u, Content(u))
           /\ Distinct(t) => Distinct(u)
<1>1. Within(t, u)
  BY LoadedTree DEF LoadsTo
<1> QED  BY <1>1, LoadedPaths, WithinNames DEF StaleOnlyBelow, PathsOK

LEMMA HeaderFacts ==
    ASSUME NEW t, NEW h, h = Header(t)
    PROVE  /\ h.kids = t.kids
           /\ \A e \in Entries : /\ h.node[e].tag = t.info[e].type
                                 /\ h.node[e].name = t.info[e].name
                                 /\ h.node[e].time = t.info[e].time
                                 /\ t.info[e].type = "file" =>
                                      /\ h.node[e].size = t.info[e].size
                                      /\ h.node[e].start = t.info[e].start
<1>1. h.kids = t.kids /\ \A e \in Entries : h.node[e] = Described(t.info[e])
  BY DEF Header
<1>2. ASSUME NEW i
      PROVE  /\ Described(i).tag = i.type /\ Described(i).name = i.name
             /\ Described(i).time = i.time
             /\ i.type = "file" => /\ Described(i).size = i.size
                                   /\ Described(i).start = i.start
  BY DEF Described
<1> QED  BY <1>1, <1>2

LEMMA HeaderWorn ==
    ASSUME NEW t, NEW h, h = Header(t)
    PROVE  Worn(h, t)
<1>1. h.kids = t.kids
  BY HeaderFacts
<1>2. ASSUME NEW e \in Entries
      PROVE  /\ h.node[e].tag = t.info[e].type
             /\ h.node[e].name = t.info[e].name
             /\ h.node[e].time = t.info[e].time
             /\ t.info[e].type = "file" => /\ h.node[e].size = t.info[e].size
                                           /\ h.node[e].start = t.info[e].start
  BY HeaderFacts
<1> QED  BY <1>1, <1>2 DEF Worn

\* Whatever is in the tree, its header can be read.
LEMMA HeaderReadable ==
    ASSUME NEW t, Listed(t), NEW h, h = Header(t)
    PROVE  ~ Unreadable(h)
<1> SUFFICES ASSUME NEW e \in Read(h)
             PROVE  /\ h.node[e].name # NULL
                    /\ h.node[e].tag = "file" => NULL \notin {h.node[e].size, h.node[e].start}
  BY DEF Unreadable, Read
<1>1. h.kids = t.kids /\ Lists(h.kids) /\ Founded(h.kids) /\ NULL \in Places
  BY HeaderFacts DEF Listed, Places
<1>2. /\ Lists(LoadedKids(h))
      /\ \A d \in Places : ToSet(LoadedKids(h)[d])
                              = {x \in ToSet(h.kids[d]) : h.node[x].tag \in {"file", "dir"}}
  BY <1>1, LoadedLists
<1>3. \E d \in Places : e \in ToSet(LoadedKids(h)[d])
  <2>1. PICK N, height : Heights(h.kids, N, height)
    BY <1>1 DEF Founded
  <2>2. Heights(LoadedKids(h), N, height)
    BY <1>2, <2>1 DEF Heights
  <2>3. Founded(LoadedKids(h))
    BY <2>2 DEF Founded
  <2>4. e \in Descendants(LoadedKids(h), NULL)
    BY DEF Read
  <2>5. {NULL} \cup Descendants(LoadedKids(h), NULL) \subseteq Places
    BY <1>1, <1>2, <2>3, DescendantsDef DEF Places
  <2> QED  BY <1>1, <1>2, <2>3, <2>4, <2>5, DescendantsParent
<1>4. h.node[e].tag \in {"file", "dir"} /\ e \in Entries
  BY <1>1, <1>2, <1>3, ListSets
<1>5. PICK i \in Infos : i = t.info[e]
  BY <1>4 DEF Listed
<1>6. /\ h.node[e].tag = i.type /\ h.node[e].name = i.name
      /\ i.type = "file" => h.node[e].size = i.size /\ h.node[e].start = i.start
  BY <1>4, <1>5, HeaderFacts
<1>7. i.name # NULL /\ i.size \in Int /\ i.start \in Int /\ NULL \notin Int
  BY <1>4, <1>6, InfoFacts, PathsAssumption
<1> QED  BY <1>6, <1>7

\* Some entry is found if there is one, and it has the path or none.
LEMMA FoundFacts ==
    ASSUME NEW t, TreeOK(t), NEW path
    PROVE  /\ ba_get(t, path) # NULL => /\ ba_get(t, path) \in Content(t)
                                       /\ t.info[ba_get(t, path)].path \in {path, NULL}
           /\ (\E e \in Content(t) : t.info[e].path \in {path, NULL}) => ba_get(t, path) # NULL
<1> DEFINE T == {x \in Entries : t.info[x].path \in {path, NULL}}
<1>1. PICK order \in Seq(Entries) : order = Preorder(t.kids, NULL) /\ ToSet(order) = Content(t)
  <2>1. Forest(t.kids) /\ NULL \in Places
    BY TreeFacts DEF Places
  <2>2. PICK order \in Seq(Entries) : order = Preorder(t.kids, NULL)
    BY <2>1, ForestFacts, PreorderDef
  <2> QED  BY <2>2 DEF Content, Descendants
<1>2. Hits(t, path) = Only(order, T)
  BY <1>1 DEF Hits
<1>3. PICK hits \in Seq(Entries) : hits = Hits(t, path) /\ ToSet(hits) = Content(t) \cap T
  <2> HIDE DEF T
  <2>1. Only(order, T) \in Seq(Entries) /\ ToSet(Only(order, T)) = ToSet(order) \cap T
    BY OnlySet
  <2> QED  BY <1>1, <1>2, <2>1
<1>4. hits = <<>> <=> Content(t) \cap T = {}
  <2>1. hits = <<>> <=> ToSet(hits) = {}
    <3>1. hits # <<>> => 1 \in 1 .. Len(hits)
      OBVIOUS
    <3>2. hits # <<>> => ToSet(hits) # {}
      BY <3>1, SetOfSeq
    <3> QED  BY <3>2, SetOfEmpty
  <2> QED  BY <1>3, <2>1
<1>5. hits # <<>> => Head(hits) \in ToSet(hits)
  <2>1. hits # <<>> => 1 \in 1 .. Len(hits) /\ Head(hits) = hits[1]
    OBVIOUS
  <2> QED  BY <2>1, SetOfSeq
<1>6. \A e \in Content(t) : e \in Entries /\ e # NULL
  BY TreeFacts
<1> QED  BY <1>3, <1>4, <1>5, <1>6 DEF ba_get

(***************************************************************************)
(* The order of walks: each entry once, and after the directory it is in.  *)
(***************************************************************************)
Once(s) == \A i, j \in 1 .. Len(s) : s[i] = s[j] => i = j

Unrepeated(kids) == \A d \in Places : Once(kids[d])

\* In s there are the directories of its entries before them, but for those in K.
AfterDirs(kids, K, s) ==
    \A i \in 1 .. Len(s) : \A c \in Places :
       s[i] \in ToSet(kids[c]) /\ c \notin K => \E j \in 1 .. Len(s) : j < i /\ s[j] = c

LEMMA ConcatElements ==
    ASSUME NEW S, NEW s \in Seq(S), NEW t \in Seq(S)
    PROVE  \E u \in Seq(S) :
              /\ u = s \o t /\ Len(u) = Len(s) + Len(t)
              /\ \A i \in 1 .. Len(s) : i \in 1 .. Len(u) /\ u[i] = s[i]
              /\ \A i \in 1 .. Len(t) : Len(s) + i \in 1 .. Len(u) /\ u[Len(s) + i] = t[i]
              /\ \A i \in 1 .. Len(u) : i \in 1 .. Len(s) \/ i - Len(s) \in 1 .. Len(t)
<1>1. PICK u \in Seq(S) : /\ u = s \o t /\ Len(u) = Len(s) + Len(t)
                         /\ \A i \in 1 .. Len(u) :
                              u[i] = IF i <= Len(s) THEN s[i] ELSE t[i - Len(s)]
  <2>1. /\ s \o t \in Seq(S) /\ Len(s \o t) = Len(s) + Len(t)
        /\ \A i \in 1 .. Len(s) + Len(t) :
             (s \o t)[i] = IF i <= Len(s) THEN s[i] ELSE t[i - Len(s)]
    BY ConcatProperties
  <2> QED  BY <2>1
<1>2. ASSUME NEW i \in 1 .. Len(s) PROVE i \in 1 .. Len(u) /\ u[i] = s[i]
  BY <1>1
<1>3. ASSUME NEW i \in 1 .. Len(t) PROVE Len(s) + i \in 1 .. Len(u) /\ u[Len(s) + i] = t[i]
  <2>1. PICK j \in 1 .. Len(u) : j = Len(s) + i
    BY <1>1
  <2>2. ~ (j <= Len(s)) /\ j - Len(s) = i
    BY <2>1
  <2> QED  BY <1>1, <2>1, <2>2
<1>4. ASSUME NEW i \in 1 .. Len(u) PROVE i \in 1 .. Len(s) \/ i - Len(s) \in 1 .. Len(t)
  <2>1. Len(s) \in Nat /\ Len(t) \in Nat /\ i \in Int
    BY <1>1
  <2> QED  BY <1>1, <2>1
<1> QED  BY <1>1, <1>2, <1>3, <1>4

LEMMA OnceConcat ==
    ASSUME NEW S, NEW s \in Seq(S), NEW t \in Seq(S), Once(s), Once(t), ToSet(s) \cap ToSet(t) = {}
    PROVE  Once(s \o t)
<1>1. PICK u \in Seq(S) :
         /\ u = s \o t /\ Len(u) = Len(s) + Len(t)
         /\ \A i \in 1 .. Len(s) : i \in 1 .. Len(u) /\ u[i] = s[i]
         /\ \A i \in 1 .. Len(t) : Len(s) + i \in 1 .. Len(u) /\ u[Len(s) + i] = t[i]
         /\ \A i \in 1 .. Len(u) : i \in 1 .. Len(s) \/ i - Len(s) \in 1 .. Len(t)
  BY ConcatElements
<1>2. \A i \in 1 .. Len(s), j \in 1 .. Len(t) : s[i] # t[j]
  BY SetOfSeq
<1>3. ASSUME NEW i \in 1 .. Len(u), i - Len(s) \in 1 .. Len(t) PROVE u[i] = t[i - Len(s)]
  <2>1. Len(s) + (i - Len(s)) = i
    OBVIOUS
  <2> QED  BY <1>1, <1>3, <2>1
<1> SUFFICES ASSUME NEW i \in 1 .. Len(u), NEW j \in 1 .. Len(u), u[i] = u[j] PROVE i = j
  BY <1>1 DEF Once
<1>4. CASE i \in 1 .. Len(s) /\ j \in 1 .. Len(s)
  BY <1>1, <1>4 DEF Once
<1>5. CASE i - Len(s) \in 1 .. Len(t) /\ j - Len(s) \in 1 .. Len(t)
  <2>1. i - Len(s) = j - Len(s)
    BY <1>3, <1>5 DEF Once
  <2> QED  BY <2>1
<1> QED  BY <1>1, <1>2, <1>3, <1>4, <1>5

LEMMA AfterDirsConcat ==
    ASSUME NEW kids, NEW K, NEW S, NEW s \in Seq(S), NEW t \in Seq(S),
           AfterDirs(kids, K, s), AfterDirs(kids, K \cup ToSet(s), t)
    PROVE  AfterDirs(kids, K, s \o t)
<1>1. PICK u \in Seq(S) :
         /\ u = s \o t /\ Len(u) = Len(s) + Len(t)
         /\ \A i \in 1 .. Len(s) : i \in 1 .. Len(u) /\ u[i] = s[i]
         /\ \A i \in 1 .. Len(t) : Len(s) + i \in 1 .. Len(u) /\ u[Len(s) + i] = t[i]
         /\ \A i \in 1 .. Len(u) : i \in 1 .. Len(s) \/ i - Len(s) \in 1 .. Len(t)
  BY ConcatElements
<1> SUFFICES AfterDirs(kids, K, u)
  BY <1>1
<1> SUFFICES ASSUME NEW i \in 1 .. Len(u), NEW c \in Places, u[i] \in ToSet(kids[c]), c \notin K
             PROVE  \E j \in 1 .. Len(u) : j < i /\ u[j] = c
  BY DEF AfterDirs
<1>2. CASE i \in 1 .. Len(s)
  <2>1. s[i] \in ToSet(kids[c]) /\ c \notin K
    BY <1>1, <1>2
  <2>2. PICK j \in 1 .. Len(s) : j < i /\ s[j] = c
    BY <1>2, <2>1 DEF AfterDirs
  <2> QED  BY <1>1, <2>2
<1>3. CASE i - Len(s) \in 1 .. Len(t)
  <2>1. PICK k \in 1 .. Len(t) : k = i - Len(s) /\ i = Len(s) + k
    <3>1. Len(s) \in Nat /\ i \in Int
      OBVIOUS
    <3>2. Len(s) + (i - Len(s)) = i
      BY <3>1
    <3> QED  BY <1>3, <3>2
  <2>2. t[k] \in ToSet(kids[c])
    BY <1>1, <2>1
  <2>3. CASE c \in ToSet(s)
    <3>1. PICK j \in 1 .. Len(s) : s[j] = c
      BY <2>3, SetOfSeq
    <3> QED  BY <1>1, <2>1, <3>1
  <2>4. CASE c \notin ToSet(s)
    <3>1. PICK j \in 1 .. Len(t) : j < k /\ t[j] = c
      BY <2>2, <2>4 DEF AfterDirs
    <3>2. Len(s) + j < i
      BY <2>1, <3>1
    <3> QED  BY <1>1, <3>1, <3>2
  <2> QED  BY <2>3, <2>4
<1> QED  BY <1>1, <1>2, <1>3

\* What is below one entry of a list is not below another.
LEMMA Apart ==
    ASSUME NEW kids, Forest(kids), NEW d \in Places, NEW x \in ToSet(kids[d]),
           NEW y \in ToSet(kids[d]), x # y
    PROVE  ({x} \cup Descendants(kids, x)) \cap ({y} \cup Descendants(kids, y)) = {}
<1>1. /\ Lists(kids) /\ Founded(kids) /\ OneParent(kids) /\ x \in Places /\ y \in Places
      /\ x \in Entries /\ y \in Entries
      /\ \A c \in Places : ToSet(kids[c]) \subseteq Entries /\ Descendants(kids, c) \subseteq Entries
      /\ Entries \subseteq Places
  BY ForestFacts, ListSets, DescendantsDef
<1>2. \A e \in ToSet(kids[d]) : d \notin {e} \cup Descendants(kids, e)
  <2>1. ASSUME NEW e \in ToSet(kids[d]), d \in {e} \cup Descendants(kids, e) PROVE FALSE
    <3>1. e \in Places /\ e \in Descendants(kids, e)
      BY <1>1, <2>1, ForestParent
    <3> QED  BY <1>1, <3>1, DescendantsClosed
  <2> QED  BY <2>1
<1> DEFINE S == Entries \ ({y} \cup Descendants(kids, y))
<1>3. x \in S
  BY <1>1, <1>2, ForestParent
<1>4. ASSUME NEW c \in {x} \cup Descendants(kids, x), c \in S PROVE ToSet(kids[c]) \subseteq S
  <2> SUFFICES ASSUME NEW z \in ToSet(kids[c]) PROVE z \notin {y} \cup Descendants(kids, y)
    BY <1>1
  <2>1. c \in Places
    BY <1>1
  <2>2. z \notin Descendants(kids, y)
    BY <1>1, <1>4, <2>1, ForestParent
  <2>3. z # y
    BY <1>1, <1>2, <2>1 DEF OneParent
  <2> QED  BY <2>2, <2>3
<1>5. Descendants(kids, x) \subseteq S
  <2>1. ClosedFrom(kids, x, S)
    BY <1>3, <1>4 DEF ClosedFrom
  <2> HIDE DEF S
  <2> QED  BY <1>1, <2>1, DescendantsInduct
<1> QED  BY <1>3, <1>5

\* What the lemma below asks of the entries of a list and the walks below them.
Ordered(kids, list, w) ==
    /\ Once(list)
    /\ \A x \in ToSet(list) : /\ w[x] \in Seq(Entries) /\ Once(w[x]) /\ x \notin ToSet(w[x])
                              /\ AfterDirs(kids, {x}, w[x])
    /\ \A x, y \in ToSet(list) :
          x # y => ({x} \cup ToSet(w[x])) \cap ({y} \cup ToSet(w[y])) = {}

LEMMA OnceFront ==
    ASSUME NEW S, NEW s \in Seq(S), NEW e \in S, Once(Append(s, e))
    PROVE  Once(s) /\ e \notin ToSet(s)
<1>1. PICK t \in Seq(S) : /\ t = Append(s, e) /\ Len(t) = Len(s) + 1 /\ t[Len(t)] = e
                          /\ \A i \in 1 .. Len(s) : t[i] = s[i]
  <2>1. /\ Append(s, e) \in Seq(S) /\ Len(Append(s, e)) = Len(s) + 1
        /\ Append(s, e)[Len(Append(s, e))] = e
        /\ \A i \in 1 .. Len(s) : Append(s, e)[i] = s[i]
    BY AppendProperties
  <2> QED  BY <2>1
<1>2. \A i \in 1 .. Len(s) : i \in 1 .. Len(t) /\ i # Len(t)
  BY <1>1
<1>3. Len(t) \in 1 .. Len(t)
  BY <1>1
<1>4. Once(t)
  BY <1>1
<1>5. Once(s)
  BY <1>1, <1>2, <1>4 DEF Once
<1>6. \A i \in 1 .. Len(s) : s[i] # e
  BY <1>1, <1>2, <1>3, <1>4 DEF Once
<1> QED  BY <1>5, <1>6, SetOfSeq

LEMMA WalkedOrder ==
    ASSUME NEW kids, NEW d \in Places, OneParent(kids), NEW w,
           NEW list \in Seq(Entries), Ordered(kids, list, w), ToSet(list) \subseteq ToSet(kids[d])
    PROVE  Once(Walked(list, w)) /\ AfterDirs(kids, {d}, Walked(list, w))
<1> DEFINE Good(s) == Ordered(kids, s, w) /\ ToSet(s) \subseteq ToSet(kids[d])
           P == {s \in Seq(Entries) :
                   Good(s) => Once(Walked(s, w)) /\ AfterDirs(kids, {d}, Walked(s, w))}
<1>1. <<>> \in P
  <2>1. Walked(<<>>, w) = <<>> /\ Len(<<>>) = 0
    BY WalkedEmpty
  <2> QED  BY <2>1, EmptySeq DEF Once, AfterDirs
<1>2. ASSUME NEW s \in Seq(Entries), s \in P, NEW e \in Entries PROVE Append(s, e) \in P
  <2>1. Append(s, e) \in Seq(Entries) /\ ToSet(Append(s, e)) = ToSet(s) \cup {e}
    BY AppendProperties, SetOfSeq
  <2> SUFFICES ASSUME Good(Append(s, e))
               PROVE  /\ Once(Walked(Append(s, e), w))
                      /\ AfterDirs(kids, {d}, Walked(Append(s, e), w))
    BY <2>1
  <2>2. Once(s) /\ e \notin ToSet(s)
    BY OnceFront DEF Ordered
  <2>3. Good(s)
    BY <2>1, <2>2 DEF Ordered
  <2>4. Walks(w, ToSet(Append(s, e)))
    BY DEF Ordered, Walks
  <2>5. PICK a \in Seq(Entries) : /\ a = Walked(s, w)
                                  /\ Walked(Append(s, e), w) = a \o <<e>> \o w[e]
    BY <2>4, WalkedAppend
  <2>6. Once(a) /\ AfterDirs(kids, {d}, a)
    BY <1>2, <2>3, <2>5
  <2>7. ToSet(a) = ToSet(s) \cup UNION {ToSet(w[x]) : x \in ToSet(s)}
    <3>1. Walks(w, ToSet(s))
      BY <2>1, <2>4 DEF Walks
    <3> QED  BY <2>5, <3>1, WalkedSet
  <2>8. PICK b \in Seq(Entries) : /\ b = w[e] /\ Once(b) /\ e \notin ToSet(b)
                                  /\ AfterDirs(kids, {e}, b)
    BY <2>1 DEF Ordered
  <2>9. ToSet(a) \cap ({e} \cup ToSet(b)) = {}
    <3>1. \A x \in ToSet(s) : x # e /\ x \in ToSet(Append(s, e)) /\ e \in ToSet(Append(s, e))
      BY <2>1, <2>2
    <3>2. \A x \in ToSet(s) : ({x} \cup ToSet(w[x])) \cap ({e} \cup ToSet(w[e])) = {}
      BY <3>1 DEF Ordered
    <3> QED  BY <2>7, <2>8, <3>2
  <2>10. PICK c \in Seq(Entries) : c = <<e>> /\ Len(c) = 1 /\ c[1] = e /\ ToSet(c) = {e}
    <3>1. <<e>> \in Seq(Entries) /\ Len(<<e>>) = 1 /\ <<e>>[1] = e
      OBVIOUS
    <3>2. PICK b0 \in Seq(Entries) : b0 = <<e>> /\ Len(b0) = 1 /\ b0[1] = e
      BY <3>1
    <3>3. \A x : x \in ToSet(b0) <=> \E i \in 1 .. Len(b0) : b0[i] = x
      BY SetOfSeq
    <3>4. \A x : x \in ToSet(b0) <=> x = e
      <4>1. 1 .. Len(b0) = {1} /\ b0[1] = e
        BY <3>2
      <4> QED  BY <3>3, <4>1
    <3>5. ToSet(b0) = {e}
      BY <3>4
    <3> QED  BY <3>2, <3>5
  <2>11. Once(c) /\ AfterDirs(kids, {d} \cup ToSet(a), c)
    <3>1. e \in ToSet(kids[d])
      BY <2>1
    <3>2. \A x \in Places : e \in ToSet(kids[x]) => x = d
      BY <3>1 DEF OneParent
    <3> QED  BY <2>10, <3>2 DEF Once, AfterDirs
  <2>12. PICK v \in Seq(Entries) : v = a \o c /\ ToSet(v) = ToSet(a) \cup {e}
    <3>1. a \o c \in Seq(Entries) /\ ToSet(a \o c) = ToSet(a) \cup ToSet(c)
      BY ConcatSet
    <3> QED  BY <2>10, <3>1
  <2>13. Once(v) /\ AfterDirs(kids, {d}, v)
    BY <2>6, <2>9, <2>10, <2>11, <2>12, OnceConcat, AfterDirsConcat
  <2>14. AfterDirs(kids, {d} \cup ToSet(v), b)
    BY <2>8, <2>12 DEF AfterDirs
  <2>15. Once(v \o b) /\ AfterDirs(kids, {d}, v \o b)
    BY <2>8, <2>9, <2>12, <2>13, <2>14, OnceConcat, AfterDirsConcat
  <2> QED  BY <2>5, <2>8, <2>10, <2>12, <2>15
<1>3. Seq(Entries) \subseteq P
  <2> HIDE DEF P
  <2> QED  BY <1>1, <1>2, SeqInduct
<1> QED  BY <1>3

LEMMA PreorderOrder ==
    ASSUME NEW kids, Forest(kids), Unrepeated(kids), NEW d \in Places
    PROVE  Once(Preorder(kids, d)) /\ AfterDirs(kids, {d}, Preorder(kids, d))
<1>1. /\ Lists(kids) /\ Founded(kids) /\ OneParent(kids) /\ Entries \subseteq Places
      /\ \A c \in Places : kids[c] \in Seq(Entries) /\ ToSet(kids[c]) \subseteq Entries
  BY ForestFacts, ListSets
<1>2. PICK N, h : Heights(kids, N, h)
  BY <1>1 DEF Founded
<1>3. PICK w \in [Places -> Seq(Entries)] :
        \A c \in Places : w[c] = Walked(kids[c], w) /\ Preorder(kids, c) = w[c]
  BY <1>1, PreorderDef
<1>4. \A c \in Places : ToSet(w[c]) = Descendants(kids, c)
  BY <1>3 DEF Descendants
<1> DEFINE P == {c \in Places : Once(w[c]) /\ AfterDirs(kids, {c}, w[c])}
<1>5. ASSUME NEW c \in Places, \A e \in Places : h[e] < h[c] => e \in P PROVE c \in P
  <2>1. \A x \in ToSet(kids[c]) : x \in Places /\ x \in P /\ w[x] \in Seq(Entries)
    BY <1>1, <1>2, <1>5 DEF Heights
  <2>2. \A x \in ToSet(kids[c]) : x \notin ToSet(w[x])
    BY <1>1, <1>4, <2>1, DescendantsClosed
  <2>3. ASSUME NEW x \in ToSet(kids[c]), NEW y \in ToSet(kids[c]), x # y
        PROVE  ({x} \cup ToSet(w[x])) \cap ({y} \cup ToSet(w[y])) = {}
    <3>1. ({x} \cup Descendants(kids, x)) \cap ({y} \cup Descendants(kids, y)) = {}
      BY <2>3, Apart
    <3>2. ToSet(w[x]) = Descendants(kids, x) /\ ToSet(w[y]) = Descendants(kids, y)
      BY <1>4, <2>1
    <3> QED  BY <3>1, <3>2
  <2>4. Ordered(kids, kids[c], w)
    BY <2>1, <2>2, <2>3 DEF Ordered, Unrepeated
  <2>5. PICK list \in Seq(Entries) : list = kids[c]
    BY <1>1
  <2>6. Once(Walked(list, w)) /\ AfterDirs(kids, {c}, Walked(list, w))
    BY <1>1, <2>4, <2>5, WalkedOrder
  <2> QED  BY <1>3, <2>5, <2>6
<1>6. Places \subseteq P
  <2> HIDE DEF P
  <2> QED  BY <1>2, <1>5, HeightInduct
<1> QED  BY <1>3, <1>6
=============================================================================
