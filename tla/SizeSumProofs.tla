----------------------------- MODULE SizeSumProofs -----------------------------
(***************************************************************************)
(* SizeSum is the sum of the sizes: none for no files, the size of a file  *)
(* for that file, and the sum of the sums for files put together.          *)
(***************************************************************************)
EXTENDS SizeSum, FiniteSetTheorems, TLAPS

Sizeable(size, F) == IsFiniteSet(F) /\ \A f \in F : size[f] \in Nat

LEMMA BytesFinite ==
    ASSUME NEW size, NEW F, Sizeable(size, F)
    PROVE  IsFiniteSet(BytesOf(size, F))
<1> DEFINE B == [f \in F |-> {f} \X (1 .. size[f])]
           I == {{f} \X (1 .. size[f]) : f \in F}
<1>1. B \in Surjection(F, I)
  BY DEF Surjection
<1>2. IsFiniteSet(I)
  BY <1>1, FS_Surjection DEF Sizeable
<1>3. ASSUME NEW f \in F PROVE IsFiniteSet({f} \X (1 .. size[f]))
  <2>1. IsFiniteSet(1 .. size[f])
    BY FS_Interval DEF Sizeable
  <2>2. IsFiniteSet({f})
    BY FS_Singleton
  <2> QED  BY <2>1, <2>2, FS_Product
<1> QED  BY <1>2, <1>3, FS_UNION DEF BytesOf

LEMMA SumType ==
    ASSUME NEW size, NEW F, Sizeable(size, F)
    PROVE  SizeSum(size, F) \in Nat
BY BytesFinite, FS_CardinalityType DEF SizeSum

LEMMA SumNone == ASSUME NEW size PROVE SizeSum(size, {}) = 0
<1>1. BytesOf(size, {}) = {}
  BY DEF BytesOf
<1> QED  BY <1>1, FS_EmptySet DEF SizeSum

LEMMA SumOne ==
    ASSUME NEW size, NEW f, size[f] \in Nat
    PROVE  SizeSum(size, {f}) = size[f]
<1>1. BytesOf(size, {f}) = {f} \X (1 .. size[f])
  BY DEF BytesOf
<1>2. IsFiniteSet({f}) /\ Cardinality({f}) = 1
  BY FS_Singleton
<1>3. IsFiniteSet(1 .. size[f]) /\ Cardinality(1 .. size[f]) = size[f]
  <2>1. /\ IsFiniteSet(1 .. size[f])
        /\ Cardinality(1 .. size[f]) = IF 1 > size[f] THEN 0 ELSE size[f] - 1 + 1
    <3>1. 1 \in Int /\ size[f] \in Int
      OBVIOUS
    <3> QED  BY Zenon, <3>1, FS_Interval
  <2> QED  BY <2>1
<1>4. Cardinality({f} \X (1 .. size[f])) = Cardinality({f}) * Cardinality(1 .. size[f])
  BY <1>2, <1>3, FS_Product
<1>5. Cardinality({f} \X (1 .. size[f])) = 1 * size[f]
  BY <1>2, <1>3, <1>4
<1>6. 1 * size[f] = size[f]
  OBVIOUS
<1> QED  BY <1>1, <1>5, <1>6 DEF SizeSum

LEMMA SumUnion ==
    ASSUME NEW size, NEW F, NEW G, Sizeable(size, F), Sizeable(size, G), F \cap G = {}
    PROVE  SizeSum(size, F \cup G) = SizeSum(size, F) + SizeSum(size, G)
<1>1. BytesOf(size, F \cup G) = BytesOf(size, F) \cup BytesOf(size, G)
  BY DEF BytesOf
<1>2. BytesOf(size, F) \cap BytesOf(size, G) = {}
  BY DEF BytesOf
<1>3. IsFiniteSet(BytesOf(size, F)) /\ IsFiniteSet(BytesOf(size, G))
  BY BytesFinite
<1>4. Cardinality(BytesOf(size, F)) \in Nat /\ Cardinality(BytesOf(size, G)) \in Nat
  BY <1>3, FS_CardinalityType
<1>5. Cardinality(BytesOf(size, F) \cup BytesOf(size, G))
        = Cardinality(BytesOf(size, F)) + Cardinality(BytesOf(size, G))
          - Cardinality(BytesOf(size, F) \cap BytesOf(size, G))
  BY <1>3, FS_Union
<1>6. Cardinality(BytesOf(size, F) \cap BytesOf(size, G)) = 0
  BY <1>2, FS_EmptySet
<1>7. Cardinality(BytesOf(size, F) \cup BytesOf(size, G))
        = Cardinality(BytesOf(size, F)) + Cardinality(BytesOf(size, G))
  BY <1>4, <1>5, <1>6
<1> QED  BY <1>1, <1>7 DEF SizeSum

\* Only the sizes of the files that are counted matter.
LEMMA SumSame ==
    ASSUME NEW size, NEW other, NEW F, \A f \in F : size[f] = other[f]
    PROVE  SizeSum(size, F) = SizeSum(other, F)
<1>1. BytesOf(size, F) = BytesOf(other, F)
  BY DEF BytesOf
<1> QED  BY <1>1 DEF SizeSum

\* Files that are taken away count no more.
LEMMA SumWithout ==
    ASSUME NEW size, NEW F, Sizeable(size, F), NEW G \in SUBSET F
    PROVE  /\ SizeSum(size, F \ G) = SizeSum(size, F) - SizeSum(size, G)
           /\ SizeSum(size, F \ G) \in Nat /\ SizeSum(size, G) \in Nat
<1>1. IsFiniteSet(G) /\ IsFiniteSet(F \ G)
  BY FS_Subset DEF Sizeable
<1>2. Sizeable(size, G) /\ Sizeable(size, F \ G)
  BY <1>1 DEF Sizeable
<1>3. SizeSum(size, (F \ G) \cup G) = SizeSum(size, F \ G) + SizeSum(size, G)
  BY <1>2, SumUnion
<1>4. (F \ G) \cup G = F
  OBVIOUS
<1>5. SizeSum(size, F) = SizeSum(size, F \ G) + SizeSum(size, G)
  BY <1>3, <1>4
<1>6. SizeSum(size, F \ G) \in Nat /\ SizeSum(size, G) \in Nat
  BY <1>2, SumType
<1> QED  BY <1>5, <1>6

\* One more file.
LEMMA SumMore ==
    ASSUME NEW size, NEW F, Sizeable(size, F), NEW f, f \notin F, size[f] \in Nat
    PROVE  /\ SizeSum(size, F \cup {f}) = SizeSum(size, F) + size[f]
           /\ SizeSum(size, F) \in Nat
<1>1. Sizeable(size, {f})
  BY FS_Singleton DEF Sizeable
<1> QED  BY <1>1, SumUnion, SumOne, SumType
=============================================================================
