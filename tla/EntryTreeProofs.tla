--------------------------- MODULE EntryTreeProofs ---------------------------
(***************************************************************************)
(* Theorems about the entry tree, for any number of entries and any sizes, *)
(* and what they rest on: facts about what the functions of entrylist.c do *)
(* to the lists.                                                           *)
(***************************************************************************)
EXTENDS EntryTree, SizeSumProofs

(***************************************************************************)
(* The lists.                                                              *)
(***************************************************************************)
\* No pointer leads to e.
Unreferenced(l, e) ==
    /\ \A p \in Entries : l.next[p] # e
    /\ \A d \in Pointer : l.head[d] # e

\* No two pointers lead to the same entry.
Single(l) == Unshared(l, Entries, Pointer)

\* All pointers lead to entries of A.
Within(l, A) ==
    /\ \A p \in Entries : l.next[p] \in A \cup {NULL}
    /\ \A d \in Pointer : l.head[d] \in A \cup {NULL}

(***************************************************************************)
(* Walks.                                                                  *)
(***************************************************************************)
\* What a walk visits is closed under the pointers it follows.
LEMMA ChainClosed ==
    ASSUME NEW next \in [Entries -> Pointer], NEW first \in Pointer
    PROVE  Chain(next, first) \in ClosedSets(next, first)
<1> DEFINE C == Chain(next, first)
<1>1. first \in C \cup {NULL}
  BY DEF Chain, ClosedSets, Pointer
<1>2. ASSUME NEW e \in C PROVE next[e] \in C \cup {NULL}
  <2>1. next[e] \in Entries \cup {NULL}
    BY <1>2 DEF Chain, Pointer
  <2>2. \A S \in ClosedSets(next, first) : next[e] \in S \cup {NULL}
    BY <1>2 DEF Chain, ClosedSets
  <2> QED  BY <2>1, <2>2 DEF Chain
<1> QED  BY <1>1, <1>2 DEF Chain, ClosedSets

\* A walk visits no more than any closed set.
LEMMA ChainLeast ==
    ASSUME NEW next, NEW first, NEW S \in ClosedSets(next, first)
    PROVE  Chain(next, first) \subseteq S
BY DEF Chain

\* Every entry of a list but the first has one before it, which the search of
\* __bael_getprev() comes to.
LEMMA Predecessor ==
    ASSUME NEW next \in [Entries -> Pointer], NEW first \in Pointer,
           NEW e \in Chain(next, first), e # first
    PROVE  \E p \in ChainTo(next, first, e) \ {e} : next[p] = e
<1> DEFINE cut == [next EXCEPT ![e] = NULL]
           V   == Chain(cut, first)
<1>1. e \in Entries /\ cut \in [Entries -> Pointer]
  BY DEF Chain, Pointer
<1>2. V \in ClosedSets(cut, first)
  BY <1>1, ChainClosed
<1>3. SUFFICES ASSUME \A p \in V \ {e} : next[p] # e PROVE FALSE
  BY DEF ChainTo
<1>4. V \ {e} \in ClosedSets(next, first)
  BY <1>1, <1>2, <1>3 DEF ClosedSets
<1> QED  BY <1>4, ChainLeast

\* __bael_getprev() finds it.
LEMMA GetPrev ==
    ASSUME NullAssumption,
           NEW next \in [Entries -> Pointer], NEW first \in Pointer,
           NEW e \in Chain(next, first), e # first
    PROVE  /\ getprev(next, first, e) \in Entries \ {e}
           /\ next[getprev(next, first, e)] = e
<1> DEFINE cut == [next EXCEPT ![e] = NULL]
           V   == ChainTo(next, first, e)
<1>1. e \in Entries /\ cut \in [Entries -> Pointer]
  BY DEF Chain, Pointer
<1>2. V \in ClosedSets(cut, first)
  BY <1>1, ChainClosed DEF ChainTo
<1>3. PICK p \in V \ {e} : next[p] = e
  BY Predecessor
<1>4. cut[p] = e
  BY <1>1, <1>2, <1>3 DEF ClosedSets
<1>5. e \in V
  BY <1>1, <1>2, <1>3, <1>4, NullAssumption DEF ClosedSets
<1>6. getprev(next, first, e) = CHOOSE q \in V \ {e} : next[q] = e
  BY <1>5 DEF getprev
<1>7. V \subseteq Entries
  BY DEF ChainTo, Chain
<1> QED  BY <1>3, <1>6, <1>7

(***************************************************************************)
(* bael_remove().                                                          *)
(***************************************************************************)
LEMMA RemoveLinks ==
    ASSUME NEW l \in Links, NEW dir \in Pointer, NEW e \in Entries
    PROVE  bael_remove(l, dir, e) \in Links
BY DEF bael_remove, Links, Pointer

\* The pointer to e, if there is one, takes over e's ->next.
LEMMA RemoveSingle ==
    ASSUME NullAssumption,
           NEW l \in Links, NEW dir \in Pointer, NEW e \in Entries, Single(l)
    PROVE  Single(bael_remove(l, dir, e))
<1> DEFINE r == bael_remove(l, dir, e)
           q == getprev(l.next, l.head[dir], e)
<1>1. CASE l.head[dir] = e
  BY <1>1 DEF Single, Unshared, bael_remove, Links, Pointer, NullAssumption
<1>2. CASE l.head[dir] = NULL
  BY <1>2 DEF Single, Unshared, bael_remove, Links, Pointer, NullAssumption
<1>3. CASE l.head[dir] # e /\ l.head[dir] # NULL
  <2>1. r = [head |-> l.head, next |-> [l.next EXCEPT ![q] = l.next[e], ![e] = NULL]]
    BY <1>3 DEF bael_remove
  <2> HIDE DEF q
  <2>2. \A p \in Entries : r.next[p] = IF p = e THEN NULL ELSE IF p = q THEN l.next[e] ELSE l.next[p]
    BY <2>1 DEF Links
  <2> HIDE DEF r
  <2>3. r.head = l.head
    BY <2>1
  <2>4. Single(r)
    BY <2>2, <2>3 DEF Single, Unshared, Links, Pointer
  <2> QED  BY <2>4 DEF r
<1> QED  BY <1>1, <1>2, <1>3

LEMMA RemoveWithin ==
    ASSUME NEW l \in Links, NEW dir \in Pointer, NEW e \in Entries, NEW A, Within(l, A)
    PROVE  Within(bael_remove(l, dir, e), A)
BY DEF Within, bael_remove, Links, Pointer

\* An entry that was in the list of dir is in no list any more.
LEMMA RemoveUnlinks ==
    ASSUME NullAssumption,
           NEW l \in Links, NEW dir \in Pointer, NEW e \in Listed(l, dir), Single(l)
    PROVE  Unreferenced(bael_remove(l, dir, e), e)
<1> DEFINE r == bael_remove(l, dir, e)
           q == getprev(l.next, l.head[dir], e)
<1>0. e \in Entries /\ e # NULL
  BY NullAssumption DEF Listed, Chain
<1>1. CASE l.head[dir] = e
  BY <1>0, <1>1 DEF Single, Unshared, Unreferenced, bael_remove, Links, Pointer
<1>2. CASE l.head[dir] # e
  <2>1. l.head[dir] # NULL
    <3>1. {} \in ClosedSets(l.next, NULL)
      BY DEF ClosedSets
    <3> QED  BY <3>1, ChainLeast DEF Listed
  <2>2. q \in Entries \ {e} /\ l.next[q] = e
    BY <1>2, GetPrev, NullAssumption DEF Listed, Links
  <2>3. r = [head |-> l.head, next |-> [l.next EXCEPT ![q] = l.next[e], ![e] = NULL]]
    BY <1>2, <2>1 DEF bael_remove
  <2> HIDE DEF q, r
  <2>4. \A p \in Entries : r.next[p] = IF p = e THEN NULL ELSE IF p = q THEN l.next[e] ELSE l.next[p]
    BY <2>3, <1>0, <2>2 DEF Links
  <2>5. r.head = l.head
    BY <2>3
  <2>6. Unreferenced(r, e)
    BY <1>0, <2>2, <2>4, <2>5 DEF Single, Unshared, Unreferenced
  <2> QED  BY <2>6 DEF r
<1> QED  BY <1>1, <1>2

\* Every other entry stays in its list.
LEMMA RemoveKeepsListed ==
    ASSUME NullAssumption,
           NEW l \in Links, NEW dir \in Pointer, NEW s \in Listed(l, dir), Single(l),
           NEW d \in Pointer, NEW e \in Listed(l, d), e # s
    PROVE  e \in Listed(bael_remove(l, dir, s), d)
<1> DEFINE r == bael_remove(l, dir, s)
           q == getprev(l.next, l.head[dir], s)
<1>0. s \in Entries /\ e \in Entries /\ s # NULL
  BY NullAssumption DEF Listed, Chain
<1>1. SUFFICES ASSUME NEW S \in ClosedSets(r.next, r.head[d]) PROVE e \in S
  BY <1>0 DEF Listed, Chain
<1> DEFINE Old == ClosedSets(l.next, l.head[d])
<1>2. CASE l.head[dir] = s
  <2>1. r = [head |-> [l.head EXCEPT ![dir] = l.next[s]], next |-> [l.next EXCEPT ![s] = NULL]]
    BY <1>0, <1>2 DEF bael_remove
  <2> HIDE DEF r
  <2>2. CASE d = dir
    <3>1. S \cup {s} \in Old
      BY <1>0, <1>2, <2>1, <2>2 DEF ClosedSets, Links
    <3> QED  BY <3>1, ChainLeast DEF Listed
  <2>3. CASE d # dir
    <3>1. S \ {s} \in Old
      BY <1>0, <1>2, <2>1, <2>3 DEF ClosedSets, Links, Single, Unshared
    <3> QED  BY <3>1, ChainLeast DEF Listed
  <2> QED  BY <2>2, <2>3
<1>3. CASE l.head[dir] # s
  <2>1. l.head[dir] # NULL
    <3>1. {} \in ClosedSets(l.next, NULL)
      BY DEF ClosedSets
    <3> QED  BY <3>1, ChainLeast DEF Listed
  <2>2. q \in Entries \ {s} /\ l.next[q] = s
    BY <1>3, GetPrev, NullAssumption DEF Listed, Links
  <2>3. r = [head |-> l.head, next |-> [l.next EXCEPT ![q] = l.next[s], ![s] = NULL]]
    BY <1>3, <2>1 DEF bael_remove
  <2> HIDE DEF q, r
  <2>4. CASE q \in S
    <3>1. S \cup {s} \in Old
      BY <1>0, <2>2, <2>3, <2>4 DEF ClosedSets, Links
    <3> QED  BY <3>1, ChainLeast DEF Listed
  <2>5. CASE q \notin S
    <3>1. S \ {s} \in Old
      BY <1>0, <2>2, <2>3, <2>5 DEF ClosedSets, Links, Single, Unshared
    <3> QED  BY <3>1, ChainLeast DEF Listed
  <2> QED  BY <2>4, <2>5
<1> QED  BY <1>2, <1>3

(***************************************************************************)
(* bael_add().                                                             *)
(***************************************************************************)
LEMMA AddLinks ==
    ASSUME NEW l \in Links, NEW dir \in Pointer, NEW e \in Entries
    PROVE  bael_add(l, dir, e) \in Links
BY DEF bael_add, Links, Pointer

LEMMA AddWithin ==
    ASSUME NEW l \in Links, NEW dir \in Pointer, NEW A, NEW e \in A, Within(l, A)
    PROVE  Within(bael_add(l, dir, e), A)
BY DEF Within, bael_add, Links, Pointer

\* An entry that no pointer led to has one pointer to it now.
LEMMA AddSingle ==
    ASSUME NullAssumption,
           NEW l \in Links, NEW dir \in Pointer, NEW e \in Entries, Single(l), Unreferenced(l, e)
    PROVE  Single(bael_add(l, dir, e))
<1> DEFINE r == bael_add(l, dir, e)
           last == getlast([l.next EXCEPT ![e] = NULL], l.head[dir])
<1>1. CASE l.head[dir] = NULL
  <2>1. /\ r.head = [l.head EXCEPT ![dir] = e]
        /\ r.next = [l.next EXCEPT ![e] = NULL]
    BY <1>1 DEF bael_add
  <2> HIDE DEF r
  <2>2. Single(r)
    BY <2>1 DEF Single, Unshared, Unreferenced, Links
  <2> QED  BY <2>2 DEF r
<1>2. CASE l.head[dir] # NULL
  <2>1. /\ r.head = l.head
        /\ r.next = [[l.next EXCEPT ![e] = NULL] EXCEPT ![last] = e]
    BY <1>2 DEF bael_add
  <2> HIDE DEF r, last
  <2>2. \A p \in Entries : r.next[p] = IF p = last THEN e ELSE IF p = e THEN NULL ELSE l.next[p]
    BY <2>1 DEF Links
  <2>3. Single(r)
    BY <2>1, <2>2 DEF Single, Unshared, Unreferenced, Links
  <2> QED  BY <2>3 DEF r
<1> QED  BY <1>1, <1>2

\* Every other entry stays in its list, when the list it is added to ends.
LEMMA AddKeepsListed ==
    ASSUME NullAssumption,
           NEW l \in Links, NEW dir \in Pointer, NEW s \in Entries, Unreferenced(l, s),
           Terminates([l.next EXCEPT ![s] = NULL], l.head[dir]),
           NEW d \in Pointer, NEW e \in Listed(l, d)
    PROVE  e \in Listed(bael_add(l, dir, s), d)
<1> DEFINE r == bael_add(l, dir, s)
           cleared == [l.next EXCEPT ![s] = NULL]
           last == getlast(cleared, l.head[dir])
<1>0. e \in Entries
  BY DEF Listed, Chain
<1>1. SUFFICES ASSUME NEW S \in ClosedSets(r.next, r.head[d]) PROVE e \in S
  BY <1>0 DEF Listed, Chain
<1> SUFFICES S \ {s} \in ClosedSets(l.next, l.head[d])
  BY ChainLeast DEF Listed
<1>2. CASE l.head[dir] = NULL
  <2>1. /\ r.head = [l.head EXCEPT ![dir] = s]
        /\ r.next = cleared
    BY <1>2 DEF bael_add
  <2> HIDE DEF r
  <2> QED  BY <1>2, <2>1 DEF ClosedSets, Links, Unreferenced
<1>3. CASE l.head[dir] # NULL
  <2>1. /\ r.head = l.head
        /\ r.next = [cleared EXCEPT ![last] = s]
    BY <1>3 DEF bael_add
  <2>2. cleared[last] = NULL
    BY <1>3 DEF Terminates, getlast
  <2> HIDE DEF r, last
  <2>3. \A p \in Entries \ {s, last} : r.next[p] = l.next[p]
    BY <2>1 DEF Links
  <2>4. last \in Entries \ {s} => l.next[last] = NULL
    BY <2>2 DEF Links
  <2> QED  BY <2>1, <2>3, <2>4 DEF ClosedSets, Links, Unreferenced
<1> QED  BY <1>2, <1>3

(***************************************************************************)
(* Freeing.                                                                *)
(***************************************************************************)
LEMMA ForgetLinks ==
    ASSUME NEW l \in Links, NEW S
    PROVE  Forget(l, S) \in Links
BY DEF Forget, Links, Pointer

LEMMA ForgetSingle ==
    ASSUME NEW l \in Links, NEW S, Single(l)
    PROVE  Single(Forget(l, S))
BY DEF Forget, Links, Single, Unshared

\* What a recursive walk visits, the first entry aside, is referred to from
\* what it visits.
LEMMA Referrer ==
    ASSUME NEW l \in Links, NEW first \in Pointer, NEW x \in Reach(l, first), x # first
    PROVE  \E p \in Reach(l, first) : l.next[p] = x \/ l.head[p] = x
<1> DEFINE R == Reach(l, first)
<1>1. SUFFICES ASSUME \A p \in R : l.next[p] # x /\ l.head[p] # x PROVE FALSE
  OBVIOUS
<1>2. R \subseteq Entries /\ x \in Entries
  BY DEF Reach
<1>3. first \in (R \ {x}) \cup {NULL}
  BY DEF Reach, ClosedSets, Pointer
<1>4. ASSUME NEW p \in R PROVE l.next[p] \in R \cup {NULL} /\ l.head[p] \in R \cup {NULL}
  BY <1>2, <1>4 DEF Reach, ClosedSets, Links, Pointer
<1>5. R \ {x} \in ClosedSets(l.next, first) \cap ClosedSets(l.head, first)
  BY <1>1, <1>2, <1>3, <1>4 DEF ClosedSets
<1> QED  BY <1>5 DEF Reach

\* When e and everything below it is freed, no pointer leads there any more.
LEMMA FreedUnreferenced ==
    ASSUME NullAssumption,
           NEW l \in Links, NEW e \in Entries, NEW A, NEW B \in {{}, Reach(l, l.head[e])},
           Single(l), Within(l, A), Unreferenced(l, e)
    PROVE  Within(Forget(l, {e} \cup B), A \ ({e} \cup B))
<1> DEFINE gone == {e} \cup B
<1>1. e \in Pointer /\ l.head[e] \in Pointer
  BY DEF Links, Pointer
<1>2. B \subseteq Entries
  BY DEF Reach
<1>3. ASSUME NEW x \in B, x # l.head[e]
      PROVE  \E p \in B : l.next[p] = x \/ l.head[p] = x
  BY <1>1, <1>3, Referrer
<1>4. ASSUME NEW p \in Entries \ gone PROVE l.next[p] \notin gone
  <2>1. SUFFICES ASSUME l.next[p] \in B PROVE FALSE
    BY DEF Unreferenced
  <2>2. CASE l.next[p] = l.head[e]
    BY <1>1, <1>2, <2>1, <2>2 DEF NullAssumption, Single, Unshared
  <2>3. CASE l.next[p] # l.head[e]
    <3>1. PICK q \in B : l.next[q] = l.next[p] \/ l.head[q] = l.next[p]
      BY <1>3, <2>1, <2>3
    <3> QED  BY <1>2, <2>1, <3>1 DEF NullAssumption, Single, Unshared, Pointer
  <2> QED  BY <2>2, <2>3
<1>5. ASSUME NEW d \in Pointer \ gone PROVE l.head[d] \notin gone
  <2>1. SUFFICES ASSUME l.head[d] \in B PROVE FALSE
    BY DEF Unreferenced
  <2>2. CASE l.head[d] = l.head[e]
    BY <1>1, <1>2, <2>1, <2>2 DEF NullAssumption, Single, Unshared
  <2>3. CASE l.head[d] # l.head[e]
    <3>1. PICK q \in B : l.next[q] = l.head[d] \/ l.head[q] = l.head[d]
      BY <1>3, <2>1, <2>3
    <3> QED  BY <1>2, <2>1, <3>1 DEF NullAssumption, Single, Unshared, Pointer
  <2> QED  BY <2>2, <2>3
<1> QED  BY <1>4, <1>5 DEF Forget, Within

(***************************************************************************)
(* The tree that the pointers form: which entries the recursive walks come *)
(* to, and that all lists end.                                             *)
(***************************************************************************)
\* What a walk over the whole archive comes to.
FromRoot(l) == Reach(l, l.head[NULL])

\* An entry and all that is below it.
Sub(l, e) == {e} \cup Reach(l, l.head[e])

\* Every list ends in a null pointer.
AllEnd(l) == \A d \in Pointer : Terminates(l.next, l.head[d])

(***************************************************************************)
(* Walks.                                                                  *)
(***************************************************************************)
\* What a recursive walk visits is closed under all pointers.
LEMMA ReachClosed ==
    ASSUME NEW l \in Links, NEW first \in Pointer
    PROVE  /\ Reach(l, first) \subseteq Entries
           /\ first \in Reach(l, first) \cup {NULL}
           /\ \A p \in Reach(l, first) : /\ l.next[p] \in Reach(l, first) \cup {NULL}
                                         /\ l.head[p] \in Reach(l, first) \cup {NULL}
<1> DEFINE R == Reach(l, first)
<1>1. R \subseteq Entries /\ first \in R \cup {NULL}
  BY DEF Reach, ClosedSets, Pointer
<1>2. ASSUME NEW p \in R PROVE l.next[p] \in R \cup {NULL} /\ l.head[p] \in R \cup {NULL}
  BY <1>1, <1>2 DEF Reach, ClosedSets, Links, Pointer
<1> QED  BY <1>1, <1>2

\* It visits no more than any set closed under all pointers.
LEMMA ReachLeast ==
    ASSUME NEW l, NEW first, NEW S \in SUBSET Entries, first \in S \cup {NULL},
           \A p \in S : l.next[p] \in S \cup {NULL} /\ l.head[p] \in S \cup {NULL}
    PROVE  Reach(l, first) \subseteq S
BY DEF Reach, ClosedSets

\* From a null pointer there is nothing to visit.
LEMMA WalkNothing ==
    ASSUME NEW l
    PROVE  Reach(l, NULL) = {} /\ Chain(l.next, NULL) = {}
<1>1. {} \in ClosedSets(l.next, NULL) \cap ClosedSets(l.head, NULL)
  BY DEF ClosedSets
<1> QED  BY <1>1 DEF Reach, Chain

\* The list of a directory is below it, and in the tree if the directory is.
LEMMA ListedBelow ==
    ASSUME NEW l \in Links, NEW d \in Pointer
    PROVE  /\ Listed(l, d) \subseteq Reach(l, l.head[d])
           /\ \A first \in Pointer : d \in Reach(l, first) => Listed(l, d) \subseteq Reach(l, first)
<1>1. l.head[d] \in Pointer
  BY DEF Links
<1>2. Listed(l, d) \subseteq Reach(l, l.head[d])
  BY <1>1, ReachClosed, ChainLeast DEF Listed, ClosedSets
<1>3. ASSUME NEW first \in Pointer, d \in Reach(l, first) PROVE Listed(l, d) \subseteq Reach(l, first)
  BY <1>3, ReachClosed, ChainLeast DEF Listed, ClosedSets
<1> QED  BY <1>2, <1>3

\* Entries that are all pointed to from among themselves are not in the tree:
\* there is no cycle in it.
LEMMA NoCycle ==
    ASSUME NullAssumption, NEW l \in Links, Single(l),
           NEW X \in SUBSET Entries, \A x \in X : \E p \in X : l.next[p] = x \/ l.head[p] = x
    PROVE  X \cap FromRoot(l) = {}
<1> DEFINE T == FromRoot(l)
<1>1. /\ NULL \in Pointer /\ l.head[NULL] \in Pointer
      /\ X \subseteq Pointer
  BY DEF Links, Pointer
<1>2. /\ T \subseteq Entries
      /\ l.head[NULL] \in T \cup {NULL}
      /\ \A p \in T : l.next[p] \in T \cup {NULL} /\ l.head[p] \in T \cup {NULL}
  BY <1>1, ReachClosed DEF FromRoot
<1>3. l.head[NULL] \notin X
  BY <1>1 DEF NullAssumption, Single, Unshared
<1>4. ASSUME NEW p \in T \ X PROVE l.next[p] \notin X /\ l.head[p] \notin X
  <2>1. p \in Entries /\ p \in Pointer
    BY <1>2 DEF Pointer
  <2> QED  BY <2>1, <1>1 DEF NullAssumption, Single, Unshared
<1> DEFINE S == T \ X
<1>5. /\ S \in SUBSET Entries /\ l.head[NULL] \in S \cup {NULL}
      /\ \A p \in S : l.next[p] \in S \cup {NULL} /\ l.head[p] \in S \cup {NULL}
  BY <1>2, <1>3, <1>4
<1>6. S \cap X = {}
  OBVIOUS
<1> HIDE DEF S
<1>7. Reach(l, l.head[NULL]) \subseteq S
  BY <1>5, ReachLeast
<1> QED  BY <1>6, <1>7 DEF FromRoot

\* An entry of the tree is not below itself, and what is below it is pointed to
\* only from there and from it.
LEMMA SubReferred ==
    ASSUME NullAssumption, NEW l \in Links, Single(l), NEW e \in FromRoot(l)
    PROVE  /\ e \notin Reach(l, l.head[e])
           /\ \A p \in Sub(l, e) : l.next[p] # e /\ l.head[p] # e
           /\ \A p \in Entries : l.next[p] \in Reach(l, l.head[e]) => p \in Reach(l, l.head[e])
           /\ \A d \in Pointer : l.head[d] \in Reach(l, l.head[e]) => d \in Sub(l, e)
<1> DEFINE B == Reach(l, l.head[e])
<1>0. NULL \in Pointer /\ l.head[NULL] \in Pointer
  BY DEF Links, Pointer
<1>1. e \in Entries /\ e \in Pointer /\ e # NULL /\ l.head[e] \in Pointer
  BY <1>0, ReachClosed DEF NullAssumption, FromRoot, Links, Pointer
<1>2. B \subseteq Entries
  BY <1>1, ReachClosed
<1>3. ASSUME NEW x \in B, x # l.head[e] PROVE \E p \in B : l.next[p] = x \/ l.head[p] = x
  BY <1>1, <1>3, Referrer
<1>4. ASSUME NEW p \in {e} \cup B, l.next[p] = e \/ l.head[p] = e PROVE FALSE
  <2>1. \A x \in {e} \cup B : \E q \in {e} \cup B : l.next[q] = x \/ l.head[q] = x
    BY <1>3, <1>4
  <2>2. ({e} \cup B) \cap FromRoot(l) = {}
    BY <1>1, <1>2, <2>1, NoCycle
  <2> QED  BY <2>2
<1>5. e \notin B
  <2>1. SUFFICES ASSUME e \in B PROVE FALSE
    OBVIOUS
  <2>2. e # l.head[e]
    BY <1>4
  <2> QED  BY <1>3, <1>4, <2>1, <2>2
<1>6. ASSUME NEW p \in Entries, l.next[p] \in B PROVE p \in B
  <2>1. l.next[p] # l.head[e]
    BY <1>1, <1>2, <1>6 DEF NullAssumption, Single, Unshared
  <2>2. PICK q \in B : l.next[q] = l.next[p] \/ l.head[q] = l.next[p]
    BY <1>3, <1>6, <2>1
  <2>3. q \in Entries /\ q \in Pointer /\ l.next[p] # NULL
    BY <1>2, <1>6 DEF NullAssumption, Pointer
  <2> QED  BY <2>2, <2>3 DEF Single, Unshared
<1>7. ASSUME NEW d \in Pointer, l.head[d] \in B PROVE d \in {e} \cup B
  <2>1. CASE l.head[d] = l.head[e]
    BY <1>1, <1>2, <1>7, <2>1 DEF NullAssumption, Single, Unshared
  <2>2. CASE l.head[d] # l.head[e]
    <3>1. PICK q \in B : l.next[q] = l.head[d] \/ l.head[q] = l.head[d]
      BY <1>3, <1>7, <2>2
    <3>2. q \in Entries /\ q \in Pointer /\ l.head[d] # NULL
      BY <1>2, <1>7 DEF NullAssumption, Pointer
    <3> QED  BY <3>1, <3>2 DEF Single, Unshared
  <2> QED  BY <2>1, <2>2
<1> QED  BY <1>4, <1>5, <1>6, <1>7 DEF Sub

(***************************************************************************)
(* The directory an entry is in.                                           *)
(***************************************************************************)
\* Every entry of a list but the first is pointed to from the list.
LEMMA ListReferrer ==
    ASSUME NEW l \in Links, NEW d \in Pointer, NEW x \in Listed(l, d), x # l.head[d]
    PROVE  \E p \in Listed(l, d) : l.next[p] = x
<1> DEFINE L == Listed(l, d)
<1>1. SUFFICES ASSUME \A p \in L : l.next[p] # x PROVE FALSE
  OBVIOUS
<1>2. L \in ClosedSets(l.next, l.head[d]) /\ l.head[d] \in Pointer
  BY ChainClosed DEF Listed, Links
<1>3. L \ {x} \in ClosedSets(l.next, l.head[d])
  BY <1>1, <1>2 DEF ClosedSets
<1> QED  BY <1>3, ChainLeast DEF Listed

\* No entry of the tree is in the lists of two directories.
LEMMA OnePlace ==
    ASSUME NullAssumption, NEW l \in Links, Single(l), NEW c \in Pointer, NEW d \in Pointer,
           NEW e \in Listed(l, c), e \in Listed(l, d), e \in FromRoot(l)
    PROVE  c = d
<1> DEFINE X == Listed(l, c) \cap Listed(l, d)
<1>1. X \subseteq Entries /\ NULL \notin X
  BY DEF Listed, Chain, NullAssumption
<1>2. SUFFICES ASSUME c # d PROVE FALSE
  OBVIOUS
<1>3. ASSUME NEW x \in X PROVE \E p \in X : l.next[p] = x
  <2>1. x # NULL
    BY <1>1
  <2>2. Listed(l, c) \subseteq Entries /\ Listed(l, d) \subseteq Entries
    BY DEF Listed, Chain
  <2>3. x = l.head[c] \/ \E p \in Listed(l, c) : l.next[p] = x
    BY <1>3, ListReferrer
  <2>4. x = l.head[d] \/ \E p \in Listed(l, d) : l.next[p] = x
    BY <1>3, ListReferrer
  <2> QED  BY <1>2, <2>1, <2>2, <2>3, <2>4 DEF Single, Unshared
<1>4. X \cap FromRoot(l) = {}
  BY <1>1, <1>3, NoCycle
<1> QED  BY <1>4

\* Every entry of the tree is in the list of a directory of the tree, or of the root.
LEMMA SomePlace ==
    ASSUME NEW l \in Links, NEW e \in FromRoot(l)
    PROVE  \E d \in FromRoot(l) \cup {NULL} : e \in Listed(l, d)
<1> DEFINE T == FromRoot(l)
           S == {x \in Entries : \E d \in T \cup {NULL} : x \in Listed(l, d)}
<1>1. T \subseteq Entries /\ NULL \in Pointer /\ l.head[NULL] \in Pointer
  BY ReachClosed DEF FromRoot, Links, Pointer
<1>2. ASSUME NEW d \in T \cup {NULL}
      PROVE  /\ l.head[d] \in Listed(l, d) \cup {NULL}
             /\ \A p \in Listed(l, d) : l.next[p] \in Listed(l, d) \cup {NULL}
             /\ Listed(l, d) \subseteq T /\ Listed(l, d) \subseteq S
  <2>1. d \in Pointer /\ l.head[d] \in Pointer
    BY <1>1 DEF Links, Pointer
  <2>2. Listed(l, d) \in ClosedSets(l.next, l.head[d])
    BY <2>1, ChainClosed DEF Listed, Links
  <2>3. Listed(l, d) \subseteq T
    BY <1>1, <2>1, ListedBelow DEF FromRoot
  <2> QED  BY <1>1, <2>2, <2>3 DEF ClosedSets
<1>3. l.head[NULL] \in S \cup {NULL}
  BY <1>2
<1>4. ASSUME NEW p \in S PROVE l.next[p] \in S \cup {NULL} /\ l.head[p] \in S \cup {NULL}
  <2>1. PICK d \in T \cup {NULL} : p \in Listed(l, d)
    OBVIOUS
  <2>2. p \in T
    BY <1>2, <2>1
  <2> HIDE DEF S
  <2> QED  BY <1>2, <2>1, <2>2
<1> HIDE DEF S
<1>5. S \in SUBSET Entries
  BY DEF S
<1>6. T \subseteq S
  BY <1>3, <1>4, <1>5, ReachLeast DEF FromRoot
<1> QED  BY <1>6 DEF S

\* The directory of each entry of the tree.
Places(l) == [e \in FromRoot(l) |-> CHOOSE d \in Pointer : e \in Listed(l, d)]

LEMMA PlacesFacts ==
    ASSUME NullAssumption, NEW l \in Links, Single(l)
    PROVE  /\ DOMAIN Places(l) = FromRoot(l) /\ FromRoot(l) \subseteq Entries
           /\ Places(l) = [e \in FromRoot(l) |-> Places(l)[e]]
           /\ \A e \in FromRoot(l) : /\ Places(l)[e] \in FromRoot(l) \cup {NULL}
                                     /\ e \in Listed(l, Places(l)[e])
                                     /\ \A d \in Pointer : e \in Listed(l, d) => Places(l)[e] = d
<1>1. FromRoot(l) \subseteq Entries
  BY DEF FromRoot, Reach
<1>2. ASSUME NEW e \in FromRoot(l)
      PROVE  /\ Places(l)[e] \in FromRoot(l) \cup {NULL}
             /\ e \in Listed(l, Places(l)[e])
             /\ \A d \in Pointer : e \in Listed(l, d) => Places(l)[e] = d
  <2>1. PICK d \in FromRoot(l) \cup {NULL} : e \in Listed(l, d)
    BY SomePlace
  <2>2. d \in Pointer
    BY <1>1 DEF Pointer
  <2>3. Places(l)[e] \in Pointer /\ e \in Listed(l, Places(l)[e])
    BY <2>1, <2>2 DEF Places
  <2>4. \A c \in Pointer : e \in Listed(l, c) => Places(l)[e] = c
    BY <2>3, OnePlace
  <2> QED  BY <2>1, <2>2, <2>3, <2>4
<1> QED  BY <1>1, <1>2 DEF Places

(***************************************************************************)
(* bael_remove().                                                          *)
(***************************************************************************)
\* The pointer to the removed entry, wherever it is, takes over the entry's ->next.
LEMMA RemovePointers ==
    ASSUME NullAssumption,
           NEW l \in Links, NEW dir \in Pointer, NEW e \in Listed(l, dir), Single(l)
    PROVE  LET r == bael_remove(l, dir, e)
           IN  /\ \A p \in Entries : r.next[p] = IF p = e THEN NULL
                                                 ELSE IF l.next[p] = e THEN l.next[e] ELSE l.next[p]
               /\ \A d \in Pointer : r.head[d] = IF l.head[d] = e THEN l.next[e] ELSE l.head[d]
<1> DEFINE r == bael_remove(l, dir, e)
           q == getprev(l.next, l.head[dir], e)
<1>0. e \in Entries /\ e # NULL
  BY NullAssumption DEF Listed, Chain
<1>1. CASE l.head[dir] = e
  <2>1. r = [head |-> [l.head EXCEPT ![dir] = l.next[e]], next |-> [l.next EXCEPT ![e] = NULL]]
    BY <1>0, <1>1 DEF bael_remove
  <2> HIDE DEF r
  <2>2. \A p \in Entries : l.next[p] # e
    BY <1>0, <1>1 DEF Single, Unshared
  <2>3. \A d \in Pointer : l.head[d] = e => d = dir
    BY <1>0, <1>1 DEF Single, Unshared
  <2>4. \A p \in Entries : r.next[p] = IF p = e THEN NULL ELSE l.next[p]
    BY <2>1 DEF Links
  <2>5. \A d \in Pointer : r.head[d] = IF l.head[d] = e THEN l.next[e] ELSE l.head[d]
    BY <1>1, <2>1, <2>3 DEF Links
  <2> QED  BY <2>2, <2>4, <2>5 DEF r
<1>2. CASE l.head[dir] # e
  <2>1. l.head[dir] # NULL
    <3>1. {} \in ClosedSets(l.next, NULL)
      BY DEF ClosedSets
    <3> QED  BY <3>1, ChainLeast DEF Listed
  <2>2. q \in Entries \ {e} /\ l.next[q] = e
    BY <1>2, GetPrev, NullAssumption DEF Listed, Links
  <2>3. r = [head |-> l.head, next |-> [l.next EXCEPT ![q] = l.next[e], ![e] = NULL]]
    BY <1>2, <2>1 DEF bael_remove
  <2> HIDE DEF q, r
  <2>4. \A p \in Entries : r.next[p] = IF p = e THEN NULL ELSE IF p = q THEN l.next[e] ELSE l.next[p]
    BY <2>3, <1>0, <2>2 DEF Links
  <2>5. \A p \in Entries : l.next[p] = e => p = q
    BY <1>0, <2>2 DEF Single, Unshared
  <2>6. \A d \in Pointer : r.head[d] = l.head[d] /\ l.head[d] # e
    BY <1>0, <2>2, <2>3 DEF Single, Unshared
  <2> QED  BY <2>2, <2>4, <2>5, <2>6 DEF r
<1> QED  BY <1>1, <1>2

\* An entry that is removed takes what is below it along, and nothing else.
LEMMA RemoveReach ==
    ASSUME NullAssumption, NEW l \in Links, Single(l),
           NEW dir \in Pointer, NEW e \in Listed(l, dir), e \in FromRoot(l)
    PROVE  LET r == bael_remove(l, dir, e)
           IN  /\ FromRoot(r) = FromRoot(l) \ Sub(l, e)
               /\ r.head[e] = l.head[e]
               /\ Reach(r, r.head[e]) = Reach(l, l.head[e])
<1> DEFINE r  == bael_remove(l, dir, e)
           B  == Reach(l, l.head[e])
           T  == FromRoot(l)
           B1 == Reach(r, r.head[e])
           T1 == FromRoot(r)
<1>0. /\ NULL \in Pointer /\ e \in Entries /\ e \in Pointer /\ e # NULL
      /\ l.head[NULL] \in Pointer /\ l.head[e] \in Pointer /\ NULL \notin Entries
      /\ \A p \in Entries : l.next[p] \in Pointer /\ p \in Pointer
  BY NullAssumption DEF Listed, Chain, Links, Pointer
<1>1. r \in Links
  BY <1>0, RemoveLinks
<1>2. /\ \A p \in Entries : r.next[p] = IF p = e THEN NULL
                                        ELSE IF l.next[p] = e THEN l.next[e] ELSE l.next[p]
      /\ \A d \in Pointer : r.head[d] = IF l.head[d] = e THEN l.next[e] ELSE l.head[d]
  BY RemovePointers
<1>3. /\ e \notin B
      /\ \A p \in {e} \cup B : l.next[p] # e /\ l.head[p] # e
      /\ \A p \in Entries : l.next[p] \in B => p \in B
      /\ \A d \in Pointer : l.head[d] \in B => d \in {e} \cup B
  BY SubReferred DEF Sub
<1>4. /\ B \subseteq Entries /\ l.head[e] \in B \cup {NULL}
      /\ \A p \in B : l.next[p] \in B \cup {NULL} /\ l.head[p] \in B \cup {NULL}
  BY <1>0, ReachClosed
<1>5. /\ T \subseteq Entries /\ l.head[NULL] \in T \cup {NULL}
      /\ \A p \in T : l.next[p] \in T \cup {NULL} /\ l.head[p] \in T \cup {NULL}
  BY <1>0, ReachClosed DEF FromRoot
<1>6. /\ r.head[e] = l.head[e] /\ r.head[NULL] \in Pointer
  BY <1>0, <1>1, <1>2, <1>3 DEF Links
<1>7. /\ B1 \subseteq Entries /\ l.head[e] \in B1 \cup {NULL}
      /\ \A p \in B1 : r.next[p] \in B1 \cup {NULL} /\ r.head[p] \in B1 \cup {NULL}
  BY <1>0, <1>1, <1>6, ReachClosed
<1>8. /\ T1 \subseteq Entries /\ r.head[NULL] \in T1 \cup {NULL}
      /\ \A p \in T1 : r.next[p] \in T1 \cup {NULL} /\ r.head[p] \in T1 \cup {NULL}
  BY <1>1, <1>6, ReachClosed DEF FromRoot
<1>9. \A p \in B : r.next[p] = l.next[p] /\ r.head[p] = l.head[p]
  BY <1>0, <1>2, <1>3, <1>4
<1> HIDE DEF r, T, B, T1, B1
<1>10. B1 \subseteq B
  <2>1. Reach(r, r.head[e]) \subseteq B
    BY <1>4, <1>6, <1>9, ReachLeast
  <2> QED  BY <2>1 DEF B1
<1>11. B \subseteq B1
  <2>1. Reach(l, l.head[e]) \subseteq B1
    BY <1>7, <1>9, <1>10, ReachLeast
  <2> QED  BY <2>1 DEF B
<1>12. T1 \subseteq T \ ({e} \cup B)
  <2> DEFINE S == T \ ({e} \cup B)
  <2>1. l.next[e] \notin B /\ l.next[e] # e /\ e \in T
    BY <1>0, <1>3 DEF T
  <2>2. r.head[NULL] \in S \cup {NULL}
    BY <1>0, <1>2, <1>3, <1>4, <1>5, <2>1
  <2>3. \A p \in S : r.next[p] \in S \cup {NULL} /\ r.head[p] \in S \cup {NULL}
    BY <1>0, <1>2, <1>3, <1>5, <2>1
  <2>4. S \in SUBSET Entries
    BY <1>5
  <2> HIDE DEF S
  <2>5. Reach(r, r.head[NULL]) \subseteq S
    BY <2>2, <2>3, <2>4, ReachLeast
  <2> QED  BY <2>5 DEF S, T1, FromRoot
<1>13. T \subseteq T1 \cup {e} \cup B
  <2>1. CASE l.head[NULL] = e \/ \E p \in T1 : l.next[p] = e \/ l.head[p] = e
    <3> DEFINE S == T1 \cup {e} \cup B
    <3>1. l.next[e] \in S \cup {NULL}
      BY <1>0, <1>2, <1>3, <1>8, <2>1
    <3>2. l.head[NULL] \in S \cup {NULL}
      BY <1>0, <1>2, <1>8
    <3>3. \A p \in S : l.next[p] \in S \cup {NULL} /\ l.head[p] \in S \cup {NULL}
      BY <1>0, <1>2, <1>4, <1>8, <3>1
    <3>4. S \in SUBSET Entries
      BY <1>0, <1>4, <1>8
    <3> HIDE DEF S
    <3>5. Reach(l, l.head[NULL]) \subseteq S
      BY <3>2, <3>3, <3>4, ReachLeast
    <3> QED  BY <3>5 DEF S, T, FromRoot
  <2>2. CASE l.head[NULL] # e /\ \A p \in T1 : l.next[p] # e /\ l.head[p] # e
    <3>1. l.head[NULL] \in (T1 \ {e}) \cup {NULL}
      BY <1>0, <1>2, <1>8, <2>2
    <3>2. e \notin T1
      BY <1>12
    <3>3. \A p \in T1 : l.next[p] \in T1 \cup {NULL} /\ l.head[p] \in T1 \cup {NULL}
      BY <1>0, <1>2, <1>8, <2>2, <3>2
    <3>4. Reach(l, l.head[NULL]) \subseteq T1
      BY <1>8, <3>1, <3>3, ReachLeast
    <3> QED  BY <3>4 DEF T, FromRoot
  <2> QED  BY <2>1, <2>2
<1>14. B1 = B /\ T1 = T \ ({e} \cup B)
  BY <1>10, <1>11, <1>12, <1>13
<1> QED  BY <1>6, <1>14 DEF Sub, r, T, B, T1, B1

\* All lists still end.
LEMMA RemoveEnds ==
    ASSUME NullAssumption, NEW l \in Links, Single(l), AllEnd(l),
           NEW dir \in Pointer, NEW e \in Listed(l, dir)
    PROVE  AllEnd(bael_remove(l, dir, e))
<1> DEFINE r == bael_remove(l, dir, e)
<1>0. e \in Entries /\ e # NULL /\ NULL \notin Entries
  BY NullAssumption DEF Listed, Chain
<1>1. /\ \A p \in Entries : r.next[p] = IF p = e THEN NULL
                                        ELSE IF l.next[p] = e THEN l.next[e] ELSE l.next[p]
      /\ \A d \in Pointer : r.head[d] = IF l.head[d] = e THEN l.next[e] ELSE l.head[d]
  BY RemovePointers
<1>2. ASSUME NEW d \in Pointer, NEW x \in Listed(l, d), x # e PROVE x \in Listed(r, d)
  BY <1>2, RemoveKeepsListed
<1> HIDE DEF r
<1>3. SUFFICES ASSUME NEW d \in Pointer, r.head[d] # NULL
               PROVE  \E x \in Listed(r, d) : r.next[x] = NULL
  BY DEF AllEnd, Terminates, Listed, r
<1>4. \A x \in Listed(l, d) : x \in Entries
  BY DEF Listed, Chain
<1>5. l.head[d] # NULL
  BY <1>0, <1>1, <1>3
<1>6. PICK x \in Listed(l, d) : l.next[x] = NULL
  BY <1>5 DEF AllEnd, Terminates, Listed
<1>7. CASE x # e
  BY <1>0, <1>1, <1>2, <1>4, <1>6, <1>7
<1>8. CASE x = e
  <2>1. l.head[d] # e
    BY <1>1, <1>3, <1>6, <1>8
  <2>2. l.next \in [Entries -> Pointer] /\ l.head[d] \in Pointer
    BY DEF Links
  <2>3. PICK p \in ChainTo(l.next, l.head[d], e) \ {e} : l.next[p] = e
    BY <1>6, <1>8, <2>1, <2>2, Predecessor DEF Listed
  <2>4. p \in Entries /\ p \in Listed(l, d)
    <3>1. ChainTo(l.next, l.head[d], e) \subseteq Entries
      BY DEF ChainTo, Chain
    <3>2. Listed(l, d) \in ClosedSets(l.next, l.head[d])
      BY <2>2, ChainClosed DEF Listed
    <3>3. Listed(l, d) \in ClosedSets([l.next EXCEPT ![e] = NULL], l.head[d])
      BY <1>0, <1>4, <2>2, <3>2 DEF ClosedSets
    <3> QED  BY <2>3, <3>1, <3>3, ChainLeast DEF ChainTo
  <2>5. p \in Listed(r, d) /\ r.next[p] = NULL
    BY <1>1, <1>2, <1>6, <1>8, <2>3, <2>4
  <2> QED  BY <2>5
<1> QED  BY <1>7, <1>8

(***************************************************************************)
(* bael_add().                                                             *)
(***************************************************************************)
\* A list that ends still ends when one of its entries has its ->next cleared.
LEMMA CutEnds ==
    ASSUME NEW next \in [Entries -> Pointer], NEW first \in Pointer, Terminates(next, first),
           NEW e \in Entries
    PROVE  Terminates([next EXCEPT ![e] = NULL], first)
<1> DEFINE cut == [next EXCEPT ![e] = NULL]
           V   == Chain(cut, first)
<1>1. SUFFICES ASSUME first # NULL, \A x \in V : cut[x] # NULL PROVE FALSE
  BY DEF Terminates
<1>2. cut \in [Entries -> Pointer] /\ V \subseteq Entries
  BY DEF Pointer, Chain
<1>3. V \in ClosedSets(cut, first) /\ e \notin V
  BY <1>1, <1>2, ChainClosed
<1>4. V \in ClosedSets(next, first)
  BY <1>2, <1>3 DEF ClosedSets
<1>5. PICK x \in Chain(next, first) : next[x] = NULL
  BY <1>1 DEF Terminates
<1>6. x \in V /\ cut[x] = NULL
  BY <1>2, <1>3, <1>4, <1>5, ChainLeast
<1> QED  BY <1>1, <1>6

\* The entry is appended: a pointer that was NULL now leads to it.  It is the slot
\* of the directory or belongs to an entry of its list.
LEMMA AddPointers ==
    ASSUME NullAssumption, NEW l \in Links, NEW dir \in Pointer, NEW e \in Entries,
           Unreferenced(l, e), Terminates(l.next, l.head[dir])
    PROVE  LET a == bael_add(l, dir, e)
           IN  \/ /\ l.head[dir] = NULL
                  /\ \A d \in Pointer : a.head[d] = IF d = dir THEN e ELSE l.head[d]
                  /\ \A p \in Entries : a.next[p] = IF p = e THEN NULL ELSE l.next[p]
               \/ \E last \in Listed(l, dir) \ {e} :
                    /\ l.next[last] = NULL
                    /\ \A d \in Pointer : a.head[d] = l.head[d]
                    /\ \A p \in Entries :
                         a.next[p] = IF p = last THEN e ELSE IF p = e THEN NULL ELSE l.next[p]
<1> DEFINE a == bael_add(l, dir, e)
           cleared == [l.next EXCEPT ![e] = NULL]
           last == getlast(cleared, l.head[dir])
<1>0. l.next \in [Entries -> Pointer] /\ l.head[dir] \in Pointer /\ e # NULL
  BY NullAssumption DEF Links
<1>1. CASE l.head[dir] = NULL
  <2>1. a.head = [l.head EXCEPT ![dir] = e] /\ a.next = cleared
    BY <1>1 DEF bael_add
  <2> HIDE DEF a
  <2>2. /\ \A d \in Pointer : a.head[d] = IF d = dir THEN e ELSE l.head[d]
        /\ \A p \in Entries : a.next[p] = IF p = e THEN NULL ELSE l.next[p]
    BY <2>1 DEF Links
  <2> QED  BY <1>1, <2>2 DEF a
<1>2. CASE l.head[dir] # NULL
  <2>1. a.head = l.head /\ a.next = [cleared EXCEPT ![last] = e]
    BY <1>2 DEF bael_add
  <2>2. last \in Chain(cleared, l.head[dir]) /\ cleared[last] = NULL
    BY <1>0, <1>2, CutEnds DEF Terminates, getlast
  <2>3. Chain(cleared, l.head[dir]) \subseteq Listed(l, dir) \ {e}
    <3>1. Listed(l, dir) \in ClosedSets(l.next, l.head[dir])
      BY <1>0, ChainClosed DEF Listed
    <3>2. Listed(l, dir) \ {e} \in ClosedSets(cleared, l.head[dir])
      BY <1>0, <3>1 DEF ClosedSets, Unreferenced
    <3> QED  BY <3>2, ChainLeast
  <2>4. last \in Entries
    BY <2>2 DEF Chain
  <2>5. l.next[last] = NULL
    BY <1>0, <2>2, <2>3, <2>4
  <2> HIDE DEF a, last
  <2>6. \A p \in Entries : a.next[p] = IF p = last THEN e ELSE IF p = e THEN NULL ELSE l.next[p]
    BY <1>0, <2>1, <2>4
  <2> QED  BY <2>1, <2>2, <2>3, <2>5, <2>6 DEF a
<1> QED  BY <1>1, <1>2

\* The entry is in the list afterwards.
LEMMA AddListed ==
    ASSUME NullAssumption, NEW l \in Links, NEW dir \in Pointer, NEW e \in Entries,
           Unreferenced(l, e), Terminates(l.next, l.head[dir])
    PROVE  e \in Listed(bael_add(l, dir, e), dir)
<1> DEFINE a == bael_add(l, dir, e)
<1>1. a.next \in [Entries -> Pointer] /\ a.head[dir] \in Pointer
  <2>1. a \in Links
    BY AddLinks
  <2> HIDE DEF a
  <2> QED  BY <2>1 DEF Links
<1>2. /\ Listed(a, dir) \in ClosedSets(a.next, a.head[dir])
      /\ e # NULL
  BY <1>1, ChainClosed, NullAssumption DEF Listed
<1>3. CASE a.head[dir] = e
  BY <1>2, <1>3 DEF ClosedSets
<1>4. ASSUME NEW last \in Listed(l, dir), a.next[last] = e PROVE e \in Listed(a, dir)
  <2>1. Terminates([l.next EXCEPT ![e] = NULL], l.head[dir])
    BY CutEnds DEF Links
  <2>2. last \in Listed(a, dir)
    BY <2>1, AddKeepsListed
  <2> QED  BY <1>2, <1>4, <2>2 DEF ClosedSets
<1>5. Listed(l, dir) \subseteq Entries
  BY DEF Listed, Chain
<1> QED  BY <1>3, <1>4, <1>5, AddPointers

\* All lists still end.
LEMMA AddEnds ==
    ASSUME NullAssumption, NEW l \in Links, NEW dir \in Pointer, NEW e \in Entries,
           Unreferenced(l, e), AllEnd(l)
    PROVE  AllEnd(bael_add(l, dir, e))
<1> DEFINE a == bael_add(l, dir, e)
<1>0. Terminates(l.next, l.head[dir]) /\ NULL \notin Entries
  BY NullAssumption DEF AllEnd
<1>1. ASSUME NEW d \in Pointer, NEW x \in Listed(l, d) PROVE x \in Listed(a, d)
  BY <1>0, CutEnds, AddKeepsListed DEF Links
<1>2. e \in Listed(a, dir)
  BY <1>0, AddListed
<1>3. a \in Links
  BY AddLinks
<1>4. SUFFICES ASSUME NEW d \in Pointer, a.head[d] # NULL
               PROVE  \E x \in Listed(a, d) : a.next[x] = NULL
  BY DEF AllEnd, Terminates, Listed
<1>5. \A x \in Listed(l, d) : x \in Entries
  BY DEF Listed, Chain
<1>6. Listed(a, d) \in ClosedSets(a.next, a.head[d])
  BY <1>3, ChainClosed DEF Listed, Links
<1>7. \/ l.head[d] = NULL /\ d = dir
      \/ \E x \in Listed(l, d) : l.next[x] = NULL
  BY <1>0, <1>4, AddPointers DEF AllEnd, Terminates, Listed
<1>8. CASE l.head[dir] = NULL /\ d = dir
  BY <1>0, <1>2, <1>8, AddPointers
<1>9. ASSUME NEW x \in Listed(l, d), l.next[x] = NULL
      PROVE  \E y \in Listed(a, d) : a.next[y] = NULL
  <2>1. x \in Listed(a, d) /\ x \in Entries
    BY <1>1, <1>5
  <2>2. a.next[x] = NULL \/ (a.next[x] = e /\ a.next[e] = NULL)
    BY <1>0, <1>9, <2>1, AddPointers
  <2> QED  BY <1>0, <1>6, <2>1, <2>2 DEF ClosedSets
<1> QED  BY <1>7, <1>8, <1>9

\* What is appended to a directory of the tree is in the tree with all that is below it.
LEMMA AddReach ==
    ASSUME NullAssumption, NEW l \in Links, Single(l),
           NEW dir \in FromRoot(l) \cup {NULL}, NEW e \in Entries,
           Unreferenced(l, e), Terminates(l.next, l.head[dir])
    PROVE  FromRoot(bael_add(l, dir, e)) = FromRoot(l) \cup Sub(l, e)
<1> DEFINE a  == bael_add(l, dir, e)
           B  == Reach(l, l.head[e])
           T  == FromRoot(l)
           T1 == FromRoot(a)
<1>0. /\ NULL \in Pointer /\ e \in Pointer /\ e # NULL /\ NULL \notin Entries
      /\ l.head[NULL] \in Pointer /\ l.head[e] \in Pointer
  BY NullAssumption DEF Links, Pointer
<1>1. /\ B \subseteq Entries /\ l.head[e] \in B \cup {NULL}
      /\ \A p \in B : l.next[p] \in B \cup {NULL} /\ l.head[p] \in B \cup {NULL}
  BY <1>0, ReachClosed
<1>2. /\ T \subseteq Entries /\ l.head[NULL] \in T \cup {NULL}
      /\ \A p \in T : l.next[p] \in T \cup {NULL} /\ l.head[p] \in T \cup {NULL}
  BY <1>0, ReachClosed DEF FromRoot
<1>3. dir \in Pointer
  BY <1>2 DEF Pointer
<1>4. e \notin T /\ e \notin B
  <2>1. ASSUME NEW first \in Pointer, first # e PROVE e \notin Reach(l, first)
    <3>1. Reach(l, first) \subseteq Entries /\ Reach(l, first) \subseteq Pointer
      BY ReachClosed DEF Pointer
    <3> QED  BY <2>1, <3>1, Referrer DEF Unreferenced
  <2> QED  BY <1>0, <2>1 DEF FromRoot, Unreferenced
<1>5. a \in Links
  BY <1>3, AddLinks
<1>6. a.head[NULL] \in Pointer
  <2> HIDE DEF a
  <2> QED  BY <1>0, <1>5 DEF Links
<1>7. /\ T1 \subseteq Entries /\ a.head[NULL] \in T1 \cup {NULL}
      /\ \A p \in T1 : a.next[p] \in T1 \cup {NULL} /\ a.head[p] \in T1 \cup {NULL}
  BY <1>5, <1>6, ReachClosed DEF FromRoot
<1>8. Listed(l, dir) \subseteq T
  <2>1. CASE dir = NULL
    BY <1>0, <2>1, ListedBelow DEF FromRoot
  <2>2. CASE dir \in T
    BY <1>0, <1>3, <2>2, ListedBelow DEF FromRoot
  <2> QED  BY <2>1, <2>2
<1>9. /\ \A p \in Entries : p # e => a.next[p] \in {l.next[p], e}
      /\ a.next[e] = NULL
      /\ \A d \in Pointer : a.head[d] \in {l.head[d], e}
      /\ \A p \in Entries : p # e /\ a.next[p] # l.next[p] => l.next[p] = NULL
      /\ \A d \in Pointer : a.head[d] # l.head[d] => l.head[d] = NULL
      /\ a.head[e] = l.head[e]
      /\ a.head[dir] = e \/ \E last \in T : a.next[last] = e
  <2>1. dir # e
    BY <1>0, <1>4
  <2>2. \/ /\ l.head[dir] = NULL
           /\ \A d \in Pointer : a.head[d] = IF d = dir THEN e ELSE l.head[d]
           /\ \A p \in Entries : a.next[p] = IF p = e THEN NULL ELSE l.next[p]
        \/ \E last \in Listed(l, dir) \ {e} :
             /\ l.next[last] = NULL
             /\ \A d \in Pointer : a.head[d] = l.head[d]
             /\ \A p \in Entries :
                  a.next[p] = IF p = last THEN e ELSE IF p = e THEN NULL ELSE l.next[p]
    BY <1>3, AddPointers
  <2>3. \A x \in Listed(l, dir) : x \in Entries /\ x \in T
    BY <1>2, <1>8
  <2> HIDE DEF a, T
  <2> QED  BY <1>0, <1>3, <2>1, <2>2, <2>3
<1> HIDE DEF a, B, T, T1
<1>10. T1 \subseteq T \cup {e} \cup B
  <2> DEFINE S == T \cup {e} \cup B
  <2>1. S \in SUBSET Entries
    BY <1>1, <1>2
  <2>2. a.head[NULL] \in S \cup {NULL}
    BY <1>0, <1>2, <1>9
  <2>3. \A p \in S : p \in Entries /\ p \in Pointer
    BY <2>1 DEF Pointer
  <2>4. \A p \in S : a.next[p] \in S \cup {NULL} /\ a.head[p] \in S \cup {NULL}
    BY <1>0, <1>1, <1>2, <1>9, <2>3
  <2> HIDE DEF S
  <2>5. Reach(a, a.head[NULL]) \subseteq S
    BY <2>1, <2>2, <2>4, ReachLeast
  <2> QED  BY <2>5 DEF S, T1, FromRoot
<1>11. T \subseteq T1 \ {e}
  <2> DEFINE S == T1 \ {e}
  <2>1. S \in SUBSET Entries
    BY <1>7
  <2>2. l.head[NULL] \in S \cup {NULL}
    BY <1>0, <1>2, <1>4, <1>7, <1>9
  <2>3. \A p \in S : p \in Entries /\ p \in Pointer
    BY <2>1 DEF Pointer
  <2>4. \A p \in S : l.next[p] \in S \cup {NULL} /\ l.head[p] \in S \cup {NULL}
    BY <1>0, <1>7, <1>9, <2>3 DEF Unreferenced
  <2> HIDE DEF S
  <2>5. Reach(l, l.head[NULL]) \subseteq S
    BY <2>1, <2>2, <2>4, ReachLeast
  <2> QED  BY <2>5 DEF S, T, FromRoot
<1>12. e \in T1
  BY <1>0, <1>7, <1>9, <1>11 DEF T
<1>13. B \subseteq T1
  <2> DEFINE S == T1 \cap B
  <2>1. S \in SUBSET Entries
    BY <1>7
  <2>2. l.head[e] \in S \cup {NULL}
    BY <1>1, <1>7, <1>9, <1>12
  <2>3. \A p \in S : p \in Entries /\ p \in Pointer /\ p # e
    BY <1>4, <2>1 DEF Pointer
  <2>4. \A p \in S : l.next[p] \in S \cup {NULL} /\ l.head[p] \in S \cup {NULL}
    BY <1>0, <1>1, <1>7, <1>9, <2>3
  <2> HIDE DEF S
  <2>5. Reach(l, l.head[e]) \subseteq S
    BY <2>1, <2>2, <2>4, ReachLeast
  <2> QED  BY <2>5 DEF S, B
<1>14. T1 = T \cup {e} \cup B
  BY <1>10, <1>11, <1>12, <1>13
<1> QED  BY <1>14 DEF T1, T, B, a, Sub

(***************************************************************************)
(* Freeing.                                                                *)
(***************************************************************************)
\* Freeing what is not in the tree leaves the tree as it is.
LEMMA ForgetReach ==
    ASSUME NullAssumption, NEW l \in Links, NEW G \in SUBSET Entries, G \cap FromRoot(l) = {}
    PROVE  FromRoot(Forget(l, G)) = FromRoot(l)
<1> DEFINE f  == Forget(l, G)
           T  == FromRoot(l)
           T1 == FromRoot(f)
<1>0. NULL \in Pointer /\ NULL \notin G /\ l.head[NULL] \in Pointer
  BY NullAssumption DEF Links, Pointer
<1>1. f \in Links
  BY ForgetLinks
<1>2. /\ \A p \in Entries \ G : f.next[p] = l.next[p]
      /\ \A d \in Pointer \ G : f.head[d] = l.head[d]
  BY DEF Forget
<1>3. /\ T \subseteq Entries /\ l.head[NULL] \in T \cup {NULL}
      /\ \A p \in T : l.next[p] \in T \cup {NULL} /\ l.head[p] \in T \cup {NULL}
  BY <1>0, ReachClosed DEF FromRoot
<1>4. f.head[NULL] = l.head[NULL]
  BY <1>0, <1>2
<1>5. /\ T1 \subseteq Entries /\ l.head[NULL] \in T1 \cup {NULL}
      /\ \A p \in T1 : f.next[p] \in T1 \cup {NULL} /\ f.head[p] \in T1 \cup {NULL}
  BY <1>0, <1>1, <1>4, ReachClosed DEF FromRoot
<1>6. \A p \in T : f.next[p] = l.next[p] /\ f.head[p] = l.head[p]
  BY <1>2, <1>3 DEF Pointer
<1> HIDE DEF f, T, T1
<1>7. T1 \subseteq T
  <2>1. Reach(f, f.head[NULL]) \subseteq T
    BY <1>3, <1>4, <1>6, ReachLeast
  <2> QED  BY <2>1 DEF T1, FromRoot
<1>8. T \subseteq T1
  <2>1. Reach(l, l.head[NULL]) \subseteq T1
    BY <1>5, <1>6, <1>7, ReachLeast
  <2> QED  BY <2>1 DEF T, FromRoot
<1> QED  BY <1>7, <1>8 DEF T, T1, f

\* When no pointer leads to what is freed, every other entry stays in its list.
LEMMA ForgetKeepsListed ==
    ASSUME NullAssumption, NEW l \in Links, NEW G \in SUBSET Entries, NEW A,
           Within(Forget(l, G), A \ G),
           NEW d \in Pointer \ G, NEW e \in Listed(l, d)
    PROVE  e \in Listed(Forget(l, G), d)
<1> DEFINE f == Forget(l, G)
<1>0. e \in Entries
  BY DEF Listed, Chain
<1>1. /\ \A p \in Entries \ G : f.next[p] = l.next[p]
      /\ f.head[d] = l.head[d]
  BY DEF Forget
<1>2. /\ \A p \in Entries \ G : l.next[p] \notin G
      /\ l.head[d] \notin G
  BY <1>1 DEF Within, NullAssumption
<1> HIDE DEF f
<1>3. SUFFICES ASSUME NEW S \in ClosedSets(f.next, f.head[d]) PROVE e \in S
  BY <1>0 DEF Listed, Chain, f
<1>4. S \ G \in ClosedSets(l.next, l.head[d])
  BY <1>1, <1>2 DEF ClosedSets
<1> QED  BY <1>4, ChainLeast DEF Listed

\* All lists still end.
LEMMA ForgetEnds ==
    ASSUME NullAssumption, NEW l \in Links, NEW G \in SUBSET Entries, NEW A,
           Within(Forget(l, G), A \ G), AllEnd(l)
    PROVE  AllEnd(Forget(l, G))
<1> DEFINE f == Forget(l, G)
<1>1. /\ \A p \in Entries : f.next[p] = IF p \in G THEN NULL ELSE l.next[p]
      /\ \A d \in Pointer : f.head[d] = IF d \in G THEN NULL ELSE l.head[d]
  BY DEF Forget
<1>2. ASSUME NEW d \in Pointer, d \notin G, NEW x \in Listed(l, d) PROVE x \in Listed(f, d)
  BY <1>2, ForgetKeepsListed
<1> HIDE DEF f
<1>3. SUFFICES ASSUME NEW d \in Pointer, f.head[d] # NULL
               PROVE  \E x \in Listed(f, d) : f.next[x] = NULL
  BY DEF AllEnd, Terminates, Listed, f
<1>4. d \notin G /\ l.head[d] # NULL
  BY <1>1, <1>3
<1>5. PICK x \in Listed(l, d) : l.next[x] = NULL
  BY <1>4 DEF AllEnd, Terminates, Listed
<1>6. x \in Entries
  BY DEF Listed, Chain
<1> QED  BY <1>1, <1>2, <1>4, <1>5, <1>6

USE NullAssumption, SizesAssumption

(***************************************************************************)
(* The types, whatever calls the client makes.                             *)
(***************************************************************************)
LEMMA HandlesAreEntries == Handles \subseteq Entries /\ Handles \subseteq alive
BY DEF Handles, Tree, Reach

LEMMA NoLinksTypes == NoLinks \in Links
BY DEF NoLinks, Links, Pointer

LEMMA FaultTypes ==
    ASSUME TypeOK, NEW how \in States, Fault(how)
    PROVE  TypeOK'
BY DEF TypeOK, Fault, memory

LEMMA DiscardTypes ==
    ASSUME TypeOK, NEW l \in Links, NEW e \in Entries, Discard(l, e),
           data_size' \in Int, state' = state
    PROVE  TypeOK'
BY ForgetLinks DEF TypeOK, Discard, Pointer

LEMMA AddTypes ==
    ASSUME TypeOK, NEW e \in Entries, NEW dir \in Pointer, data_size' \in Int,
           \/ \E s \in Sizes : ba_add_file(dir, e, s)
           \/ \E found \in BOOLEAN : ba_add_dir(dir, e, found)
    PROVE  TypeOK'
<1>1. CASE Fault("corrupt")
  BY <1>1, FaultTypes DEF States
<1>2. CASE Insert(dir, e) /\ files' = files \cup {e} /\ meta' = meta \cup {e}
           /\ \E s \in Sizes : size' = [size EXCEPT ![e] = s]
  BY <1>2, AddLinks DEF TypeOK, Insert
<1>3. CASE Insert(dir, e) /\ meta' \in {meta, meta \cup {e}} /\ UNCHANGED <<files, size>>
  BY <1>3, AddLinks DEF TypeOK, Insert
<1> QED  BY <1>1, <1>2, <1>3 DEF ba_add_file, ba_add_dir

LEMMA ContentsTypes ==
    ASSUME TypeOK, NEW e \in Entries,
           ba_get_file_contents(e) \/ \E s \in Sizes : ba_set_file_contents(e, s)
    PROVE  TypeOK'
BY DEF TypeOK, ba_get_file_contents, ba_set_file_contents

LEMMA RemoveTypes ==
    ASSUME TypeOK, NEW e \in Entries, data_size' \in Int, ba_remove(e)
    PROVE  TypeOK'
<1> DEFINE l == bael_remove(links, parent_dir[e], e)
<1>1. l \in Links
  BY RemoveLinks DEF TypeOK
<1>2. CASE Fault("corrupt")
  BY <1>2, FaultTypes DEF States
<1>3. CASE Discard(l, e) /\ UNCHANGED state
  BY <1>1, <1>3, DiscardTypes
<1> QED  BY <1>2, <1>3 DEF ba_remove

LEMMA MoveTypes ==
    ASSUME TypeOK, NEW src \in Entries, NEW dest \in Entries, data_size' \in Int,
           ba_move_into_dir(src, dest) \/ ba_move_onto_file(src, dest)
    PROVE  TypeOK'
<1> DEFINE l     == bael_remove(links, parent_dir[src], src)
           into  == parent_dir[dest]
           added == bael_add(l, into, src)
           freed == bael_remove(added, into, dest)
<1>1. l \in Links /\ into \in Pointer /\ dest \in Pointer
  BY RemoveLinks DEF TypeOK, Pointer
<1>2. bael_add(l, dest, src) \in Links /\ added \in Links /\ freed \in Links
  BY <1>1, AddLinks, RemoveLinks
<1>3. CASE \E how \in States : Fault(how)
  BY <1>3, FaultTypes
<1>4. CASE /\ links' = bael_add(l, dest, src)
           /\ UNCHANGED <<memory, parent_dir, size, data_size, double_free, state>>
  BY <1>2, <1>4 DEF TypeOK, memory
<1>5. CASE Discard(freed, dest) /\ UNCHANGED state
  BY <1>2, <1>5, DiscardTypes
<1>6. ba_add_outcome(l, into, src) \in States
  BY DEF ba_add_outcome, States
<1>7. CASE ba_move_into_dir(src, dest)
  BY <1>3, <1>4, <1>7 DEF ba_move_into_dir, States
<1>8. CASE ba_move_onto_file(src, dest)
  <2> HIDE DEF l, into, added, freed
  <2> QED  BY <1>3, <1>5, <1>6, <1>8 DEF ba_move_onto_file, States, l, into, added, freed
<1> QED  BY <1>7, <1>8

LEMMA SaveCloseTypes ==
    ASSUME TypeOK, data_size' \in Int, ba_save \/ ba_close
    PROVE  TypeOK'
BY NoLinksTypes, FaultTypes DEF TypeOK, ba_save, ba_close, memory, States, Pointer, Fault

\* Every state of every run has the types of the C declarations: pointers lead
\* to entries, only live entries are files or have metadata, sizes are natural.
THEOREM TypeCorrect == Spec => []TypeOK
<1>1. ASSUME Init PROVE TypeOK
  <2>1. /\ alive \subseteq Entries /\ files \subseteq alive /\ meta \subseteq alive
        /\ buffers \subseteq Entries /\ links \in Links
    BY <1>1, NoLinksTypes DEF Init
  <2>2. /\ parent_dir \in [Entries -> Pointer] /\ size \in [Entries -> Nat]
        /\ data_size \in Int /\ state \in States
    BY <1>1 DEF Init, Pointer, States
  <2>3. double_free \in BOOLEAN
    BY <1>1 DEF Init
  <2> QED  BY <2>1, <2>2, <2>3 DEF TypeOK
<1>2. TypeOK /\ [Next]_vars => TypeOK'
  <2> SUFFICES ASSUME TypeOK, [Next]_vars PROVE TypeOK'
    OBVIOUS
  <2>1. CASE UNCHANGED vars
    BY <2>1 DEF TypeOK, vars, memory
  <2>2. CASE Next
    <3>1. data_size' \in Int
      BY <2>2 DEF Next
    <3>2. (Handles \cap dirs) \cup {NULL} \subseteq Pointer /\ Handles \subseteq Entries
      BY HandlesAreEntries DEF Pointer
    <3>3. Step
      BY <2>2 DEF Next
    <3> QED  BY <3>1, <3>2, <3>3, AddTypes, ContentsTypes, RemoveTypes, MoveTypes,
                SaveCloseTypes DEF Step
  <2> QED  BY <2>1, <2>2
<1> QED  BY <1>1, <1>2, PTL DEF Spec

(***************************************************************************)
(* One pointer to each entry.  A moved entry's parent_dir is wrong, and    *)
(* moving an entry onto itself frees it, so the client does neither.  The  *)
(* invariant is inductive only together with where the pointers lead: an   *)
(* address that malloc() hands out again must not be pointed to.           *)
(***************************************************************************)
NoneDangling == Within(links, alive)

TreeInv == TypeOK /\ SingleReferrer /\ NoneDangling

LEMMA DiscardReferrers ==
    ASSUME TypeOK, NEW l \in Links, NEW e \in Entries,
           Single(l), Within(l, alive), Unreferenced(l, e), Discard(l, e)
    PROVE  SingleReferrer' /\ NoneDangling'
<1> DEFINE gone == {e} \cup Below(l, e)
<1>1. links' = Forget(l, gone) /\ alive' = alive \ gone
  BY DEF Discard
<1>2. Below(l, e) \in {{}, Reach(l, l.head[e])}
  BY DEF Below
<1>3. Single(Forget(l, gone))
  BY ForgetSingle
<1>4. Within(Forget(l, gone), alive \ gone)
  BY <1>2, FreedUnreferenced
<1> QED  BY <1>1, <1>3, <1>4 DEF SingleReferrer, NoneDangling, Single, Unshared, Within

LEMMA InsertReferrers ==
    ASSUME TreeInv, NEW e \in Entries, NEW dir \in Pointer, Fresh(e), Insert(dir, e)
    PROVE  SingleReferrer' /\ NoneDangling'
<1> DEFINE l == bael_add(links, dir, e)
<1>1. links \in Links /\ Single(links)
  BY DEF TreeInv, TypeOK, SingleReferrer, Single
<1>2. Unreferenced(links, e)
  BY DEF TreeInv, NoneDangling, Within, Unreferenced, Fresh
<1>3. Within(links, alive \cup {e})
  BY DEF TreeInv, NoneDangling, Within
<1>4. Single(l) /\ Within(l, alive \cup {e})
  BY <1>1, <1>2, <1>3, AddSingle, AddWithin
<1> QED  BY <1>4 DEF Insert, SingleReferrer, NoneDangling, Single, Unshared, Within

LEMMA RemoveReferrers ==
    ASSUME TreeInv, "stale" \notin Calls, NEW e \in Entries, ba_remove(e)
    PROVE  SingleReferrer' /\ NoneDangling'
<1> DEFINE l == bael_remove(links, parent_dir[e], e)
<1>1. links \in Links /\ Single(links) /\ Within(links, alive) /\ parent_dir[e] \in Pointer
  BY DEF TreeInv, TypeOK, SingleReferrer, NoneDangling, Single
<1>2. e \in Listed(links, parent_dir[e])
  BY DEF ba_remove, RemoveCalls, InOwnList
<1>3. l \in Links /\ Single(l) /\ Within(l, alive) /\ Unreferenced(l, e)
  BY <1>1, <1>2, RemoveLinks, RemoveSingle, RemoveWithin, RemoveUnlinks
<1>4. CASE Discard(l, e)
  BY <1>3, <1>4, DiscardReferrers DEF TreeInv
<1>5. CASE Fault("corrupt")
  BY <1>5 DEF TreeInv, SingleReferrer, NoneDangling, Fault, memory, Unshared, Within
<1> QED  BY <1>4, <1>5 DEF ba_remove

LEMMA MoveReferrers ==
    ASSUME TreeInv, "stale" \notin Calls, "inside" \notin Calls,
           NEW src \in Handles, NEW dest \in Handles,
           ba_move_into_dir(src, dest) \/ ba_move_onto_file(src, dest)
    PROVE  SingleReferrer' /\ NoneDangling'
<1> DEFINE own   == parent_dir[src]
           l     == bael_remove(links, own, src)
           into  == parent_dir[dest]
           added == bael_add(l, into, src)
           freed == bael_remove(added, into, dest)
<1>1. /\ src \in Entries /\ src \in alive /\ dest \in Entries
      /\ own \in Pointer /\ into \in Pointer /\ dest \in Pointer
      /\ links \in Links /\ Single(links) /\ Within(links, alive)
  BY HandlesAreEntries DEF TreeInv, TypeOK, SingleReferrer, NoneDangling, Single, Pointer
<1>2. src \in Listed(links, own)
  BY DEF ba_move_into_dir, ba_move_onto_file, MoveCalls, InOwnList
<1>3. l \in Links /\ Single(l) /\ Within(l, alive) /\ Unreferenced(l, src)
  BY <1>1, <1>2, RemoveLinks, RemoveSingle, RemoveWithin, RemoveUnlinks
<1>4. CASE links' = bael_add(l, dest, src) /\ UNCHANGED memory
  <2>1. Single(links') /\ Within(links', alive)
    BY <1>1, <1>3, <1>4, AddSingle, AddWithin
  <2> QED  BY <1>4, <2>1 DEF SingleReferrer, NoneDangling, Single, Unshared, Within, memory
<1>5. CASE \E how \in States : Fault(how)
  BY <1>5 DEF TreeInv, SingleReferrer, NoneDangling, Fault, memory, Unshared, Within
<1>6. ASSUME dest \in files, MoveCalls(src, dest), CanWalk(l, into, src), Discard(freed, dest)
      PROVE  SingleReferrer' /\ NoneDangling'
  <2>1. added \in Links /\ Single(added) /\ Within(added, alive)
    BY <1>1, <1>3, AddLinks, AddSingle, AddWithin
  <2>2. dest # src /\ dest \in Listed(links, into)
    BY <1>6 DEF MoveCalls, Inside, InOwnList
  <2>3. dest \in Listed(l, into)
    BY <1>1, <1>2, <2>2, RemoveKeepsListed
  <2>4. Terminates([l.next EXCEPT ![src] = NULL], l.head[into])
    BY <1>6 DEF CanWalk, Walkable
  <2>5. dest \in Listed(added, into)
    BY <1>1, <1>3, <2>3, <2>4, AddKeepsListed
  <2>6. freed \in Links /\ Single(freed) /\ Within(freed, alive) /\ Unreferenced(freed, dest)
    BY <1>1, <2>1, <2>5, RemoveLinks, RemoveSingle, RemoveWithin, RemoveUnlinks
  <2> QED  BY <1>1, <1>6, <2>6, DiscardReferrers DEF TreeInv
<1>7. CASE ba_move_into_dir(src, dest)
  BY <1>4, <1>5, <1>7 DEF ba_move_into_dir, States, memory
<1>8. CASE ba_move_onto_file(src, dest)
  <2>1. ba_add_outcome(l, into, src) \in States
    BY DEF ba_add_outcome, States
  <2>2. ba_add_outcome(l, into, src) = "open" => CanWalk(l, into, src)
    BY DEF ba_add_outcome
  <2> HIDE DEF own, l, into, added, freed
  <2> QED  BY <1>5, <1>6, <1>8, <2>1, <2>2
           DEF ba_move_onto_file, States, own, l, into, added, freed
<1> QED  BY <1>7, <1>8

\* A client that moves each entry at most once, and none into itself, never
\* gets an entry into two directories, two lists that run together, or a list
\* that runs into itself; nor does any pointer lead to a freed entry.
THEOREM OneReferrer ==
    ASSUME "stale" \notin Calls, "inside" \notin Calls
    PROVE  Spec => [](SingleReferrer /\ NoneDangling)
<1>1. Init => SingleReferrer /\ NoneDangling
  BY DEF Init, SingleReferrer, NoneDangling, NoLinks, Unshared, Within, Pointer
<1>2. TreeInv /\ [Next]_vars => (SingleReferrer /\ NoneDangling)'
  <2> SUFFICES ASSUME TreeInv, [Next]_vars PROVE (SingleReferrer /\ NoneDangling)'
    OBVIOUS
  <2>1. CASE UNCHANGED <<links, alive>>
    BY <2>1 DEF TreeInv, SingleReferrer, NoneDangling, Unshared, Within
  <2>2. ASSUME NEW e \in Entries, NEW d \in (Handles \cap dirs) \cup {NULL},
               \/ \E s \in Sizes : ba_add_file(d, e, s)
               \/ \E found \in BOOLEAN : ba_add_dir(d, e, found)
        PROVE  (SingleReferrer /\ NoneDangling)'
    <3>1. d \in Pointer
      BY HandlesAreEntries DEF Pointer
    <3>2. (Fresh(e) /\ Insert(d, e)) \/ Fault("corrupt")
      BY <2>2 DEF ba_add_file, ba_add_dir
    <3> QED  BY <2>1, <3>1, <3>2, InsertReferrers DEF Fault, memory
  <2>3. ASSUME NEW e \in Handles, ba_remove(e)
        PROVE  (SingleReferrer /\ NoneDangling)'
    BY <2>3, HandlesAreEntries, RemoveReferrers
  <2>4. ASSUME NEW e, ba_get_file_contents(e) \/ \E s \in Sizes : ba_set_file_contents(e, s)
        PROVE  (SingleReferrer /\ NoneDangling)'
    BY <2>1, <2>4 DEF ba_get_file_contents, ba_set_file_contents
  <2>5. CASE ba_save
    BY <2>1, <2>5 DEF ba_save, Fault, memory
  <2>6. CASE ba_close
    <3>1. CASE links' = NoLinks
      BY <3>1 DEF SingleReferrer, NoneDangling, NoLinks, Unshared, Within, Pointer
    <3> QED  BY <2>1, <2>6, <3>1 DEF ba_close, Fault, memory
  <2>7. CASE UNCHANGED vars
    BY <2>1, <2>7 DEF vars, memory
  <2> QED  BY <2>2, <2>3, <2>4, <2>5, <2>6, <2>7, MoveReferrers DEF Next, Step
<1> QED  BY <1>1, <1>2, TypeCorrect, PTL DEF Spec, TreeInv

(***************************************************************************)
(* The shape of the entry tree, for clients that move each entry once and  *)
(* none into itself: it holds exactly the live entries, so no call fails,  *)
(* closing frees everything, and what __data_size forgets is known.        *)
(*                                                                         *)
(* Pointers that the list functions can walk: they form lists that end,    *)
(* lead to live entries, and only directories have entries.                *)
(***************************************************************************)
Sound(l) ==
    /\ l \in Links
    /\ Single(l)
    /\ Within(l, alive)
    /\ AllEnd(l)
    /\ \A e \in Entries \ dirs : l.head[e] = NULL

ShapeInv == TypeOK /\ Sound(links) /\ Tree = alive

LEMMA ShapeFacts ==
    ASSUME ShapeInv
    PROVE  /\ TreeInv /\ FromRoot(links) = alive /\ Handles = alive
           /\ alive \subseteq Entries /\ files \subseteq alive
           /\ dirs \cup {NULL} \subseteq Pointer /\ NULL \notin alive
BY DEF ShapeInv, TreeInv, TypeOK, Sound, SingleReferrer, NoneDangling, Single, FromRoot, Tree, Handles,
       dirs, Pointer, NullAssumption

\* Every walk of the list functions comes to its end.
LEMMA SoundWalk ==
    ASSUME TypeOK, NEW l, Sound(l), NEW dir \in alive \cup {NULL}, NEW e \in Entries
    PROVE  CanWalk(l, dir, e) /\ Terminates(l.next, l.head[dir])
<1> DEFINE cut == [l.next EXCEPT ![e] = NULL]
<1>1. dir \in Pointer /\ l.next \in [Entries -> Pointer] /\ l.head[dir] \in Pointer /\ alive \subseteq Entries
  BY DEF Sound, TypeOK, Links, Pointer
<1>2. Terminates(l.next, l.head[dir])
  BY <1>1 DEF Sound, AllEnd
<1>3. Terminates(cut, l.head[dir])
  BY <1>1, <1>2, CutEnds
<1>4. alive \in ClosedSets(cut, l.head[dir])
  BY <1>1 DEF Sound, Within, ClosedSets
<1>5. Chain(cut, l.head[dir]) \subseteq alive
  BY <1>4, ChainLeast
<1> QED  BY <1>2, <1>3, <1>5 DEF CanWalk, Walkable

\* A recursive walk over the list of d, which is not below itself, comes to
\* every entry once.
LEMMA SoundTree ==
    ASSUME TypeOK, NEW l, Sound(l), NEW d \in Pointer, d \notin Reach(l, l.head[d])
    PROVE  CanFree(l, l.head[d])
<1> DEFINE R == Reach(l, l.head[d])
<1>1. l \in Links /\ l.head[d] \in Pointer /\ NULL \in Pointer /\ Single(l) /\ alive \subseteq Entries
  BY DEF Sound, TypeOK, Links, Pointer
<1>2. R \subseteq Entries /\ R \subseteq Pointer
  BY <1>1, ReachClosed DEF Pointer
<1>3. Unshared(l, R, R)
  BY <1>1, <1>2 DEF Single, Unshared
<1>4. ASSUME NEW p \in R, l.head[d] \in {l.next[p], l.head[p]} PROVE FALSE
  <2>1. l.head[d] # NULL
    BY <1>4, WalkNothing
  <2> QED  BY <1>1, <1>2, <1>4, <2>1 DEF Single, Unshared
<1>5. R \subseteq alive
  BY <1>1, ReachLeast DEF Sound, Within, Pointer
<1> QED  BY <1>3, <1>4, <1>5 DEF CanFree, IsTree

\* A live entry that calls itself listed is in a directory, or in the root.
LEMMA OwnDirectory ==
    ASSUME ShapeInv, NEW d \in Pointer, Listed(links, d) # {}
    PROVE  d \in dirs \cup {NULL}
<1>1. links.head[d] # NULL
  BY WalkNothing DEF Listed
<1> QED  BY <1>1 DEF ShapeInv, Sound, Pointer

(***************************************************************************)
(* The list functions keep the pointers sound.                             *)
(***************************************************************************)
LEMMA RemoveSound ==
    ASSUME NEW l, Sound(l), NEW dir \in Pointer, NEW e \in Listed(l, dir)
    PROVE  Sound(bael_remove(l, dir, e)) /\ Unreferenced(bael_remove(l, dir, e), e)
<1> DEFINE r == bael_remove(l, dir, e)
<1>1. l \in Links /\ Single(l) /\ AllEnd(l) /\ Within(l, alive)
  BY DEF Sound
<1>2. e \in Entries /\ e # NULL
  BY DEF Listed, Chain, NullAssumption
<1>3. r \in Links /\ Single(r) /\ AllEnd(r) /\ Within(r, alive) /\ Unreferenced(r, e)
  BY <1>1, <1>2, RemoveLinks, RemoveSingle, RemoveEnds, RemoveWithin, RemoveUnlinks
<1>4. \A d \in Pointer : r.head[d] = IF l.head[d] = e THEN l.next[e] ELSE l.head[d]
  BY <1>1, RemovePointers
<1>5. \A d \in Entries \ dirs : r.head[d] = NULL
  <2> HIDE DEF r
  <2> QED  BY <1>2, <1>4 DEF Sound, Pointer
<1> QED  BY <1>3, <1>5 DEF Sound

LEMMA AddSound ==
    ASSUME TypeOK, NEW l, Sound(l), NEW dir \in dirs \cup {NULL}, NEW e \in alive, Unreferenced(l, e)
    PROVE  Sound(bael_add(l, dir, e))
<1> DEFINE a == bael_add(l, dir, e)
<1>1. l \in Links /\ Single(l) /\ AllEnd(l) /\ Within(l, alive) /\ dir \in Pointer /\ e \in Entries
  BY DEF Sound, TypeOK, dirs, Pointer
<1>2. a \in Links /\ Single(a) /\ AllEnd(a) /\ Within(a, alive)
  BY <1>1, AddLinks, AddSingle, AddEnds, AddWithin
<1>3. \A d \in Pointer : a.head[d] # l.head[d] => d = dir
  BY <1>1, AddPointers DEF AllEnd
<1>4. \A d \in Entries \ dirs : a.head[d] = NULL
  <2> HIDE DEF a
  <2> QED  BY <1>3 DEF Sound, Pointer, NullAssumption
<1> QED  BY <1>2, <1>4 DEF Sound

\* What is freed is the entry with all that is below it.
LEMMA BelowReach ==
    ASSUME TypeOK, NEW l, Sound(l), NEW e \in alive
    PROVE  Below(l, e) = Reach(l, l.head[e])
<1>1. CASE e \in files
  <2>1. l.head[e] = NULL
    BY <1>1 DEF Sound, TypeOK, dirs
  <2> QED  BY <1>1, <2>1, WalkNothing DEF Below
<1>2. CASE e \notin files
  BY <1>2 DEF Below
<1> QED  BY <1>1, <1>2

\* An unlinked entry can be freed.
LEMMA CanDiscardUnlinked ==
    ASSUME TypeOK, NEW l, Sound(l), NEW e \in alive, Unreferenced(l, e)
    PROVE  CanDiscard(l, e) /\ e \notin Reach(l, l.head[e])
<1>1. l \in Links /\ e \in Pointer /\ l.head[e] \in Pointer
  BY DEF Sound, TypeOK, Links, Pointer
<1>2. e \notin Reach(l, l.head[e])
  <2>1. Reach(l, l.head[e]) \subseteq Entries /\ Reach(l, l.head[e]) \subseteq Pointer
    BY <1>1, ReachClosed DEF Pointer
  <2> QED  BY <1>1, <2>1, Referrer DEF Unreferenced
<1> QED  BY <1>1, <1>2, SoundTree, BelowReach DEF CanDiscard

\* When an unlinked entry is freed, all that is in the tree stays.
LEMMA DiscardShape ==
    ASSUME TypeOK, NEW l, Sound(l), NEW e \in alive, Unreferenced(l, e),
           FromRoot(l) = alive \ Sub(l, e), Discard(l, e)
    PROVE  Sound(links)' /\ Tree' = alive'
<1> DEFINE gone == Sub(l, e)
           f    == Forget(l, gone)
<1>1. /\ l \in Links /\ Single(l) /\ AllEnd(l) /\ Within(l, alive) /\ alive \subseteq Entries
      /\ e \in Entries /\ l.head[e] \in Pointer
  BY DEF Sound, TypeOK, Links, Pointer
<1>2. Below(l, e) = Reach(l, l.head[e])
  BY BelowReach
<1>3. links' = f /\ alive' = alive \ gone /\ files' = files \ gone
  BY <1>2 DEF Discard, Sub
<1>4. gone \in SUBSET Entries
  BY <1>1, ReachClosed DEF Sub
<1>5. Within(f, alive \ gone)
  BY <1>1, FreedUnreferenced DEF Sub
<1>6. f \in Links /\ Single(f) /\ AllEnd(f)
  BY <1>1, <1>4, <1>5, ForgetLinks, ForgetSingle, ForgetEnds
<1>7. FromRoot(f) = alive \ gone
  BY <1>1, <1>4, ForgetReach
<1>8. \A d \in Entries \ dirs' : f.head[d] = NULL
  <2>1. \A d \in Entries : d \notin dirs' => d \in gone \/ d \notin dirs
    BY <1>3 DEF dirs
  <2> QED  BY <2>1 DEF Forget, Sound, Pointer
<1> HIDE DEF f, gone
<1> QED  BY <1>3, <1>5, <1>6, <1>7, <1>8 DEF Sound, Tree, FromRoot, Single, Unshared, Within, AllEnd

(***************************************************************************)
(* What the calls make of the pointers.                                    *)
(***************************************************************************)
\* Unlinking an entry that is where its parent_dir says, before it is freed or
\* linked elsewhere: it goes with what is below it, everything else stays.
LEMMA UnlinkOutcome ==
    ASSUME ShapeInv, NEW e \in alive, InOwnList(e)
    PROVE  LET l == bael_remove(links, parent_dir[e], e)
           IN  /\ parent_dir[e] \in dirs \cup {NULL}
               /\ CanWalk(links, parent_dir[e], e)
               /\ Sound(l) /\ Unreferenced(l, e)
               /\ Sub(l, e) = Sub(links, e)
               /\ FromRoot(l) = alive \ Sub(l, e)
               /\ \A d \in Pointer : \A x \in Listed(links, d) \ {e} : x \in Listed(l, d)
<1> DEFINE dir == parent_dir[e]
           l   == bael_remove(links, dir, e)
<1>1. /\ dir \in Pointer /\ e \in Entries /\ e \in FromRoot(links) /\ e \in Listed(links, dir)
      /\ links \in Links /\ Single(links) /\ Sound(links) /\ TypeOK /\ FromRoot(links) = alive
  BY ShapeFacts DEF ShapeInv, TypeOK, Sound, InOwnList
<1>2. dir \in dirs \cup {NULL}
  BY <1>1, OwnDirectory
<1>3. CanWalk(links, dir, e)
  BY <1>1, <1>2, SoundWalk DEF dirs
<1>4. Sound(l) /\ Unreferenced(l, e)
  BY <1>1, RemoveSound
<1>5. Sub(l, e) = Sub(links, e) /\ FromRoot(l) = alive \ Sub(links, e)
  BY <1>1, RemoveReach DEF Sub
<1>6. \A d \in Pointer : \A x \in Listed(links, d) \ {e} : x \in Listed(l, d)
  BY <1>1, RemoveKeepsListed
<1> QED  BY <1>2, <1>3, <1>4, <1>5, <1>6

\* Linking it again in a directory that is not below it: nothing is lost.
LEMMA RelinkOutcome ==
    ASSUME ShapeInv, NEW e \in alive, InOwnList(e),
           NEW into \in dirs \cup {NULL}, into \notin Sub(links, e)
    PROVE  LET l == bael_remove(links, parent_dir[e], e)
               a == bael_add(l, into, e)
           IN  /\ CanWalk(l, into, e)
               /\ Sound(a)
               /\ FromRoot(a) = alive
               /\ e \in Listed(a, into)
               /\ \A d \in Pointer : \A x \in Listed(links, d) \ {e} : x \in Listed(a, d)
<1> DEFINE l == bael_remove(links, parent_dir[e], e)
           a == bael_add(l, into, e)
<1>1. /\ Sound(l) /\ Unreferenced(l, e) /\ Sub(l, e) = Sub(links, e)
      /\ FromRoot(l) = alive \ Sub(l, e)
      /\ \A d \in Pointer : \A x \in Listed(links, d) \ {e} : x \in Listed(l, d)
  BY UnlinkOutcome
<1>2. TypeOK /\ e \in Entries /\ into \in Pointer /\ into \in alive \cup {NULL}
  BY ShapeFacts DEF ShapeInv, dirs
<1>3. CanWalk(l, into, e) /\ Terminates(l.next, l.head[into])
  BY <1>1, <1>2, SoundWalk
<1>4. Sound(a)
  BY <1>1, <1>2, AddSound
<1>5. into \in FromRoot(l) \cup {NULL}
  BY <1>1, <1>2
<1>6. l \in Links /\ Single(l) /\ l.next \in [Entries -> Pointer] /\ l.head[into] \in Pointer
  BY <1>1, <1>2 DEF Sound, Links
<1> HIDE DEF l
<1>7. FromRoot(a) = FromRoot(l) \cup Sub(l, e)
  BY <1>1, <1>2, <1>3, <1>5, <1>6, AddReach
<1>8. Sub(l, e) \subseteq alive
  <2>1. links \in Links /\ e \in Pointer /\ links.head[e] \in Pointer /\ alive \subseteq Entries
    BY ShapeFacts DEF ShapeInv, TypeOK, Links, Pointer
  <2>2. \A p \in alive : links.next[p] \in alive \cup {NULL} /\ links.head[p] \in alive \cup {NULL}
    BY <2>1 DEF ShapeInv, Sound, Within, Pointer
  <2>3. links.head[e] \in alive \cup {NULL}
    BY <2>2
  <2>4. Reach(links, links.head[e]) \subseteq alive
    BY <2>1, <2>2, <2>3, ReachLeast
  <2> QED  BY <1>1, <2>4 DEF Sub
<1>9. e \in Listed(a, into)
  BY <1>1, <1>2, <1>3, <1>6, AddListed
<1>10. \A d \in Pointer : \A x \in Listed(l, d) : x \in Listed(a, d)
  BY <1>1, <1>2, <1>3, <1>6, CutEnds, AddKeepsListed
<1> QED  BY <1>1, <1>3, <1>4, <1>7, <1>8, <1>9, <1>10 DEF l

\* What stays stays in its list when an unlinked entry is freed.
LEMMA DiscardKeepsListed ==
    ASSUME TypeOK, NEW l, Sound(l), NEW e \in alive, Unreferenced(l, e), Discard(l, e),
           NEW d \in Pointer, NEW x \in Listed(l, d), x \in alive'
    PROVE  x \in Listed(links, d)'
<1> DEFINE gone == Sub(l, e)
           f    == Forget(l, gone)
<1>1. /\ l \in Links /\ Single(l) /\ Within(l, alive) /\ alive \subseteq Entries
      /\ e \in Entries /\ e \in Pointer /\ l.head[e] \in Pointer
  BY DEF Sound, TypeOK, Links, Pointer
<1>2. Below(l, e) = Reach(l, l.head[e])
  BY BelowReach
<1>3. links' = f /\ alive' = alive \ gone
  BY <1>2 DEF Discard, Sub
<1>4. gone \in SUBSET Entries
  BY <1>1, ReachClosed DEF Sub
<1>5. Within(f, alive \ gone)
  BY <1>1, FreedUnreferenced DEF Sub
<1>6. d \notin gone
  <2>1. CASE d = e
    BY <1>1, <1>3, <2>1, ListedBelow DEF Sub
  <2>2. CASE d \in Reach(l, l.head[e])
    BY <1>1, <1>3, <2>2, ListedBelow DEF Sub
  <2> QED  BY <2>1, <2>2 DEF Sub
<1>7. x \in Listed(f, d)
  BY <1>1, <1>4, <1>5, <1>6, ForgetKeepsListed
<1> HIDE DEF f, gone
<1> QED  BY <1>3, <1>7 DEF Listed

(***************************************************************************)
(* The calls.                                                              *)
(***************************************************************************)
\* Adding always works.
LEMMA InsertStep ==
    ASSUME ShapeInv, NEW e \in Entries, NEW dir \in (Handles \cap dirs) \cup {NULL},
           \/ \E s \in Sizes : ba_add_file(dir, e, s)
           \/ \E found \in BOOLEAN : ba_add_dir(dir, e, found)
    PROVE  /\ Fresh(e) /\ Insert(dir, e) /\ files' \in {files, files \cup {e}}
           /\ dir \in dirs \cup {NULL} /\ Unreferenced(links, e) /\ AllEnd(links)
           /\ Sound(links)' /\ Tree' = alive'
<1> DEFINE a == bael_add(links, dir, e)
<1>1. /\ TypeOK /\ Sound(links) /\ links \in Links /\ Single(links) /\ AllEnd(links)
      /\ FromRoot(links) = alive /\ dir \in dirs \cup {NULL} /\ dir \in alive \cup {NULL}
      /\ dir \in Pointer
  BY ShapeFacts DEF ShapeInv, Sound, dirs
<1>2. CanWalk(links, dir, e) /\ Terminates(links.next, links.head[dir])
  BY <1>1, SoundWalk
<1>3. Fresh(e) /\ Insert(dir, e) /\ files' \in {files, files \cup {e}}
  BY <1>2 DEF ba_add_file, ba_add_dir
<1>4. Unreferenced(links, e) /\ e \notin alive /\ Within(links, alive \cup {e})
  BY <1>1, <1>3 DEF Sound, Within, Unreferenced, Fresh
<1>5. a \in Links /\ Single(a) /\ AllEnd(a) /\ Within(a, alive \cup {e})
  BY <1>1, <1>4, AddLinks, AddSingle, AddEnds, AddWithin
<1>6. FromRoot(a) = alive \cup {e}
  <2>1. Sub(links, e) = {e}
    BY <1>1, <1>4, WalkNothing DEF Sound, Sub, dirs
  <2> QED  BY <1>1, <1>2, <1>4, <2>1, AddReach
<1>7. \A d \in Pointer : a.head[d] # links.head[d] => d = dir
  BY <1>1, <1>2, <1>4, AddPointers
<1>8. dirs \subseteq dirs'
  BY <1>1, <1>3, <1>4 DEF dirs, Insert
<1>9. \A d \in Entries \ dirs' : a.head[d] = NULL
  <2> HIDE DEF a
  <2> QED  BY <1>1, <1>7, <1>8 DEF Sound, Pointer
<1>10. links' = a /\ alive' = alive \cup {e}
  BY <1>3 DEF Insert
<1> HIDE DEF a
<1>11. Sound(links)' /\ Tree' = alive'
  BY <1>5, <1>6, <1>9, <1>10 DEF Sound, Tree, FromRoot, Single, Unshared, Within, AllEnd
<1> QED  BY <1>1, <1>3, <1>4, <1>11

\* So does removing an entry that is where its parent_dir says.
LEMMA RemoveStep ==
    ASSUME ShapeInv, "stale" \notin Calls, NEW e \in Handles, ba_remove(e)
    PROVE  LET l == bael_remove(links, parent_dir[e], e)
           IN  /\ e \in alive /\ InOwnList(e) /\ RemoveCalls(e)
               /\ Discard(l, e) /\ state' = state
               /\ Sound(l) /\ Unreferenced(l, e) /\ FromRoot(l) = alive \ Sub(l, e)
               /\ Sound(links)' /\ Tree' = alive'
<1> DEFINE l == bael_remove(links, parent_dir[e], e)
<1>1. e \in alive /\ InOwnList(e) /\ TypeOK
  BY ShapeFacts DEF ShapeInv, ba_remove, RemoveCalls
<1>2. /\ CanWalk(links, parent_dir[e], e) /\ Sound(l) /\ Unreferenced(l, e)
      /\ FromRoot(l) = alive \ Sub(l, e)
  BY <1>1, UnlinkOutcome
<1>3. CanDiscard(l, e)
  BY <1>1, <1>2, CanDiscardUnlinked
<1>4. Discard(l, e) /\ state' = state /\ RemoveCalls(e)
  BY <1>2, <1>3 DEF ba_remove
<1>5. Sound(links)' /\ Tree' = alive'
  <2> HIDE DEF l
  <2> QED  BY <1>1, <1>2, <1>4, DiscardShape
<1> QED  BY <1>1, <1>2, <1>4, <1>5

\* So does moving one into a directory that is not below it.
LEMMA MoveIntoDirStep ==
    ASSUME ShapeInv, "stale" \notin Calls, "inside" \notin Calls,
           NEW src \in Handles, NEW dest \in Handles, ba_move_into_dir(src, dest)
    PROVE  LET a == bael_add(bael_remove(links, parent_dir[src], src), dest, src)
           IN  /\ src \in alive /\ dest \in dirs /\ InOwnList(src) /\ dest \notin Sub(links, src)
               /\ links' = a
               /\ UNCHANGED <<memory, parent_dir, size, data_size, double_free, state>>
               /\ Sound(links)' /\ Tree' = alive'
<1> DEFINE l == bael_remove(links, parent_dir[src], src)
           a == bael_add(l, dest, src)
<1>1. /\ src \in alive /\ dest \in dirs /\ dest \in alive /\ InOwnList(src)
      /\ dest \notin {src} \cup Reach(links, links.head[src])
  BY ShapeFacts DEF ba_move_into_dir, MoveCalls, Inside
<1>2. dest \notin Sub(links, src)
  BY <1>1 DEF Sub
<1>3. CanWalk(links, parent_dir[src], src)
  BY <1>1, UnlinkOutcome
<1>4. CanWalk(l, dest, src) /\ Sound(a) /\ FromRoot(a) = alive
  BY <1>1, <1>2, RelinkOutcome
<1>5. /\ links' = a
      /\ UNCHANGED <<memory, parent_dir, size, data_size, double_free, state>>
  BY <1>3, <1>4 DEF ba_move_into_dir
<1>6. alive' = alive /\ files' = files
  BY <1>5 DEF memory
<1> HIDE DEF l, a
<1>7. Sound(links)' /\ Tree' = alive'
  BY <1>4, <1>5, <1>6 DEF Sound, Tree, FromRoot, Single, Unshared, Within, AllEnd, dirs
<1> QED  BY <1>1, <1>2, <1>5, <1>7 DEF a, l

\* And so does moving a file onto a file of a subdirectory; otherwise the process
\* ends there.
LEMMA MoveOntoFileStep ==
    ASSUME ShapeInv, "stale" \notin Calls, "inside" \notin Calls,
           NEW src \in Handles, NEW dest \in Handles, ba_move_onto_file(src, dest)
    PROVE  LET into  == parent_dir[dest]
               added == bael_add(bael_remove(links, parent_dir[src], src), into, src)
               freed == bael_remove(added, into, dest)
           IN  /\ src \in alive /\ dest \in files /\ src # dest
               /\ InOwnList(src) /\ InOwnList(dest)
               /\ into \in dirs \cup {NULL} /\ into \notin Sub(links, src) /\ dest \notin Sub(links, src)
               /\ MoveCalls(src, dest)
               /\ \/ /\ Fault("null_deref") \/ Fault("corrupt")
                     /\ into = NULL \/ src \in dirs
                  \/ /\ Discard(freed, dest) /\ state' = state
                     /\ Sound(added) /\ FromRoot(added) = alive
                     /\ Sound(freed) /\ Unreferenced(freed, dest)
                     /\ FromRoot(freed) = alive \ Sub(freed, dest)
                     /\ \A d \in Pointer : \A x \in Listed(added, d) \ {dest} : x \in Listed(freed, d)
                     /\ Sound(links)' /\ Tree' = alive'
<1> DEFINE into  == parent_dir[dest]
           l     == bael_remove(links, parent_dir[src], src)
           added == bael_add(l, into, src)
           freed == bael_remove(added, into, dest)
<1>1. /\ src \in alive /\ dest \in alive /\ dest \in files /\ InOwnList(src) /\ InOwnList(dest)
      /\ dest \notin {src} \cup Reach(links, links.head[src])
      /\ MoveCalls(src, dest) /\ TypeOK
  BY ShapeFacts DEF ba_move_onto_file, MoveCalls, Inside, ShapeInv
<1>2. /\ links \in Links /\ into \in Pointer /\ src \in Pointer /\ links.head[src] \in Pointer
      /\ dest \in Listed(links, into)
  BY <1>1 DEF TypeOK, Links, Pointer, InOwnList
<1>3. into \in dirs \cup {NULL} /\ into \in alive \cup {NULL}
  BY <1>1, <1>2, UnlinkOutcome DEF dirs
<1>4. into \notin Sub(links, src) /\ dest \notin Sub(links, src)
  <2>1. into # src
    BY <1>1, <1>2, ListedBelow
  <2>2. into \notin Reach(links, links.head[src])
    BY <1>1, <1>2, ListedBelow
  <2> QED  BY <1>1, <2>1, <2>2 DEF Sub
<1>5. CanWalk(links, parent_dir[src], src)
  BY <1>1, UnlinkOutcome
<1>6. /\ CanWalk(l, into, src) /\ Sound(added) /\ FromRoot(added) = alive
      /\ \A d \in Pointer : \A x \in Listed(links, d) \ {src} : x \in Listed(added, d)
  BY <1>1, <1>3, <1>4, RelinkOutcome
<1>7. dest \in Listed(added, into) /\ dest \in FromRoot(added) /\ dest \in Entries
  BY <1>1, <1>2, <1>6 DEF Listed, Chain
<1>8. CanWalk(added, into, dest)
  <2> HIDE DEF added, into
  <2> QED  BY <1>1, <1>3, <1>6, <1>7, SoundWalk
<1>9. /\ Sound(freed) /\ Unreferenced(freed, dest)
      /\ FromRoot(freed) = alive \ Sub(freed, dest)
      /\ \A d \in Pointer : \A x \in Listed(added, d) \ {dest} : x \in Listed(freed, d)
  <2>1. added \in Links /\ Single(added)
    BY <1>6 DEF Sound
  <2> HIDE DEF added, into
  <2>2. Sound(freed) /\ Unreferenced(freed, dest)
    BY <1>2, <1>6, <1>7, RemoveSound
  <2>3. FromRoot(freed) = alive \ Sub(freed, dest)
    BY <1>2, <1>6, <1>7, <2>1, RemoveReach DEF Sub
  <2>4. \A d \in Pointer : \A x \in Listed(added, d) \ {dest} : x \in Listed(freed, d)
    BY <1>2, <1>7, <2>1, RemoveKeepsListed
  <2> QED  BY <2>2, <2>3, <2>4
<1>10. ASSUME ba_add_outcome(l, into, src) = "open"
       PROVE  Discard(freed, dest) /\ state' = state
  <2> HIDE DEF l, added, freed, into
  <2> QED  BY <1>5, <1>8, <1>10 DEF ba_move_onto_file, l, added, freed, into
<1>11. ASSUME ba_add_outcome(l, into, src) # "open"
       PROVE  /\ Fault(ba_add_outcome(l, into, src))
              /\ ba_add_outcome(l, into, src) \in {"null_deref", "corrupt"}
              /\ into = NULL \/ src \in dirs
  <2>1. Fault(ba_add_outcome(l, into, src))
    <3> HIDE DEF l, added, freed, into
    <3> QED  BY <1>5, <1>8, <1>11 DEF ba_move_onto_file, l, added, freed, into
  <2> HIDE DEF l, into
  <2>2. /\ ba_add_outcome(l, into, src) \in {"null_deref", "corrupt"}
        /\ into = NULL \/ src \in dirs
    BY <1>6, <1>11 DEF ba_add_outcome
  <2> QED  BY <2>1, <2>2
<1>12. Discard(freed, dest) => Sound(links)' /\ Tree' = alive'
  <2> HIDE DEF freed
  <2> QED  BY <1>1, <1>9, DiscardShape
<1> QED  BY <1>1, <1>3, <1>4, <1>6, <1>9, <1>10, <1>11, <1>12

\* Saving and closing always work.
LEMMA SaveCloseStep ==
    ASSUME ShapeInv, ba_save \/ ba_close
    PROVE  \/ ba_save /\ UNCHANGED <<memory, parent_dir, links, state>>
           \/ /\ ba_close /\ state' = "closed" /\ links' = NoLinks
              /\ alive' = {} /\ files' = {} /\ buffers' = buffers \ alive
<1>1. /\ TypeOK /\ Sound(links) /\ Tree = alive /\ NULL \in Pointer /\ files \subseteq alive
      /\ alive \subseteq Entries
  BY DEF ShapeInv, TypeOK, Pointer
<1>2. NULL \notin Reach(links, links.head[NULL])
  BY DEF Reach, NullAssumption
<1>3. CanFree(links, links.head[NULL])
  BY <1>1, <1>2, SoundTree
<1>4. CASE ba_save
  BY <1>3, <1>4 DEF ba_save
<1>5. CASE ba_close
  BY <1>1, <1>3, <1>5 DEF ba_close
<1> QED  BY <1>4, <1>5

LEMMA NoLinksFacts ==
    /\ NoLinks \in Links /\ Single(NoLinks) /\ Within(NoLinks, {}) /\ AllEnd(NoLinks)
    /\ FromRoot(NoLinks) = {} /\ \A e \in Entries : NoLinks.head[e] = NULL
<1>1. FromRoot(NoLinks) = {}
  BY WalkNothing DEF FromRoot, NoLinks, Pointer
<1>2. NoLinks \in Links /\ Single(NoLinks) /\ Within(NoLinks, {})
  BY NoLinksTypes DEF NoLinks, Single, Unshared, Within, Pointer
<1>3. AllEnd(NoLinks) /\ \A e \in Entries : NoLinks.head[e] = NULL
  BY DEF AllEnd, NoLinks, Terminates, Pointer
<1> QED  BY <1>1, <1>2, <1>3

(***************************************************************************)
(* The tree is the set of live entries.  That no call loses one is not     *)
(* inductive by itself: it needs that lists end and do not run together,   *)
(* that no pointer leads to a freed entry, and that files have no entries. *)
(***************************************************************************)
LEMMA ShapeInit == Init => Sound(links) /\ Tree = alive
BY NoLinksFacts DEF Init, Tree, FromRoot, Sound

LEMMA ShapeNext ==
    ASSUME "stale" \notin Calls, "inside" \notin Calls, ShapeInv, [Next]_vars
    PROVE  Sound(links)' /\ Tree' = alive'
<1>1. CASE UNCHANGED <<links, alive, files>>
  BY <1>1 DEF ShapeInv, Sound, Tree, Single, Unshared, Within, AllEnd, dirs
<1>2. ASSUME NEW e \in Entries, NEW d \in (Handles \cap dirs) \cup {NULL},
             \/ \E s \in Sizes : ba_add_file(d, e, s)
             \/ \E found \in BOOLEAN : ba_add_dir(d, e, found)
      PROVE  Sound(links)' /\ Tree' = alive'
  BY <1>2, InsertStep
<1>3. ASSUME NEW e \in Handles, ba_remove(e) PROVE Sound(links)' /\ Tree' = alive'
  BY <1>3, RemoveStep
<1>4. ASSUME NEW src \in Handles, NEW dest \in Handles, ba_move_into_dir(src, dest)
      PROVE  Sound(links)' /\ Tree' = alive'
  BY <1>4, MoveIntoDirStep
<1>5. ASSUME NEW src \in Handles, NEW dest \in Handles, ba_move_onto_file(src, dest)
      PROVE  Sound(links)' /\ Tree' = alive'
  BY <1>1, <1>5, MoveOntoFileStep DEF Fault, memory
<1>6. ASSUME NEW e, ba_get_file_contents(e) \/ \E s \in Sizes : ba_set_file_contents(e, s)
      PROVE  Sound(links)' /\ Tree' = alive'
  BY <1>1, <1>6 DEF ba_get_file_contents, ba_set_file_contents
<1>7. CASE ba_save \/ ba_close
  <2>1. CASE UNCHANGED <<memory, links>>
    BY <1>1, <2>1 DEF memory
  <2>2. CASE links' = NoLinks /\ alive' = {} /\ files' = {}
    BY <2>2, NoLinksFacts DEF Sound, Tree, FromRoot, Single, Unshared, Within, AllEnd
  <2> QED  BY <1>7, <2>1, <2>2, SaveCloseStep
<1>8. CASE UNCHANGED vars
  BY <1>1, <1>8 DEF vars, memory
<1> QED  BY <1>2, <1>3, <1>4, <1>5, <1>6, <1>7, <1>8 DEF Next, Step

LEMMA ShapeInvariant ==
    ASSUME "stale" \notin Calls, "inside" \notin Calls
    PROVE  Spec => []ShapeInv
<1>1. Init /\ TypeOK => ShapeInv
  BY ShapeInit DEF ShapeInv
<1>2. ShapeInv /\ TypeOK' /\ [Next]_vars => ShapeInv'
  <2> SUFFICES ASSUME ShapeInv, TypeOK', [Next]_vars PROVE ShapeInv'
    OBVIOUS
  <2>1. Sound(links)' /\ Tree' = alive'
    BY ShapeNext
  <2> QED  BY <2>1 DEF ShapeInv
<1> QED  BY <1>1, <1>2, TypeCorrect, PTL DEF Spec

\* Whatever a client does that moves each entry at most once and none into itself,
\* the entries that can be reached from the root are exactly the live ones: no call
\* loses an entry, none leaves one in the tree that was freed.
THEOREM TreeIsWhole ==
    ASSUME "stale" \notin Calls, "inside" \notin Calls
    PROVE  Spec => []NoneLost
<1>0. Spec => []ShapeInv
  BY ShapeInvariant
<1>1. ShapeInv => NoneLost
  BY DEF ShapeInv, NoneLost
<1> QED  BY <1>0, <1>1, PTL

\* No list of such a client runs into itself: a walk over any directory ends.
THEOREM EveryListEnds ==
    ASSUME "stale" \notin Calls, "inside" \notin Calls
    PROVE  Spec => []ListsEnd
<1>0. Spec => []ShapeInv
  BY ShapeInvariant
<1>1. ShapeInv => ListsEnd
  BY ShapeFacts DEF ShapeInv, Sound, AllEnd, ListsEnd
<1> QED  BY <1>0, <1>1, PTL

\* If the client does not move entries onto files of the root nor directories onto
\* files either, every call returns: no walk over a list reads a freed entry or
\* goes on for ever, no null pointer is followed.
THEOREM EveryCallReturns ==
    ASSUME {"stale", "inside", "onto_root", "dir_onto"} \cap Calls = {}
    PROVE  Spec => []NoFault
<1>0. Spec => []ShapeInv
  BY ShapeInvariant
<1>1. Init => NoFault
  BY DEF Init, NoFault
<1>2. ShapeInv /\ NoFault /\ [Next]_vars => NoFault'
  <2> SUFFICES ASSUME ShapeInv, NoFault, [Next]_vars PROVE NoFault'
    OBVIOUS
  <2> USE DEF NoFault
  <2>1. ASSUME NEW e \in Entries, NEW d \in (Handles \cap dirs) \cup {NULL},
               \/ \E s \in Sizes : ba_add_file(d, e, s)
               \/ \E found \in BOOLEAN : ba_add_dir(d, e, found)
        PROVE  NoFault'
    BY <2>1, InsertStep DEF Insert
  <2>2. ASSUME NEW e \in Handles, ba_remove(e) PROVE NoFault'
    BY <2>2, RemoveStep
  <2>3. ASSUME NEW src \in Handles, NEW dest \in Handles, ba_move_into_dir(src, dest)
        PROVE  NoFault'
    BY <2>3, MoveIntoDirStep
  <2>4. ASSUME NEW src \in Handles, NEW dest \in Handles, ba_move_onto_file(src, dest)
        PROVE  NoFault'
    <3>1. dest \in files /\ MoveCalls(src, dest)
      BY <2>4 DEF ba_move_onto_file
    <3>2. parent_dir[dest] # NULL /\ src \notin dirs
      BY <3>1 DEF MoveCalls
    <3> QED  BY <2>4, <3>2, MoveOntoFileStep
  <2>5. ASSUME NEW e, ba_get_file_contents(e) \/ \E s \in Sizes : ba_set_file_contents(e, s)
        PROVE  NoFault'
    BY <2>5 DEF ba_get_file_contents, ba_set_file_contents
  <2>6. CASE ba_save \/ ba_close
    BY <2>6, SaveCloseStep
  <2>7. CASE UNCHANGED vars
    BY <2>7 DEF vars
  <2> QED  BY <2>1, <2>2, <2>3, <2>4, <2>5, <2>6, <2>7 DEF Next, Step
<1> QED  BY <1>0, <1>1, <1>2, PTL DEF Spec

(***************************************************************************)
(* Buffers belong to live entries, as long as no file is freed whose       *)
(* contents are in its buffer: so closing frees them all.                  *)
(***************************************************************************)
BuffersLive ==
    /\ buffers \subseteq alive
    /\ state = "closed" => alive = {}

\* Closing leaves nothing of the archive in memory, entries or buffers, whatever was
\* done before, if no file is removed or moved onto while its contents are buffered.
THEOREM CloseFreesAll ==
    ASSUME {"stale", "inside", "buffered"} \cap Calls = {}
    PROVE  Spec => []ClosedMeansFreed
<1>0. Spec => []ShapeInv
  BY ShapeInvariant
<1>1. Init => BuffersLive
  BY DEF Init, BuffersLive
<1>2. ShapeInv /\ BuffersLive /\ [Next]_vars => BuffersLive'
  <2> SUFFICES ASSUME ShapeInv, BuffersLive, [Next]_vars PROVE BuffersLive'
    OBVIOUS
  <2> USE DEF BuffersLive
  <2>0. ASSUME NEW how \in {"null_deref", "corrupt"}, Fault(how) PROVE BuffersLive'
    BY <2>0 DEF Fault, memory
  <2>1. ASSUME NEW e \in Entries, NEW d \in (Handles \cap dirs) \cup {NULL},
               \/ \E s \in Sizes : ba_add_file(d, e, s)
               \/ \E found \in BOOLEAN : ba_add_dir(d, e, found)
        PROVE  BuffersLive'
    <3>1. state = "open"
      BY <2>1 DEF ba_add_file, ba_add_dir
    <3> QED  BY <2>1, <3>1, InsertStep DEF Insert
  <2>2. ASSUME NEW l, NEW e, Sound(l), state = "open", state' = state, Discard(l, e), e \notin buffers
        PROVE  BuffersLive'
    BY <2>2 DEF Discard
  <2>3. ASSUME NEW e \in Handles, ba_remove(e) PROVE BuffersLive'
    <3>1. state = "open" /\ e \notin buffers
      BY <2>3 DEF ba_remove, RemoveCalls
    <3> QED  BY <2>2, <2>3, <3>1, RemoveStep
  <2>4. ASSUME NEW src \in Handles, NEW dest \in Handles, ba_move_into_dir(src, dest)
        PROVE  BuffersLive'
    BY <2>4, MoveIntoDirStep DEF memory
  <2>5. ASSUME NEW src \in Handles, NEW dest \in Handles, ba_move_onto_file(src, dest)
        PROVE  BuffersLive'
    <3>1. state = "open" /\ dest \notin buffers
      BY <2>5 DEF ba_move_onto_file, MoveCalls
    <3> QED  BY <2>0, <2>2, <2>5, <3>1, MoveOntoFileStep
  <2>6. ASSUME NEW e \in Handles, ba_get_file_contents(e) \/ \E s \in Sizes : ba_set_file_contents(e, s)
        PROVE  BuffersLive'
    BY <2>6, ShapeFacts DEF ba_get_file_contents, ba_set_file_contents
  <2>7. CASE ba_save \/ ba_close
    BY <2>7, SaveCloseStep DEF memory
  <2>8. CASE UNCHANGED vars
    BY <2>8 DEF vars, memory
  <2> QED  BY <2>1, <2>3, <2>4, <2>5, <2>6, <2>7, <2>8 DEF Next, Step
<1>3. BuffersLive => ClosedMeansFreed
  BY DEF BuffersLive, ClosedMeansFreed
<1> QED  BY <1>0, <1>1, <1>2, <1>3, PTL DEF Spec

(***************************************************************************)
(* Where an entry is.                                                      *)
(***************************************************************************)
\* Only moving an entry itself makes its parent_dir wrong: adding, removing and
\* moving others, in the same directory or elsewhere, leave it where parent_dir says.
THEOREM OnlyMovesMakeStale ==
    ASSUME "stale" \notin Calls, "inside" \notin Calls
    PROVE  Spec => StaleOnlyByMove
<1> DEFINE Kept == \A e \in alive \cap alive' :
                     InOwnList(e) => \/ InOwnList(e)'
                                     \/ \E d \in alive : ba_move_into_dir(e, d) \/ ba_move_onto_file(e, d)
<1>0. Spec => []ShapeInv
  BY ShapeInvariant
<1>1. ShapeInv /\ [Next]_vars => [Kept]_vars
  <2> SUFFICES ASSUME ShapeInv, Next, NEW x \in alive, x \in alive', InOwnList(x)
               PROVE  \/ InOwnList(x)'
                      \/ \E d \in alive : ba_move_into_dir(x, d) \/ ba_move_onto_file(x, d)
    OBVIOUS
  <2>0. /\ TypeOK /\ x \in Entries /\ parent_dir[x] \in Pointer /\ x \in Listed(links, parent_dir[x])
        /\ Handles = alive
    BY ShapeFacts DEF ShapeInv, TypeOK, InOwnList
  <2>1. ASSUME links' = links, parent_dir' = parent_dir PROVE InOwnList(x)'
    BY <2>0, <2>1 DEF InOwnList
  <2>2. ASSUME x \in Listed(links, parent_dir[x])', parent_dir'[x] = parent_dir[x]
        PROVE  InOwnList(x)'
    BY <2>2 DEF InOwnList
  <2>3. ASSUME NEW e \in Entries, NEW d \in (Handles \cap dirs) \cup {NULL},
               \/ \E s \in Sizes : ba_add_file(d, e, s)
               \/ \E found \in BOOLEAN : ba_add_dir(d, e, found)
        PROVE  InOwnList(x)'
    <3>1. /\ links' = bael_add(links, d, e) /\ parent_dir'[x] = parent_dir[x]
          /\ Unreferenced(links, e) /\ d \in Pointer
          /\ Terminates([links.next EXCEPT ![e] = NULL], links.head[d])
      <4>1. Fresh(e) /\ Insert(d, e) /\ Unreferenced(links, e) /\ d \in dirs \cup {NULL}
        BY <2>3, InsertStep
      <4>2. d \in alive \cup {NULL} /\ d \in Pointer
        BY <4>1, ShapeFacts DEF dirs
      <4>3. CanWalk(links, d, e)
        BY <2>0, <4>2, SoundWalk DEF ShapeInv
      <4> QED  BY <2>0, <4>1, <4>2, <4>3 DEF Insert, Fresh, TypeOK, CanWalk, Walkable
    <3>2. x \in Listed(bael_add(links, d, e), parent_dir[x])
      BY <2>0, <3>1, AddKeepsListed DEF TypeOK
    <3> QED  BY <3>1, <3>2 DEF InOwnList
  <2>4. ASSUME NEW l, Sound(l), NEW e \in alive, Unreferenced(l, e), Discard(l, e),
               x \in Listed(l, parent_dir[x])
        PROVE  InOwnList(x)'
    <3>1. x \in Listed(links', parent_dir[x])
      BY <2>0, <2>4, DiscardKeepsListed DEF Listed
    <3>2. parent_dir'[x] = parent_dir[x]
      BY <2>0, <2>4 DEF Discard
    <3> QED  BY <3>1, <3>2 DEF InOwnList
  <2>5. ASSUME NEW e \in Handles, ba_remove(e) PROVE InOwnList(x)'
    <3> DEFINE l == bael_remove(links, parent_dir[e], e)
    <3>1. /\ e \in alive /\ InOwnList(e) /\ Discard(l, e) /\ Sound(l) /\ Unreferenced(l, e)
      BY <2>5, RemoveStep
    <3>2. x # e
      BY <3>1 DEF Discard
    <3>3. x \in Listed(l, parent_dir[x])
      BY <2>0, <3>1, <3>2, UnlinkOutcome
    <3> HIDE DEF l
    <3> QED  BY <2>4, <3>1, <3>3
  <2>6. ASSUME NEW src \in Handles, NEW dest \in Handles, ba_move_into_dir(src, dest), x # src
        PROVE  InOwnList(x)'
    <3> DEFINE a == bael_add(bael_remove(links, parent_dir[src], src), dest, src)
    <3>1. /\ src \in alive /\ dest \in dirs /\ InOwnList(src) /\ dest \notin Sub(links, src)
          /\ links' = a /\ parent_dir' = parent_dir
      BY <2>6, MoveIntoDirStep
    <3>2. x \in Listed(a, parent_dir[x])
      BY <2>0, <2>6, <3>1, RelinkOutcome
    <3> QED  BY <3>1, <3>2 DEF InOwnList
  <2>7. ASSUME NEW src \in Handles, NEW dest \in Handles, ba_move_onto_file(src, dest), x # src
        PROVE  InOwnList(x)'
    <3> DEFINE into  == parent_dir[dest]
               added == bael_add(bael_remove(links, parent_dir[src], src), into, src)
               freed == bael_remove(added, into, dest)
    <3>1. /\ src \in alive /\ dest \in files /\ InOwnList(src)
          /\ into \in dirs \cup {NULL} /\ into \notin Sub(links, src)
      BY <2>7, MoveOntoFileStep
    <3>2. x \in Listed(added, parent_dir[x])
      BY <2>0, <2>7, <3>1, RelinkOutcome
    <3>3. CASE Fault("null_deref") \/ Fault("corrupt")
      BY <2>1, <3>3 DEF Fault
    <3>4. ASSUME /\ Discard(freed, dest) /\ Sound(freed) /\ Unreferenced(freed, dest)
                 /\ \A d \in Pointer : \A y \in Listed(added, d) \ {dest} : y \in Listed(freed, d)
          PROVE  InOwnList(x)'
      <4>1. x # dest /\ dest \in alive
        BY <3>1, <3>4 DEF Discard, ShapeInv, TypeOK
      <4>2. x \in Listed(freed, parent_dir[x])
        BY <2>0, <3>2, <3>4, <4>1
      <4> HIDE DEF freed
      <4> QED  BY <2>4, <3>4, <4>1, <4>2
    <3> QED  BY <2>7, <3>3, <3>4, MoveOntoFileStep
  <2>8. ASSUME NEW e, ba_get_file_contents(e) \/ \E s \in Sizes : ba_set_file_contents(e, s)
        PROVE  InOwnList(x)'
    <3>1. links' = links /\ parent_dir' = parent_dir
      BY <2>8 DEF ba_get_file_contents, ba_set_file_contents
    <3> QED  BY <2>1, <3>1
  <2>9. CASE ba_save \/ ba_close
    BY <2>1, <2>9, SaveCloseStep
  <2> QED  BY <2>0, <2>3, <2>5, <2>6, <2>7, <2>8, <2>9 DEF Next, Step
<1> HIDE DEF Kept
<1>2. Spec => [][Kept]_vars
  BY <1>0, <1>1, PTL DEF Spec
<1> QED  BY <1>2 DEF StaleOnlyByMove, Kept

(***************************************************************************)
(* The accounting of __data_size.  While the tree is the set of the live   *)
(* entries, the files in it are all the files there are.                   *)
(***************************************************************************)
FinitelyMany == IsFiniteSet(files)

LEMMA DriftOfFiles ==
    /\ ShapeInv => Drift = data_size - SizeSum(size, files)
    /\ ShapeInv' => Drift' = data_size' - SizeSum(size', files')
<1>1. /\ ShapeInv => Tree \cap files = files
      /\ ShapeInv' => Tree' \cap files' = files'
  BY DEF ShapeInv, TypeOK
<1> QED  BY <1>1 DEF Drift, Total

LEMMA FilesSizeable == ASSUME ShapeInv, FinitelyMany PROVE Sizeable(size, files)
BY DEF ShapeInv, TypeOK, FinitelyMany, Sizeable

LEMMA FinitelyManyNext ==
    ASSUME FinitelyMany, \/ files' \subseteq files
                         \/ \E e \in Entries : files' = files \cup {e}
    PROVE  FinitelyMany'
BY FS_AddElement, FS_Subset DEF FinitelyMany

LEMMA FinitelyManyInvariant ==
    ASSUME "stale" \notin Calls, "inside" \notin Calls
    PROVE  Spec => []FinitelyMany
<1>0. Spec => []ShapeInv
  BY ShapeInvariant
<1>1. Init => FinitelyMany
  BY FS_EmptySet DEF Init, FinitelyMany
<1>2. ShapeInv /\ FinitelyMany /\ [Next]_vars => FinitelyMany'
  <2> SUFFICES ASSUME ShapeInv, FinitelyMany, [Next]_vars
               PROVE  files' \subseteq files \/ \E e \in Entries : files' = files \cup {e}
    BY FinitelyManyNext
  <2>1. ASSUME NEW e \in Entries, NEW d \in (Handles \cap dirs) \cup {NULL},
               \/ \E s \in Sizes : ba_add_file(d, e, s)
               \/ \E found \in BOOLEAN : ba_add_dir(d, e, found)
        PROVE  files' = files \/ files' = files \cup {e}
    BY <2>1, InsertStep
  <2>2. ASSUME NEW e \in Handles, ba_remove(e) PROVE files' \subseteq files
    BY <2>2, RemoveStep DEF Discard
  <2>3. ASSUME NEW src \in Handles, NEW dest \in Handles, ba_move_into_dir(src, dest)
        PROVE  files' = files
    BY <2>3, MoveIntoDirStep DEF memory
  <2>4. ASSUME NEW src \in Handles, NEW dest \in Handles, ba_move_onto_file(src, dest)
        PROVE  files' \subseteq files
    BY <2>4, MoveOntoFileStep DEF Fault, memory, Discard
  <2>5. ASSUME NEW e, ba_get_file_contents(e) \/ \E s \in Sizes : ba_set_file_contents(e, s)
        PROVE  files' = files
    BY <2>5 DEF ba_get_file_contents, ba_set_file_contents
  <2>6. CASE ba_save \/ ba_close
    BY <2>6, SaveCloseStep DEF memory
  <2>7. CASE UNCHANGED vars
    BY <2>7 DEF vars, memory
  <2> QED  BY <2>1, <2>2, <2>3, <2>4, <2>5, <2>6, <2>7 DEF Next, Step
<1> QED  BY <1>0, <1>1, <1>2, PTL DEF Spec

LEMMA AddDrift ==
    ASSUME ShapeInv, ShapeInv', FinitelyMany, NoFault', NEW e \in Entries, NEW dir,
           \/ \E s \in Sizes : ba_add_file(dir, e, s)
           \/ \E found \in BOOLEAN : ba_add_dir(dir, e, found)
    PROVE  Drift' = Drift
<1>1. ~ Fault("corrupt")
  BY DEF Fault, NoFault
<1>2. CASE \E found \in BOOLEAN : ba_add_dir(dir, e, found)
  <2>1. UNCHANGED <<files, size, data_size>>
    BY <1>1, <1>2 DEF ba_add_dir
  <2> QED  BY <2>1, DriftOfFiles
<1>3. ASSUME NEW s \in Sizes, ba_add_file(dir, e, s) PROVE Drift' = Drift
  <2>1. /\ e \notin files /\ s \in Nat /\ size \in [Entries -> Nat] /\ data_size \in Int
        /\ files' = files \cup {e} /\ size' = [size EXCEPT ![e] = s] /\ data_size' = data_size + s
    BY <1>1, <1>3 DEF ba_add_file, Fresh, ShapeInv, TypeOK
  <2>2. Sizeable(size, files) /\ Sizeable(size', files)
    <3>1. files \subseteq Entries
      BY ShapeFacts
    <3> QED  BY <2>1, <3>1, FilesSizeable DEF Sizeable
  <2>3. SizeSum(size', files') = SizeSum(size', files) + s /\ SizeSum(size', files) \in Nat
    <3>1. size'[e] = s
      BY <2>1
    <3> QED  BY <2>1, <2>2, <3>1, SumMore
  <2>4. SizeSum(size', files) = SizeSum(size, files)
    <3>1. files \subseteq Entries
      BY ShapeFacts
    <3>2. \A f \in files : size'[f] = size[f]
      BY <2>1, <3>1
    <3> QED  BY <3>2, SumSame
  <2> QED  BY <2>1, <2>3, <2>4, DriftOfFiles
<1> QED  BY <1>2, <1>3

\* Files that are freed count no more; the others keep their sizes.
LEMMA DiscardSum ==
    ASSUME ShapeInv, FinitelyMany, NEW l, NEW e, Discard(l, e)
    PROVE  LET gone == ({e} \cup Below(l, e)) \cap files
           IN  /\ SizeSum(size', files') = SizeSum(size, files) - SizeSum(size, gone)
               /\ SizeSum(size, files) \in Nat /\ SizeSum(size, gone) \in Nat
<1> DEFINE gone == ({e} \cup Below(l, e)) \cap files
<1>1. files' = files \ gone /\ files \subseteq Entries
  BY ShapeFacts DEF Discard
<1>2. \A f \in files' : size'[f] = size[f]
  BY <1>1 DEF Discard
<1>3. SizeSum(size', files') = SizeSum(size, files')
  BY <1>2, SumSame
<1>4. /\ SizeSum(size, files \ gone) = SizeSum(size, files) - SizeSum(size, gone)
      /\ SizeSum(size, gone) \in Nat
  BY FilesSizeable, SumWithout
<1>5. SizeSum(size, files) \in Nat
  BY FilesSizeable, SumType
<1> QED  BY <1>1, <1>3, <1>4, <1>5

LEMMA RemoveDrift ==
    ASSUME ShapeInv, ShapeInv', FinitelyMany, "stale" \notin Calls,
           NEW e \in Handles, ba_remove(e)
    PROVE  \/ Drift' = Drift
           \/ e \in dirs /\ Drift' = Drift + Total(Below(links, e))
<1> DEFINE l    == bael_remove(links, parent_dir[e], e)
           gone == ({e} \cup Below(l, e)) \cap files
<1>1. /\ TypeOK /\ Sound(links) /\ data_size \in Int /\ size \in [Entries -> Nat]
      /\ e \in alive /\ e \in Entries
  BY ShapeFacts DEF ShapeInv, TypeOK, Handles
<1>2. Discard(l, e) /\ Sound(l) /\ Sub(l, e) = Sub(links, e) /\ Unreferenced(l, e) /\ InOwnList(e)
  BY <1>1, RemoveStep, UnlinkOutcome
<1>3. data_size' = data_size - Subtracted(e)
  <2>1. state' = state /\ state = "open"
    BY RemoveStep DEF ba_remove
  <2> QED  BY <2>1 DEF ba_remove, Fault
<1> HIDE DEF l
<1>4. /\ SizeSum(size', files') = SizeSum(size, files) - SizeSum(size, gone)
      /\ SizeSum(size, files) \in Nat /\ SizeSum(size, gone) \in Nat
  BY <1>2, DiscardSum
<1>5. CASE e \in files
  <2>1. gone = {e} /\ Subtracted(e) = size[e] /\ size[e] \in Nat
    BY <1>1, <1>5 DEF Below, Subtracted
  <2>2. SizeSum(size, gone) = size[e]
    BY <2>1, SumOne
  <2>3. Drift = data_size - SizeSum(size, files) /\ Drift' = data_size' - SizeSum(size', files')
    BY DriftOfFiles
  <2> HIDE DEF gone
  <2> QED  BY <1>1, <1>3, <1>4, <2>1, <2>2, <2>3
<1>6. CASE e \notin files
  <2>0. Subtracted(e) = 0
    BY <1>6 DEF Subtracted
  <2>1. {e} \cup Below(l, e) = {e} \cup Below(links, e)
    <3>1. Below(l, e) = Reach(l, l.head[e]) /\ Below(links, e) = Reach(links, links.head[e])
      BY <1>1, <1>2, BelowReach
    <3> QED  BY <1>2, <3>1 DEF Sub
  <2>2. SizeSum(size, gone) = Total(Below(links, e))
    <3>1. ({e} \cup Below(links, e)) \cap files = Below(links, e) \cap files
      BY <1>6
    <3> QED  BY <2>1, <3>1 DEF Total
  <2>3. Drift = data_size - SizeSum(size, files) /\ Drift' = data_size' - SizeSum(size', files')
    BY DriftOfFiles
  <2>4. e \in dirs
    BY <1>1, <1>6 DEF dirs
  <2> HIDE DEF gone
  <2> QED  BY <1>1, <1>3, <1>4, <2>0, <2>2, <2>3, <2>4
<1> QED  BY <1>5, <1>6

LEMMA ReplaceDrift ==
    ASSUME ShapeInv, ShapeInv', FinitelyMany, NoFault', "stale" \notin Calls, "inside" \notin Calls,
           NEW src \in Handles, NEW dest \in Handles, ba_move_onto_file(src, dest)
    PROVE  src \in files /\ dest \in files /\ Drift' = Drift + size[src]
<1> DEFINE into  == parent_dir[dest]
           l     == bael_remove(links, parent_dir[src], src)
           added == bael_add(l, into, src)
           freed == bael_remove(added, into, dest)
<1>1. \A how \in {"null_deref", "corrupt"} : ~ Fault(how)
  BY DEF Fault, NoFault
<1>2. /\ data_size \in Int /\ size[src] \in Nat /\ size[dest] \in Nat
      /\ src \in alive /\ dest \in files
  BY MoveOntoFileStep, ShapeFacts DEF ShapeInv, TypeOK
<1>3. Discard(freed, dest)
  BY <1>1, MoveOntoFileStep
<1>4. ba_add_outcome(l, into, src) \in {"null_deref", "corrupt", "open"}
  BY DEF ba_add_outcome
<1>5. ba_add_outcome(l, into, src) = "open" => src \notin dirs
  BY DEF ba_add_outcome
<1>6. ba_add_outcome(l, into, src) = "open" /\ data_size' = data_size + size[src] - size[dest]
  <2> HIDE DEF into, l, added, freed
  <2> QED  BY <1>1, <1>4 DEF ba_move_onto_file, into, l, added, freed
<1>7. src \in files
  BY <1>2, <1>5, <1>6 DEF dirs
<1> HIDE DEF freed
<1>8. /\ SizeSum(size', files') = SizeSum(size, files) - SizeSum(size, {dest})
      /\ SizeSum(size, files) \in Nat
  <2>1. ({dest} \cup Below(freed, dest)) \cap files = {dest}
    BY <1>2 DEF Below
  <2> QED  BY <1>3, <2>1, DiscardSum
<1>9. SizeSum(size, {dest}) = size[dest]
  BY <1>2, SumOne
<1>10. Drift = data_size - SizeSum(size, files) /\ Drift' = data_size' - SizeSum(size', files')
  BY DriftOfFiles
<1> QED  BY <1>2, <1>6, <1>7, <1>8, <1>9, <1>10

LEMMA ContentsDrift ==
    ASSUME ShapeInv, ShapeInv', FinitelyMany, NEW f \in files, NEW s \in Sizes,
           ba_set_file_contents(f, s)
    PROVE  Drift' = Drift + size[f] - s
<1>1. /\ files' = files /\ data_size' = data_size /\ size' = [size EXCEPT ![f] = s]
      /\ files \subseteq Entries /\ size \in [Entries -> Nat] /\ s \in Nat /\ data_size \in Int
  BY ShapeFacts DEF ba_set_file_contents, ShapeInv, TypeOK
<1> DEFINE rest == files \ {f}
<1>2. /\ rest \subseteq files /\ f \notin rest /\ files = rest \cup {f}
      /\ size'[f] = s /\ size[f] \in Nat /\ \A x \in rest : size'[x] = size[x]
  BY <1>1
<1>3. Sizeable(size, rest) /\ Sizeable(size', rest)
  <2>1. IsFiniteSet(rest)
    BY <1>2, FS_Subset DEF FinitelyMany
  <2> QED  BY <1>1, <1>2, <2>1 DEF Sizeable
<1> HIDE DEF rest
<1>4. SizeSum(size, files) = SizeSum(size, rest) + size[f] /\ SizeSum(size, rest) \in Nat
  BY <1>2, <1>3, SumMore
<1>5. SizeSum(size', files) = SizeSum(size', rest) + s
  BY <1>2, <1>3, SumMore
<1>6. SizeSum(size', rest) = SizeSum(size, rest)
  BY <1>2, SumSame
<1>7. Drift = data_size - SizeSum(size, files) /\ Drift' = data_size' - SizeSum(size', files')
  BY DriftOfFiles
<1> QED  BY <1>1, <1>2, <1>4, <1>5, <1>6, <1>7

LEMMA SaveCloseDrift ==
    ASSUME ShapeInv, ShapeInv', FinitelyMany, NoFault', ba_save \/ ba_close
    PROVE  Drift' = 0
<1>1. ~ Fault("corrupt")
  BY DEF Fault, NoFault
<1>2. Drift' = data_size' - SizeSum(size', files')
  BY DriftOfFiles
<1>3. CASE ba_save
  <2>1. data_size' = SizeSum(size, files) /\ size' = size /\ files' = files
    <3>1. Tree \cap files = files
      BY DEF ShapeInv, TypeOK
    <3> QED  BY <1>1, <1>3, <3>1 DEF ba_save, memory, Total
  <2>2. SizeSum(size, files) \in Nat
    BY FilesSizeable, SumType
  <2> QED  BY <1>2, <2>1, <2>2
<1>4. CASE ba_close
  <2>1. data_size' = 0 /\ files' = {}
    BY <1>1, <1>4 DEF ba_close, ShapeInv, TypeOK
  <2> QED  BY <1>2, <2>1, SumNone
<1> QED  BY <1>3, <1>4

\* __data_size goes wrong in no other way than these three: what was below a removed
\* directory is not subtracted, contents that are set do not count, a file that is
\* moved onto another counts twice.  Saving and closing put it right.
THEOREM DriftIsExplained ==
    ASSUME "stale" \notin Calls, "inside" \notin Calls
    PROVE  Spec => DriftExplained
<1> DEFINE Explained ==
        NoFault' =>
         \/ Drift' = Drift
         \/ (ba_save \/ ba_close) /\ Drift' = 0
         \/ \E d \in dirs : ba_remove(d) /\ Drift' = Drift + Total(Below(links, d))
         \/ \E f \in files, s \in Sizes :
              ba_set_file_contents(f, s) /\ Drift' = Drift + size[f] - s
         \/ \E src \in files, dest \in files :
              ba_move_onto_file(src, dest) /\ Drift' = Drift + size[src]
<1>0. Spec => []ShapeInv
  BY ShapeInvariant
<1>1. Spec => []FinitelyMany
  BY FinitelyManyInvariant
<1>2. ShapeInv /\ ShapeInv' /\ FinitelyMany /\ [Next]_vars => [Explained]_vars
  <2> SUFFICES ASSUME ShapeInv, ShapeInv', FinitelyMany, NoFault', Next PROVE Explained
    OBVIOUS
  <2>1. ASSUME NEW e \in Entries, NEW d \in (Handles \cap dirs) \cup {NULL},
               \/ \E s \in Sizes : ba_add_file(d, e, s)
               \/ \E found \in BOOLEAN : ba_add_dir(d, e, found)
        PROVE  Drift' = Drift
    BY <2>1, AddDrift
  <2>2. ASSUME NEW e \in Handles \cap files,
               ba_get_file_contents(e) \/ \E s \in Sizes : ba_set_file_contents(e, s)
        PROVE  \/ Drift' = Drift
               \/ \E f \in files, s \in Sizes : ba_set_file_contents(f, s) /\ Drift' = Drift + size[f] - s
    <3>1. CASE ba_get_file_contents(e)
      <4>1. UNCHANGED <<files, size, data_size>>
        BY <3>1 DEF ba_get_file_contents
      <4> QED  BY <4>1, DriftOfFiles
    <3>2. ASSUME NEW s \in Sizes, ba_set_file_contents(e, s) PROVE Drift' = Drift + size[e] - s
      BY <3>2, ContentsDrift
    <3> QED  BY <2>2, <3>1, <3>2
  <2>3. ASSUME NEW e \in Handles, ba_remove(e)
        PROVE  \/ Drift' = Drift
               \/ \E d \in dirs : ba_remove(d) /\ Drift' = Drift + Total(Below(links, d))
    BY <2>3, RemoveDrift
  <2>4. ASSUME NEW src \in Handles, NEW dest \in Handles, ba_move_into_dir(src, dest)
        PROVE  Drift' = Drift
    <3>1. files' = files /\ size' = size /\ data_size' = data_size
      BY <2>4, MoveIntoDirStep DEF memory
    <3> QED  BY <3>1, DriftOfFiles
  <2>5. ASSUME NEW src \in Handles, NEW dest \in Handles, ba_move_onto_file(src, dest)
        PROVE  \E s \in files, d \in files : ba_move_onto_file(s, d) /\ Drift' = Drift + size[s]
    BY <2>5, ReplaceDrift
  <2>6. CASE ba_save \/ ba_close
    BY <2>6, SaveCloseDrift
  <2> HIDE DEF Drift, Total
  <2> QED  BY <2>1, <2>2, <2>3, <2>4, <2>5, <2>6 DEF Next, Step
<1> HIDE DEF Explained
<1>3. Spec => [][Explained]_vars
  BY <1>0, <1>1, <1>2, PTL DEF Spec
<1> QED  BY <1>3 DEF DriftExplained, Explained

(***************************************************************************)
(* The pointers implement the abstract directory tree, for clients that    *)
(* move each entry once and none into itself.                              *)
(***************************************************************************)
\* The map of the abstract tree.
where == [e \in Tree |-> Place(e)]

LEMMA WherePlaces == where = Places(links)
BY DEF where, Places, Place, Tree, FromRoot

LEMMA WherePlacesNext == where' = Places(links')
BY DEF where, Places, Place, Tree, FromRoot

(***************************************************************************)
(* What is below an entry is the same in both trees: going from an entry   *)
(* down the pointers, or from an entry up the directories.                 *)
(***************************************************************************)
LEMMA UnderIsSub ==
    ASSUME NEW l \in Links, Single(l), NEW e \in FromRoot(l)
    PROVE  Abstract!Under(Places(l), e) = Sub(l, e)
<1> DEFINE T == FromRoot(l)
           w == Places(l)
           B == Reach(l, l.head[e])
           U == Abstract!Under(w, e)
<1>1. /\ DOMAIN w = T /\ T \subseteq Entries /\ NULL \notin T
      /\ \A x \in T : /\ w[x] \in T \cup {NULL}
                      /\ x \in Listed(l, w[x])
                      /\ \A d \in Pointer : x \in Listed(l, d) => w[x] = d
  BY PlacesFacts
<1>2. /\ e \in Entries /\ e \in Pointer /\ NULL \in Pointer
      /\ l.head[e] \in Pointer /\ l.head[NULL] \in Pointer
  BY <1>1 DEF Links, Pointer
<1>3. /\ B \subseteq Entries /\ l.head[e] \in B \cup {NULL}
      /\ \A p \in B : l.next[p] \in B \cup {NULL} /\ l.head[p] \in B \cup {NULL}
  BY <1>2, ReachClosed
<1>4. \A p \in T : l.next[p] \in T \cup {NULL} /\ l.head[p] \in T \cup {NULL}
  BY <1>2, ReachClosed DEF FromRoot
<1>5. B \subseteq T
  BY <1>1, <1>4, ReachLeast
<1>6. ASSUME NEW d \in {e} \cup B
      PROVE  /\ Listed(l, d) \subseteq B
             /\ d \in Pointer
             /\ l.head[d] \in Listed(l, d) \cup {NULL}
  <2>1. d \in Pointer
    BY <1>2, <1>3 DEF Pointer
  <2>2. Listed(l, d) \in ClosedSets(l.next, l.head[d])
    BY <2>1, ChainClosed DEF Listed, Links
  <2>3. Listed(l, d) \subseteq B
    BY <1>2, <2>1, ListedBelow
  <2> QED  BY <2>1, <2>2, <2>3 DEF ClosedSets
<1> HIDE DEF w, T, B
<1>7. U \subseteq {e} \cup B
  <2>1. /\ {e} \cup B \in SUBSET DOMAIN w
        /\ \A x \in DOMAIN w : w[x] \in {e} \cup B => x \in {e} \cup B
    BY <1>1, <1>5, <1>6 DEF T
  <2> QED  BY <2>1 DEF Abstract!Under
<1>8. ASSUME NEW S \in SUBSET DOMAIN w, e \in S, \A x \in DOMAIN w : w[x] \in S => x \in S
      PROVE  {e} \cup B \subseteq S
  <2> DEFINE Z == {x \in B : x \in S /\ w[x] \in S}
  <2>1. Z \in SUBSET Entries
    BY <1>3
  <2>2. l.head[e] \in Z \cup {NULL}
    BY <1>1, <1>3, <1>5, <1>6, <1>8
  <2>3. ASSUME NEW p \in Z PROVE l.next[p] \in Z \cup {NULL} /\ l.head[p] \in Z \cup {NULL}
    <3>1. p \in B /\ p \in T /\ p \in S /\ w[p] \in S
      BY <1>5
    <3>2. l.head[p] \in Z \cup {NULL}
      BY <1>1, <1>3, <1>5, <1>6, <1>8, <3>1
    <3>3. w[p] \in Pointer /\ Listed(l, w[p]) \in ClosedSets(l.next, l.head[w[p]])
      <4>1. w[p] \in Pointer
        BY <1>1, <3>1 DEF Pointer
      <4> QED  BY <4>1, ChainClosed DEF Listed, Links
    <3>4. l.next[p] \in Listed(l, w[p]) \cup {NULL}
      BY <1>1, <3>1, <3>3 DEF ClosedSets
    <3>5. l.next[p] \in Z \cup {NULL}
      BY <1>1, <1>3, <1>5, <1>8, <3>1, <3>3, <3>4
    <3> QED  BY <3>2, <3>5
  <2> HIDE DEF Z
  <2>4. B \subseteq Z
    BY <2>1, <2>2, <2>3, ReachLeast DEF B
  <2> QED  BY <1>8, <2>4 DEF Z
<1>9. {e} \cup B \subseteq U
  BY <1>1, <1>5, <1>8 DEF Abstract!Under, T
<1> QED  BY <1>7, <1>9 DEF w, B, Sub

(***************************************************************************)
(* The steps.                                                              *)
(***************************************************************************)
LEMMA WhereFacts ==
    ASSUME ShapeInv
    PROVE  /\ DOMAIN where = alive /\ Abstract!Present = alive
           /\ where = [x \in alive |-> where[x]]
           /\ \A x \in alive : /\ where[x] \in alive \cup {NULL} /\ where[x] \in Pointer
                               /\ x \in Listed(links, where[x])
                               /\ InOwnList(x) => where[x] = parent_dir[x]
           /\ \A e \in alive : Abstract!Under(where, e) = Sub(links, e)
<1>1. links \in Links /\ Single(links) /\ FromRoot(links) = alive /\ alive \subseteq Entries
  BY ShapeFacts DEF ShapeInv, Sound
<1>2. /\ DOMAIN where = alive /\ where = [x \in alive |-> where[x]]
      /\ \A x \in alive : /\ where[x] \in alive \cup {NULL}
                          /\ x \in Listed(links, where[x])
                          /\ \A d \in Pointer : x \in Listed(links, d) => where[x] = d
      /\ \A e \in alive : Abstract!Under(where, e) = Sub(links, e)
  BY <1>1, WherePlaces, PlacesFacts, UnderIsSub
<1>3. Abstract!Present = DOMAIN where
  BY DEF Abstract!Present, where
<1>4. \A x \in alive : parent_dir[x] \in Pointer /\ where[x] \in Pointer
  BY <1>1, <1>2 DEF ShapeInv, TypeOK, Pointer
<1> QED  BY <1>2, <1>3, <1>4 DEF InOwnList

\* The next state's map is known when the lists of all entries are.
LEMMA NextWhere ==
    ASSUME Sound(links)', Tree' = alive', NEW w, w = [x \in alive' |-> w[x]],
           \A x \in alive' : w[x] \in Pointer /\ x \in Listed(links', w[x])
    PROVE  where' = w
<1>1. links' \in Links /\ Single(links') /\ FromRoot(links') = alive'
  BY DEF Sound, Single, Unshared, Tree, FromRoot
<1> HIDE DEF where
<1>2. /\ where' = [x \in alive' |-> where'[x]]
      /\ \A x \in alive' : \A d \in Pointer : x \in Listed(links', d) => where'[x] = d
  BY <1>1, PlacesFacts, WherePlacesNext
<1> QED  BY <1>2

LEMMA AddRefines ==
    ASSUME ShapeInv, NEW e \in Entries, NEW dir \in (Handles \cap dirs) \cup {NULL},
           \/ \E s \in Sizes : ba_add_file(dir, e, s)
           \/ \E found \in BOOLEAN : ba_add_dir(dir, e, found)
    PROVE  Abstract!Add(e, dir) /\ dir \in Abstract!Present \cup {NULL}
<1> DEFINE w == Abstract!Placed(where, e, dir)
<1>1. /\ e \notin alive /\ links' = bael_add(links, dir, e) /\ alive' = alive \cup {e}
      /\ dir \in alive \cup {NULL} /\ dir \in Pointer
      /\ Unreferenced(links, e) /\ Terminates(links.next, links.head[dir])
      /\ links \in Links /\ Sound(links)' /\ Tree' = alive'
  <2>1. /\ Fresh(e) /\ Insert(dir, e) /\ dir \in dirs \cup {NULL} /\ Unreferenced(links, e)
        /\ AllEnd(links) /\ Sound(links)' /\ Tree' = alive'
    BY InsertStep
  <2>2. dir \in alive \cup {NULL} /\ dir \in Pointer
    BY <2>1, ShapeFacts DEF dirs
  <2> QED  BY <2>1, <2>2 DEF Fresh, Insert, AllEnd, ShapeInv, Sound
<1>2. Terminates([links.next EXCEPT ![e] = NULL], links.head[dir])
  BY <1>1, CutEnds DEF Links
<1>3. w = [x \in alive' |-> IF x = e THEN dir ELSE where[x]]
  BY <1>1, WhereFacts DEF Abstract!Placed
<1>4. ASSUME NEW x \in alive' PROVE w[x] \in Pointer /\ x \in Listed(links', w[x])
  <2>1. CASE x = e
    BY <1>1, <1>3, <2>1, AddListed
  <2>2. CASE x # e
    <3>1. x \in alive /\ w[x] = where[x]
      BY <1>1, <1>3, <2>2
    <3>2. where[x] \in Pointer /\ x \in Listed(links, where[x])
      BY <3>1, WhereFacts
    <3> QED  BY <1>1, <1>2, <3>1, <3>2, AddKeepsListed
  <2> QED  BY <2>1, <2>2
<1> HIDE DEF w
<1>5. where' = w
  BY <1>1, <1>3, <1>4, NextWhere
<1> QED  BY <1>1, <1>5, WhereFacts DEF w, Abstract!Add, where

LEMMA RemoveRefines ==
    ASSUME ShapeInv, "stale" \notin Calls, NEW e \in Handles, ba_remove(e)
    PROVE  Abstract!Remove(e) /\ e \in Abstract!Present
<1> DEFINE l == bael_remove(links, parent_dir[e], e)
           w == Abstract!Without(where, Abstract!Under(where, e))
<1>1. /\ e \in alive /\ InOwnList(e) /\ Discard(l, e) /\ Sound(l) /\ Unreferenced(l, e)
      /\ Sound(links)' /\ Tree' = alive'
  BY RemoveStep
<1>2. /\ Sub(l, e) = Sub(links, e)
      /\ \A d \in Pointer : \A x \in Listed(links, d) \ {e} : x \in Listed(l, d)
  BY <1>1, UnlinkOutcome
<1>3. TypeOK /\ alive' = alive \ Sub(links, e)
  BY <1>1, <1>2, BelowReach DEF ShapeInv, Discard, Sub
<1> HIDE DEF l
<1>4. w = [x \in alive' |-> where[x]]
  BY <1>1, <1>3, WhereFacts DEF Abstract!Without
<1>5. ASSUME NEW x \in alive' PROVE w[x] \in Pointer /\ x \in Listed(links', w[x])
  <2>1. x \in alive /\ x # e
    BY <1>3 DEF Sub
  <2>2. w[x] \in Pointer /\ x \in Listed(links, w[x])
    BY <1>4, <2>1, WhereFacts
  <2>3. x \in Listed(l, w[x])
    BY <1>2, <2>1, <2>2
  <2> QED  BY <1>1, <1>3, <2>2, <2>3, DiscardKeepsListed DEF Listed
<1> HIDE DEF w
<1>6. where' = w
  BY <1>1, <1>4, <1>5, NextWhere
<1> QED  BY <1>1, <1>6, WhereFacts DEF w, Abstract!Remove, where

LEMMA MoveRefines ==
    ASSUME ShapeInv, "stale" \notin Calls, "inside" \notin Calls,
           NEW src \in Handles, NEW dest \in Handles, ba_move_into_dir(src, dest)
    PROVE  Abstract!Move(src, dest) /\ src \in Abstract!Present /\ dest \in Abstract!Present
<1> DEFINE w == Abstract!Placed(where, src, dest)
<1>1. /\ src \in alive /\ dest \in dirs /\ InOwnList(src) /\ dest \notin Sub(links, src)
      /\ links' = bael_add(bael_remove(links, parent_dir[src], src), dest, src)
      /\ alive' = alive /\ Sound(links)' /\ Tree' = alive'
  BY MoveIntoDirStep DEF memory
<1>2. dest \in alive /\ dest \in Pointer
  BY <1>1, ShapeFacts DEF dirs
<1>3. /\ src \in Listed(links', dest)
      /\ \A d \in Pointer : \A x \in Listed(links, d) \ {src} : x \in Listed(links', d)
  BY <1>1, RelinkOutcome
<1>4. w = [x \in alive' |-> IF x = src THEN dest ELSE where[x]]
  BY <1>1, WhereFacts DEF Abstract!Placed
<1>5. ASSUME NEW x \in alive' PROVE w[x] \in Pointer /\ x \in Listed(links', w[x])
  BY <1>1, <1>2, <1>3, <1>4, WhereFacts
<1> HIDE DEF w
<1>6. where' = w
  BY <1>1, <1>4, <1>5, NextWhere
<1>7. dest \notin Abstract!Under(where, src)
  BY <1>1, WhereFacts
<1> QED  BY <1>1, <1>2, <1>6, <1>7, WhereFacts DEF w, Abstract!Move, where

LEMMA ReplaceRefines ==
    ASSUME ShapeInv, "stale" \notin Calls, "inside" \notin Calls,
           NEW src \in Handles, NEW dest \in Handles, ba_move_onto_file(src, dest)
    PROVE  \/ Abstract!Replace(src, dest) /\ src \in Abstract!Present /\ dest \in Abstract!Present
           \/ links' = links
<1> DEFINE into  == parent_dir[dest]
           added == bael_add(bael_remove(links, parent_dir[src], src), into, src)
           freed == bael_remove(added, into, dest)
           w == Abstract!Without(Abstract!Placed(where, src, where[dest]), {dest})
<1>1. /\ src \in alive /\ dest \in files /\ dest \in alive /\ src # dest
      /\ InOwnList(src) /\ InOwnList(dest) /\ TypeOK
      /\ into \in dirs \cup {NULL} /\ into \notin Sub(links, src) /\ dest \notin Sub(links, src)
  BY MoveOntoFileStep DEF ShapeInv, TypeOK
<1>2. /\ into \in Pointer /\ src \in Listed(added, into)
      /\ \A d \in Pointer : \A x \in Listed(links, d) \ {src} : x \in Listed(added, d)
  BY <1>1, RelinkOutcome, ShapeFacts
<1>3. CASE Fault("null_deref") \/ Fault("corrupt")
  BY <1>3 DEF Fault
<1>4. ASSUME /\ Discard(freed, dest) /\ Sound(freed) /\ Unreferenced(freed, dest)
             /\ \A d \in Pointer : \A x \in Listed(added, d) \ {dest} : x \in Listed(freed, d)
             /\ Sound(links)' /\ Tree' = alive'
      PROVE  Abstract!Replace(src, dest) /\ src \in Abstract!Present /\ dest \in Abstract!Present
  <2> HIDE DEF added, freed
  <2>1. alive' = alive \ {dest}
    BY <1>1, <1>4 DEF Discard, Below
  <2>2. w = [x \in alive' |-> IF x = src THEN into ELSE where[x]]
    <3>1. where[dest] = into
      BY <1>1, WhereFacts
    <3> QED  BY <1>1, <2>1, <3>1, WhereFacts DEF Abstract!Without, Abstract!Placed
  <2>3. ASSUME NEW x \in alive' PROVE w[x] \in Pointer /\ x \in Listed(links', w[x])
    <3>1. x \in alive /\ x # dest
      BY <2>1
    <3>2. w[x] \in Pointer /\ x \in Listed(added, w[x])
      BY <1>2, <2>2, <3>1, WhereFacts
    <3>3. x \in Listed(freed, w[x])
      BY <1>4, <3>1, <3>2
    <3> QED  BY <1>1, <1>4, <3>2, <3>3, DiscardKeepsListed DEF Listed
  <2> HIDE DEF w
  <2>4. where' = w
    BY <1>4, <2>2, <2>3, NextWhere
  <2>5. dest \notin Abstract!Under(where, src)
    BY <1>1, WhereFacts
  <2> QED  BY <1>1, <2>4, <2>5, WhereFacts DEF w, Abstract!Replace, where
<1> QED  BY <1>3, <1>4, MoveOntoFileStep

LEMMA CloseRefines ==
    ASSUME ShapeInv, ba_save \/ ba_close
    PROVE  Abstract!Close \/ links' = links
<1>1. CASE links' = NoLinks
  <2>1. Tree' = {}
    BY <1>1, NoLinksFacts DEF Tree, FromRoot
  <2> QED  BY <2>1 DEF Abstract!Close
<1> QED  BY <1>1, SaveCloseStep

LEMMA StepRefines ==
    ASSUME "stale" \notin Calls, "inside" \notin Calls, ShapeInv, [Next]_vars
    PROVE  [Abstract!Next]_where
<1>0. ASSUME links' = links PROVE where' = where
  BY <1>0, WherePlaces, WherePlacesNext
<1> USE DEF Abstract!Next
<1>1. ASSUME NEW e \in Entries, NEW d \in (Handles \cap dirs) \cup {NULL},
             \/ \E s \in Sizes : ba_add_file(d, e, s)
             \/ \E found \in BOOLEAN : ba_add_dir(d, e, found)
      PROVE  Abstract!Next
  BY <1>1, AddRefines
<1>2. ASSUME NEW e \in Handles, ba_remove(e) PROVE Abstract!Next
  BY <1>2, RemoveRefines
<1>3. ASSUME NEW src \in Handles, NEW dest \in Handles, ba_move_into_dir(src, dest)
      PROVE  Abstract!Next
  BY <1>3, MoveRefines
<1>4. ASSUME NEW src \in Handles, NEW dest \in Handles, ba_move_onto_file(src, dest)
      PROVE  Abstract!Next \/ links' = links
  BY <1>4, ReplaceRefines
<1>5. ASSUME NEW e, ba_get_file_contents(e) \/ \E s \in Sizes : ba_set_file_contents(e, s)
      PROVE  links' = links
  BY <1>5 DEF ba_get_file_contents, ba_set_file_contents
<1>6. CASE ba_save \/ ba_close
  BY <1>0, <1>6, CloseRefines
<1>7. CASE UNCHANGED vars
  BY <1>0, <1>7 DEF vars
<1> HIDE DEF Abstract!Next, where
<1> QED  BY <1>0, <1>1, <1>2, <1>3, <1>4, <1>5, <1>6, <1>7 DEF Next, Step

\* What a client sees is the abstract directory tree: every call is one step of it,
\* or changes nothing that is seen, whatever pointers it goes through.
THEOREM TreeImplementsDirTree ==
    ASSUME "stale" \notin Calls, "inside" \notin Calls
    PROVE  Spec => ImplementsDirTree
<1>0. Spec => []ShapeInv
  BY ShapeInvariant
<1>1. Init => Abstract!Init
  <2>1. ASSUME Init PROVE Tree = {}
    BY <2>1, ShapeInit DEF Init
  <2> QED  BY <2>1 DEF Abstract!Init
<1>2. ShapeInv /\ [Next]_vars => [Abstract!Next]_([e \in Tree |-> Place(e)])
  BY StepRefines DEF where
<1> QED  BY <1>0, <1>1, <1>2, PTL DEF Spec, ImplementsDirTree, Abstract!Spec
=============================================================================
