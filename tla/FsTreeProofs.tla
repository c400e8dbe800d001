----------------------------- MODULE FsTreeProofs -----------------------------
(***************************************************************************)
(* What ba_load_fs_tree() makes of a directory, for any filesystem and any *)
(* number of changes to it meanwhile.                                      *)
(***************************************************************************)
EXTENDS FsTree, SizeSumProofs, SequenceTheorems, FiniteSetTheorems, TLAPS

(***************************************************************************)
(* Places.                                                                 *)
(***************************************************************************)
LEMMA OneOrMore == \A n \in Nat : n >= 1 => (n = 1 \/ n > 1) /\ (n > 1 => n # 1)
OBVIOUS

LEMMA Beginning ==
    ASSUME NEW S, NEW s \in Seq(S), NEW l \in Nat, l <= Len(s)
    PROVE  /\ SubSeq(s, 1, l) \in Seq(S) /\ Len(SubSeq(s, 1, l)) = l
           /\ \A i \in 1 .. l : SubSeq(s, 1, l)[i] = s[i]
<1>1. Len(s) \in Nat /\ \A i \in 1 .. l : s[i] \in S
  BY LenProperties, ElementOfSeq
<1>2. /\ SubSeq(s, 1, l) \in Seq(S)
      /\ Len(SubSeq(s, 1, l)) = IF 1 <= l THEN l - 1 + 1 ELSE 0
      /\ \A i \in 1 .. l - 1 + 1 : SubSeq(s, 1, l)[i] = s[1 + i - 1]
  BY <1>1, SubSeqProperties
<1> QED  BY <1>2

LEMMA FrontOf ==
    ASSUME NEW S, NEW s \in Seq(S), Len(s) >= 1
    PROVE  /\ Front(s) \in Seq(S) /\ Len(Front(s)) = Len(s) - 1
           /\ \A i \in 1 .. Len(s) - 1 : Front(s)[i] = s[i]
<1>1. Len(s) - 1 \in Nat /\ Len(s) - 1 <= Len(s)
  BY LenProperties
<1> QED  BY <1>1, Beginning DEF Front

LEMMA PlaceSeq == \A p \in Places : p \in Seq(Names) /\ Len(p) \in Nat
BY FsAssumption, LenProperties

LEMMA PlaceClosed ==
    ASSUME NEW p \in Places, NEW l \in 0 .. Len(p)
    PROVE  SubSeq(p, 1, l) \in Places
<1>1. SubSeq(p, 1, l) \in Prefixes(p)
  BY DEF Prefixes
<1> QED  BY <1>1, FsAssumption

\* A place other than the root is in a directory.
LEMMA FrontIsPlace ==
    ASSUME NEW p \in Places \ {Root}
    PROVE  /\ Len(p) >= 1 /\ Len(Front(p)) = Len(p) - 1 /\ Front(p) \in Places
           /\ Last(p) \in Names /\ Append(Front(p), Last(p)) = p
<1>1. p \in Seq(Names) /\ Len(p) \in Nat
  BY PlaceSeq
<1>2. Len(p) >= 1
  BY <1>1, EmptySeq DEF Root
<1>3. /\ Front(p) \in Seq(Names) /\ Len(Front(p)) = Len(p) - 1
      /\ \A i \in 1 .. Len(p) - 1 : Front(p)[i] = p[i]
  BY <1>1, <1>2, FrontOf
<1>4. Front(p) \in Places
  BY <1>1, <1>2, PlaceClosed DEF Front
<1>5. Last(p) \in Names
  BY <1>1, <1>2, ElementOfSeq DEF Last
<1>6. Append(Front(p), Last(p)) = p
  <2>1. /\ Append(Front(p), Last(p)) \in Seq(Names)
        /\ Len(Append(Front(p), Last(p))) = Len(p)
        /\ \A i \in 1 .. Len(p) - 1 : Append(Front(p), Last(p))[i] = p[i]
        /\ Append(Front(p), Last(p))[Len(p)] = Last(p)
    BY <1>1, <1>2, <1>3, <1>5, AppendProperties
  <2>2. \A i \in 1 .. Len(p) : Append(Front(p), Last(p))[i] = p[i]
    BY <1>1, <2>1 DEF Last
  <2> QED  BY <1>1, <2>1, <2>2, SeqEqual
<1> QED  BY <1>2, <1>3, <1>4, <1>5, <1>6

LEMMA AppendIsPlace ==
    ASSUME NEW d \in Places, NEW n \in Names
    PROVE  /\ Append(d, n) # Root /\ Len(Append(d, n)) = Len(d) + 1
           /\ Front(Append(d, n)) = d /\ Last(Append(d, n)) = n
<1> DEFINE c == Append(d, n)
<1>1. d \in Seq(Names) /\ Len(d) \in Nat
  BY PlaceSeq
<1>2. /\ c \in Seq(Names) /\ Len(c) = Len(d) + 1 /\ c[Len(d) + 1] = n
      /\ \A i \in 1 .. Len(d) : c[i] = d[i]
  BY <1>1, AppendProperties
<1>3. c # Root
  BY <1>1, <1>2, EmptySeq DEF Root
<1>4. /\ Front(c) \in Seq(Names) /\ Len(Front(c)) = Len(d)
      /\ \A i \in 1 .. Len(d) : Front(c)[i] = c[i]
  <2>1. Len(c) >= 1 /\ Len(c) - 1 = Len(d)
    BY <1>1, <1>2
  <2> QED  BY <1>2, <2>1, FrontOf
<1>5. Front(c) = d
  BY <1>1, <1>2, <1>4, SeqEqual
<1>6. Last(c) = n
  BY <1>2 DEF Last
<1> HIDE DEF c
<1>7. c # Root /\ Len(c) = Len(d) + 1 /\ Front(c) = d /\ Last(c) = n
  BY <1>2, <1>3, <1>5, <1>6
<1> QED  BY <1>7 DEF c

LEMMA RootIsPlace == Root \in Places /\ Len(Root) = 0
BY FsAssumption, EmptySeq DEF Root

\* The prefixes of a place.
LEMMA PrefixIs ==
    ASSUME NEW p \in Places, NEW q
    PROVE  q \in Prefixes(p) <=>
              q \in Places /\ Len(q) <= Len(p) /\ \A i \in 1 .. Len(q) : q[i] = p[i]
<1>1. p \in Seq(Names) /\ Len(p) \in Nat
  BY PlaceSeq
<1>2. ASSUME NEW l \in 0 .. Len(p)
      PROVE  /\ SubSeq(p, 1, l) \in Seq(Names) /\ Len(SubSeq(p, 1, l)) = l
             /\ \A i \in 1 .. l : SubSeq(p, 1, l)[i] = p[i]
  BY <1>1, Beginning
<1>3. ASSUME q \in Prefixes(p)
      PROVE  q \in Places /\ Len(q) <= Len(p) /\ \A i \in 1 .. Len(q) : q[i] = p[i]
  <2>1. PICK l \in 0 .. Len(p) : q = SubSeq(p, 1, l)
    BY <1>3 DEF Prefixes
  <2>2. l <= Len(p) /\ q \in Places
    BY <1>1, <2>1, PlaceClosed
  <2> QED  BY <1>2, <2>1, <2>2
<1>4. ASSUME q \in Places, Len(q) <= Len(p), \A i \in 1 .. Len(q) : q[i] = p[i]
      PROVE  q \in Prefixes(p)
  <2>1. q \in Seq(Names) /\ Len(q) \in 0 .. Len(p)
    BY <1>1, <1>4, PlaceSeq, LenProperties
  <2>2. q = SubSeq(p, 1, Len(q))
    BY <1>2, <1>4, <2>1, SeqEqual
  <2> QED  BY <2>1, <2>2 DEF Prefixes
<1> QED  BY <1>3, <1>4

\* In the terms of the proofs below: the places above p form a chain of children.
LEMMA AboveFacts ==
    ASSUME NEW p \in Places
    PROVE  /\ Above(p) \subseteq Places \ {Root}
           /\ Prefixes(p) = Above(p) \cup {Root}
           /\ p # Root => p \in Above(p)
           /\ \A q \in Above(p) : Above(q) \subseteq Above(p) /\ Len(q) <= Len(p)
           /\ \A q \in Above(p) : Len(q) = Len(p) => q = p
<1>1. p \in Seq(Names) /\ Len(p) \in Nat
  BY PlaceSeq, LenProperties
<1>2. Prefixes(p) \subseteq Places
  BY PrefixIs
<1>3. Root \in Prefixes(p) /\ p \in Prefixes(p)
  <2>1. Len(Root) = 0 /\ Root \in Places
    BY RootIsPlace
  <2>2. Root \in Prefixes(p)
    BY <1>1, <2>1, PrefixIs
  <2>3. p \in Prefixes(p)
    BY <1>1, PrefixIs
  <2> QED  BY <2>2, <2>3
<1>4. ASSUME NEW q \in Above(p) PROVE Above(q) \subseteq Above(p) /\ Len(q) <= Len(p)
  <2>1. q \in Places /\ Len(q) <= Len(p) /\ \A i \in 1 .. Len(q) : q[i] = p[i]
    BY PrefixIs DEF Above
  <2>2. Len(q) \in Nat
    BY <2>1, PlaceSeq, LenProperties
  <2>3. ASSUME NEW x \in Above(q) PROVE x \in Above(p)
    <3>1. x \in Places /\ Len(x) <= Len(q) /\ \A i \in 1 .. Len(x) : x[i] = q[i]
      BY <2>1, PrefixIs DEF Above
    <3>2. Len(x) \in Nat
      BY <3>1, PlaceSeq, LenProperties
    <3>3. Len(x) <= Len(p) /\ \A i \in 1 .. Len(x) : x[i] = p[i]
      BY <1>1, <2>1, <2>2, <3>1, <3>2
    <3>4. x \in Prefixes(p)
      BY <3>1, <3>3, PrefixIs
    <3> QED  BY <3>4 DEF Above
  <2> QED  BY <2>1, <2>3
<1>5. ASSUME NEW q \in Above(p), Len(q) = Len(p) PROVE q = p
  <2>1. q \in Places /\ \A i \in 1 .. Len(q) : q[i] = p[i]
    BY PrefixIs DEF Above
  <2> QED  BY <1>1, <1>5, <2>1, PlaceSeq, SeqEqual
<1> QED  BY <1>2, <1>3, <1>4, <1>5 DEF Above

LEMMA NothingAboveRoot == Above(Root) = {}
<1>1. \A q \in Above(Root) : q \in Places \ {Root} /\ Len(q) <= 0
  BY RootIsPlace, AboveFacts
<1> QED  BY <1>1, FrontIsPlace

LEMMA AboveChild ==
    ASSUME NEW p \in Places \ {Root}
    PROVE  /\ Above(p) = Above(Front(p)) \cup {p}
           /\ p \notin Above(Front(p))
           /\ \A q \in Prefixes(p) \ {p} : q \in Prefixes(Front(p))
<1>1. p \in Seq(Names) /\ Len(p) \in Nat /\ Len(p) >= 1
  BY PlaceSeq, LenProperties, FrontIsPlace
<1>2. Front(p) \in Places /\ Len(Front(p)) = Len(p) - 1
  BY FrontIsPlace
<1>3. \A i \in 1 .. Len(p) - 1 : Front(p)[i] = p[i]
  BY <1>1, FrontOf
<1>4. Front(p) \in Prefixes(p)
  BY <1>1, <1>2, <1>3, PrefixIs
<1>5. Above(Front(p)) \subseteq Above(p)
  <2>1. CASE Front(p) = Root
    BY <2>1, NothingAboveRoot
  <2>2. CASE Front(p) # Root
    BY <1>4, <2>2, AboveFacts DEF Above
  <2> QED  BY <2>1, <2>2
<1>6. p \notin Above(Front(p))
  BY <1>1, <1>2, AboveFacts
<1>7. ASSUME NEW q \in Prefixes(p) \ {p} PROVE q \in Prefixes(Front(p))
  <2>1. q \in Places /\ Len(q) <= Len(p) /\ \A i \in 1 .. Len(q) : q[i] = p[i]
    BY PrefixIs
  <2>2. Len(q) \in Nat /\ q \in Seq(Names)
    BY <2>1, PlaceSeq, LenProperties
  <2>3. Len(q) # Len(p)
    BY <1>1, <2>1, <2>2, SeqEqual
  <2>4. Len(q) <= Len(Front(p)) /\ \A i \in 1 .. Len(q) : q[i] = Front(p)[i]
    BY <1>1, <1>2, <1>3, <2>1, <2>2, <2>3
  <2> QED  BY <1>2, <2>1, <2>4, PrefixIs
<1>8. p \in Above(p)
  BY AboveFacts
<1> QED  BY <1>5, <1>6, <1>7, <1>8 DEF Above

\* One step from a directory towards a place in it.
LEMMA StepTowards ==
    ASSUME NEW p \in Places, NEW d \in Prefixes(p) \ {p}
    PROVE  \E n \in Names : Append(d, n) \in Above(p)
<1>1. p \in Seq(Names) /\ Len(p) \in Nat
  BY PlaceSeq
<1>2. d \in Places /\ Len(d) <= Len(p) /\ \A i \in 1 .. Len(d) : d[i] = p[i]
  BY PrefixIs
<1>3. d \in Seq(Names) /\ Len(d) \in Nat
  BY <1>2, PlaceSeq, LenProperties
<1>4. Len(d) < Len(p)
  BY <1>1, <1>2, <1>3, SeqEqual
<1>5. p[Len(d) + 1] \in Names
  BY <1>1, <1>3, <1>4, ElementOfSeq
<1> DEFINE c == Append(d, p[Len(d) + 1])
<1>6. /\ c \in Seq(Names) /\ Len(c) = Len(d) + 1 /\ c[Len(d) + 1] = p[Len(d) + 1]
      /\ \A i \in 1 .. Len(d) : c[i] = d[i]
  BY <1>3, <1>5, AppendProperties
<1>7. c # Root
  BY <1>2, <1>5, AppendIsPlace
<1>8. Len(c) <= Len(p) /\ \A i \in 1 .. Len(c) : c[i] = p[i]
  BY <1>1, <1>2, <1>3, <1>4, <1>6
<1>9. c = SubSeq(p, 1, Len(d) + 1)
  <2>1. Len(d) + 1 \in Nat /\ Len(d) + 1 <= Len(p)
    BY <1>1, <1>3, <1>4
  <2>2. /\ SubSeq(p, 1, Len(d) + 1) \in Seq(Names) /\ Len(SubSeq(p, 1, Len(d) + 1)) = Len(d) + 1
        /\ \A i \in 1 .. Len(d) + 1 : SubSeq(p, 1, Len(d) + 1)[i] = p[i]
    BY <1>1, <2>1, Beginning
  <2> QED  BY <1>6, <1>8, <2>2, SeqEqual
<1>10. Len(d) + 1 \in 0 .. Len(p)
  BY <1>1, <1>3, <1>4
<1> HIDE DEF c
<1>11. c \in Above(p)
  BY <1>7, <1>9, <1>10 DEF Above, Prefixes
<1> QED  BY <1>5, <1>11 DEF c

(***************************************************************************)
(* The stack of activations.                                               *)
(***************************************************************************)
LEMMA Replaced ==
    ASSUME NEW S, NEW s \in Seq(S), Len(s) >= 1, NEW f \in S
    PROVE  /\ Append(Front(s), f) \in Seq(S) /\ Len(Append(Front(s), f)) = Len(s)
           /\ \A i \in 1 .. Len(s) - 1 : Append(Front(s), f)[i] = s[i]
           /\ Append(Front(s), f)[Len(s)] = f
<1>1. /\ Front(s) \in Seq(S) /\ Len(Front(s)) = Len(s) - 1 /\ Len(s) \in Nat
      /\ \A i \in 1 .. Len(s) - 1 : Front(s)[i] = s[i]
  BY FrontOf, LenProperties
<1> QED  BY <1>1, AppendProperties

(***************************************************************************)
(* The types.                                                              *)
(***************************************************************************)
Kinds == {"file", "dir", "other", "unknown"}
Lefts == UNION {[N -> Kinds] : N \in SUBSET Names}
Frames == [dir : Places, left : Lefts, at : Places]
Entries ==
    [type : {"none", "file", "dir", "untyped"}, meta : BOOLEAN, size : Nat, start : Nat \cup {-1}]

Typed ==
    /\ disk \in Disks
    /\ changed \subseteq Places \ {Root}
    /\ stack \in Seq(Frames) /\ Len(stack) >= 1
    /\ pc \in {"opendir", "readdir", "stat", "fsize", "done", "crash"}
    /\ entry \in [Places -> Entries]
    /\ kids \in [Places -> Seq(Places \ {Root})]
    /\ \A p \in Places : \A i \in DOMAIN kids[p] : Front(kids[p][i]) = p
    /\ data_size \in Nat

LEMMA EntryExcept ==
    ASSUME NEW e \in Entries
    PROVE  /\ \A t \in {"none", "file", "dir", "untyped"} : [e EXCEPT !.type = t] \in Entries
           /\ \A m \in BOOLEAN : [e EXCEPT !.meta = m] \in Entries
           /\ \A n, s \in Nat : [e EXCEPT !.size = n, !.start = s] \in Entries
BY DEF Entries

LEMMA NodeFacts ==
    ASSUME NEW x \in Nodes
    PROVE  /\ x.kind \in {"none", "dir", "locked", "other", "file"} /\ x.size \in Nat
           /\ x = Nothing <=> x.kind = "none"
BY FsAssumption DEF Nodes, Node, Nothing

LEMMA NoNames == <<>> \in Lefts /\ DOMAIN <<>> = {}
<1>1. <<>> \in Seq(Kinds) /\ Len(<<>>) = 0
  OBVIOUS
<1>2. <<>> \in [1 .. 0 -> Kinds] /\ 1 .. 0 = {}
  BY <1>1, LenProperties
<1>3. {} \in SUBSET Names /\ <<>> \in [{} -> Kinds]
  BY <1>2
<1> QED  BY <1>2, <1>3 DEF Lefts

LEMMA LeftsIs ==
    ASSUME NEW f
    PROVE  f \in Lefts <=> f \in [DOMAIN f -> Kinds] /\ DOMAIN f \subseteq Names
BY DEF Lefts

LEMMA TopFacts ==
    ASSUME Typed
    PROVE  /\ Len(stack) \in Nat /\ Top = stack[Len(stack)] /\ Top \in Frames
           /\ Top.dir \in Places /\ Top.at \in Places
           /\ Top.left \in Lefts /\ DOMAIN Top.left \subseteq Names
<1>1. Len(stack) \in Nat /\ Len(stack) >= 1 /\ stack \in Seq(Frames)
  BY LenProperties DEF Typed
<1>2. Top \in Frames
  BY <1>1, ElementOfSeq DEF Top, Last
<1>3. Top.left \in Lefts
  BY <1>2 DEF Frames
<1> QED  BY <1>1, <1>2, <1>3, LeftsIs DEF Frames, Top, Last

LEMMA FrameFacts ==
    ASSUME Typed, NEW i \in 1 .. Len(stack)
    PROVE  /\ stack[i] \in Frames /\ stack[i].dir \in Places /\ stack[i].at \in Places
           /\ DOMAIN stack[i].left \subseteq Names
<1>1. stack[i] \in Frames
  BY ElementOfSeq DEF Typed
<1> QED  BY <1>1, LeftsIs DEF Frames

\* Only the entry that is linked gets into a list.
LEMMA LinkStep ==
    ASSUME Typed, NEW c \in Places \ {Root}, Link(c)
    PROVE  /\ kids' \in [Places -> Seq(Places \ {Root})]
           /\ \A p \in Places : \A i \in DOMAIN kids'[p] : Front(kids'[p][i]) = p
           /\ \A p \in Places \ {Root} : Linked(p)' <=> Linked(p) \/ p = c
<1> DEFINE d == Front(c)
<1>1. d \in Places /\ kids[d] \in Seq(Places \ {Root})
  BY FrontIsPlace DEF Typed
<1>2. Len(kids[d]) \in Nat /\ DOMAIN kids[d] = 1 .. Len(kids[d])
  BY <1>1, LenProperties
<1>3. /\ Append(kids[d], c) \in Seq(Places \ {Root})
      /\ Len(Append(kids[d], c)) = Len(kids[d]) + 1
      /\ \A i \in 1 .. Len(kids[d]) : Append(kids[d], c)[i] = kids[d][i]
      /\ Append(kids[d], c)[Len(kids[d]) + 1] = c
  BY <1>1, AppendProperties
<1>4. DOMAIN Append(kids[d], c) = 1 .. Len(kids[d]) + 1
  BY <1>3, LenProperties
<1>5. kids' = [kids EXCEPT ![d] = Append(kids[d], c)]
  BY DEF Link
<1>6. kids' \in [Places -> Seq(Places \ {Root})]
  BY <1>3, <1>5 DEF Typed
<1>7. kids'[d] = Append(kids[d], c) /\ \A p \in Places \ {d} : kids'[p] = kids[p]
  BY <1>1, <1>5 DEF Typed
<1>8. ASSUME NEW p \in Places, NEW i \in DOMAIN kids'[p] PROVE Front(kids'[p][i]) = p
  <2>1. CASE p # d
    BY <1>7, <2>1 DEF Typed
  <2>2. CASE p = d
    <3>1. i \in 1 .. Len(kids[d]) \/ i = Len(kids[d]) + 1
      BY <1>2, <1>4, <1>7, <2>2
    <3> QED  BY <1>1, <1>2, <1>3, <1>7, <2>2, <3>1 DEF Typed
  <2> QED  BY <2>1, <2>2
<1>9. ASSUME NEW p \in Places \ {Root} PROVE Linked(p)' <=> Linked(p) \/ p = c
  <2>1. Front(p) \in Places
    BY FrontIsPlace
  <2>2. CASE Front(p) # d
    BY <1>7, <2>1, <2>2 DEF Linked, ToSet
  <2>3. CASE Front(p) = d
    <3>1. ToSet(kids'[d]) = ToSet(kids[d]) \cup {c}
      BY <1>2, <1>3, <1>4, <1>7 DEF ToSet
    <3> QED  BY <2>3, <3>1 DEF Linked
  <2> QED  BY <2>2, <2>3
<1> QED  BY <1>6, <1>8, <1>9

(***************************************************************************)
(* The activations lead from the root down, each to the directory its      *)
(* caller is at.  What an activation has not come to yet has no entry, nor *)
(* has anything below it.                                                  *)
(***************************************************************************)
Made(p) == entry[p].type # "none"

Deep ==
    /\ \A i \in 1 .. Len(stack) :
         Len(stack[i].dir) = i - 1 /\ (stack[i].dir = Root \/ Made(stack[i].dir))
    /\ \A i \in 1 .. Len(stack) - 1 : stack[i + 1].dir = stack[i].at

LeftUnmade ==
    \A i \in 1 .. Len(stack) : \A n \in DOMAIN stack[i].left :
       Append(stack[i].dir, n) \in Places /\ ~ Made(Append(stack[i].dir, n))

Bare(d) == \A c \in Places \ {Root} : Front(c) = d => ~ Made(c)

AtEntry ==
    /\ pc \in {"stat", "fsize", "crash"} =>
         /\ Top.at # Root /\ Front(Top.at) = Top.dir /\ ~ Linked(Top.at)
         /\ entry[Top.at].type \in (IF pc = "stat" THEN {"file", "dir"} ELSE {"file"})
    /\ pc = "stat" => Bare(Top.at)
    /\ pc = "opendir" => DOMAIN Top.left = {} /\ Bare(Top.dir)

EntriesOK ==
    \A p \in Places \ {Root} :
       /\ Made(p) => Front(p) = Root \/ Made(Front(p))
       /\ Linked(p) => Made(p)

Shapeless ==
    \A p \in Places : entry[p].type \in {"none", "untyped"} =>
        entry[p] = [NoEntry EXCEPT !.type = entry[p].type]

Chained == Deep /\ LeftUnmade /\ AtEntry /\ EntriesOK /\ Shapeless

WalkInv == Typed /\ Chained

LEMMA TopIsDeep ==
    ASSUME WalkInv
    PROVE  /\ Len(stack) > 1 => Top.dir # Root /\ Made(Top.dir)
           /\ Len(stack) = 1 => Top.dir = Root
<1>1. Len(stack) \in Nat /\ Len(stack) >= 1 /\ Top = stack[Len(stack)] /\ Top.dir \in Places
  BY TopFacts DEF WalkInv, Typed
<1>2. Len(Top.dir) = Len(stack) - 1 /\ (Top.dir = Root \/ Made(Top.dir))
  BY <1>1 DEF WalkInv, Chained, Deep
<1>3. Top.dir = Root <=> Len(Top.dir) = 0
  BY <1>1, RootIsPlace, FrontIsPlace
<1> QED  BY <1>1, <1>2, <1>3

\* Nothing is linked, or the directory the innermost activation was called for.
LEMMA ReturnStep ==
    ASSUME WalkInv, Return
    PROVE  /\ stack' \in Seq(Frames) /\ Len(stack') >= 1 /\ pc' \in {"done", "readdir"}
           /\ kids' \in [Places -> Seq(Places \ {Root})]
           /\ \A p \in Places : \A i \in DOMAIN kids'[p] : Front(kids'[p][i]) = p
           /\ Len(stack') <= Len(stack)
           /\ \A i \in 1 .. Len(stack') : stack'[i] = stack[i]
           /\ \A p \in Places \ {Root} :
                Linked(p)' <=> Linked(p) \/ (Len(stack) > 1 /\ p = Top.dir)
           /\ IF Len(stack) = 1 THEN pc' = "done" /\ stack' = stack
              ELSE pc' = "readdir" /\ Len(stack') = Len(stack) - 1
<1>0. Len(stack) \in Nat /\ Len(stack) >= 1
  BY TopFacts DEF WalkInv, Typed
<1>1. Top.dir \in Places
  BY TopFacts DEF WalkInv
<1>2. (Len(stack) = 1 \/ Len(stack) > 1) /\ (Len(stack) > 1 => Len(stack) # 1)
  BY <1>0, OneOrMore
<1>3. CASE Len(stack) = 1
  <2>1. pc' = "done" /\ stack' = stack /\ kids' = kids
    BY <1>3 DEF Return
  <2>2. \A p \in Places \ {Root} : Linked(p)' <=> Linked(p)
    BY <2>1 DEF Linked
  <2>3. /\ kids' \in [Places -> Seq(Places \ {Root})]
        /\ \A p \in Places : \A i \in DOMAIN kids'[p] : Front(kids'[p][i]) = p
    BY <2>1 DEF WalkInv, Typed
  <2>4. stack' \in Seq(Frames)
    BY <2>1 DEF WalkInv, Typed
  <2>5. \A p \in Places \ {Root} :
          Linked(p)' <=> Linked(p) \/ (Len(stack) > 1 /\ p = Top.dir)
    BY <1>3, <2>2
  <2>6. Len(stack') = 1 /\ \A i \in 1 .. Len(stack') : stack'[i] = stack[i]
    BY <1>3, <2>1
  <2> QED  BY <1>0, <1>3, <2>1, <2>3, <2>4, <2>5, <2>6
<1>4. CASE Len(stack) > 1
  <2>1. pc' = "readdir" /\ stack' = Front(stack) /\ Link(Top.dir)
    BY <1>2, <1>4 DEF Return
  <2>2. Top.dir \in Places \ {Root} /\ Len(stack) > 1
    BY <1>1, <1>4, TopIsDeep
  <2>3. /\ stack' \in Seq(Frames) /\ Len(stack') = Len(stack) - 1
        /\ \A i \in 1 .. Len(stack) - 1 : stack'[i] = stack[i]
    BY <1>0, <2>1, FrontOf DEF WalkInv, Typed
  <2>4. /\ kids' \in [Places -> Seq(Places \ {Root})]
        /\ \A p \in Places : \A i \in DOMAIN kids'[p] : Front(kids'[p][i]) = p
        /\ \A p \in Places \ {Root} : Linked(p)' <=> Linked(p) \/ p = Top.dir
    BY <2>1, <2>2, LinkStep DEF WalkInv
  <2> QED  BY <1>0, <1>4, <2>1, <2>2, <2>3, <2>4
<1> QED  BY <1>2, <1>3, <1>4

(***************************************************************************)
(* The beginning.                                                          *)
(***************************************************************************)
LEMMA FirstActivation ==
    ASSUME NEW d \in Places
    PROVE  /\ Activation(d) \in Frames /\ Activation(d).dir = d
           /\ DOMAIN Activation(d).left = {}
BY NoNames, RootIsPlace DEF Activation, Frames

LEMMA WalkInit == Init => WalkInv
<1> SUFFICES ASSUME Init PROVE WalkInv
  OBVIOUS
<1>1. Root \in Places /\ Len(Root) = 0
  BY RootIsPlace
<1>2. /\ stack \in Seq(Frames) /\ Len(stack) = 1 /\ stack[1] = Activation(Root)
      /\ Top = Activation(Root)
  BY <1>1, FirstActivation DEF Init, Top, Last
<1>3. /\ disk \in Disks /\ changed = {} /\ pc = "opendir" /\ data_size = 0
      /\ entry = [p \in Places |-> NoEntry] /\ kids = [p \in Places |-> <<>>]
  BY DEF Init
<1>4. NoEntry \in Entries /\ NoEntry.type = "none"
  BY DEF NoEntry, Entries
<1>5. <<>> \in Seq(Places \ {Root}) /\ DOMAIN <<>> = {}
  BY EmptySeq, NoNames
<1>6. kids \in [Places -> Seq(Places \ {Root})] /\ \A p \in Places : DOMAIN kids[p] = {}
  BY <1>3, <1>5
<1>7. \A p \in Places : entry[p] = NoEntry /\ ~ Made(p)
  BY <1>3, <1>4 DEF Made
<1>8. Typed
  BY <1>2, <1>3, <1>4, <1>6 DEF Typed
<1>9. \A p \in Places \ {Root} : ~ Linked(p)
  BY <1>6, FrontIsPlace DEF Linked, ToSet
<1>10. Deep
  BY <1>1, <1>2, FirstActivation DEF Deep
<1>11. LeftUnmade
  BY <1>1, <1>2, FirstActivation DEF LeftUnmade
<1>12. AtEntry
  BY <1>1, <1>2, <1>3, <1>7, FirstActivation DEF AtEntry, Bare
<1>13. EntriesOK
  BY <1>7, <1>9 DEF EntriesOK
<1>14. Shapeless
  BY <1>4, <1>7 DEF Shapeless, NoEntry
<1> QED  BY <1>8, <1>10, <1>11, <1>12, <1>13, <1>14 DEF WalkInv, Chained

(***************************************************************************)
(* Other programs.                                                         *)
(***************************************************************************)
LEMMA ChangeStep ==
    ASSUME disk \in Disks, changed \subseteq Places \ {Root}, NEW c \in Places \ {Root}, Change(c)
    PROVE  /\ disk' \in Disks /\ changed' = changed \cup {c}
           /\ \A p \in Places : c \notin Above(p) => disk'[p] = disk[p]
<1>1. disk \in [Places -> Nodes] /\ Sound(disk)
  BY DEF Disks
<1>2. PICK node \in Nodes \ {disk[c]} :
        disk' = [x \in Places |-> CASE x = c -> node
                                    [] c \in Above(x) /\ x # c -> Nothing
                                    [] OTHER -> disk[x]]
  BY DEF Change
<1>3. changed' = changed \cup {c} /\ disk[Front(c)].kind = "dir"
  BY DEF Change
<1>4. /\ disk'[c] = node
      /\ \A p \in Places : c \in Above(p) /\ p # c => disk'[p] = Nothing
  BY <1>2
<1>5. \A p \in Places : c \notin Above(p) => disk'[p] = disk[p]
  <2>1. c \in Above(c)
    BY AboveFacts
  <2> QED  BY <1>2, <2>1
<1>6. disk' \in [Places -> Nodes]
  <2>1. Nothing \in Nodes
    BY DEF Nodes, Nothing
  <2>2. \A p \in Places : disk'[p] \in Nodes
    BY <1>1, <1>4, <1>5, <2>1
  <2>3. disk' = [x \in Places |-> disk'[x]]
    BY <1>2
  <2> QED  BY <2>2, <2>3
<1>7. ASSUME NEW p \in Places \ {Root}, disk'[p] # Nothing, NEW q \in Prefixes(p) \ {p}
      PROVE  disk'[q].kind = "dir"
  <2>1. q \in Places /\ q \in Prefixes(Front(p)) /\ Front(p) \in Places
    BY AboveChild, FrontIsPlace, AboveFacts, RootIsPlace
  <2>2. c \in Above(p) => c = p
    BY <1>4, <1>7
  <2>3. c \notin Above(q)
    <3>1. CASE q = Root
      BY <3>1, NothingAboveRoot
    <3>2. CASE q # Root
      <4>1. q \in Above(Front(p))
        BY <2>1, <3>2 DEF Above
      <4>2. Above(q) \subseteq Above(Front(p))
        BY <2>1, <4>1, AboveFacts
      <4> QED  BY <2>2, <4>2, AboveChild
    <3> QED  BY <3>1, <3>2
  <2>4. disk'[q] = disk[q]
    BY <1>5, <2>1, <2>3
  <2>5. CASE c = p
    <3>1. CASE q = Front(p)
      BY <1>3, <2>4, <2>5, <3>1
    <3>2. CASE q # Front(p)
      <4>1. Front(p) # Root
        BY <2>1, <3>2, AboveFacts, NothingAboveRoot
      <4>2. disk[Front(p)] # Nothing
        BY <1>1, <1>3, <2>1, <2>5, NodeFacts
      <4> QED  BY <1>1, <2>1, <2>4, <3>2, <4>1, <4>2 DEF Sound
    <3> QED  BY <3>1, <3>2
  <2>6. CASE c # p
    <3>1. disk[p] # Nothing
      BY <1>5, <1>7, <2>2, <2>6
    <3> QED  BY <1>1, <1>7, <2>4, <3>1 DEF Sound
  <2> QED  BY <2>5, <2>6
<1>8. Sound(disk')
  BY <1>7 DEF Sound
<1> QED  BY <1>3, <1>5, <1>6, <1>8 DEF Disks

LEMMA Changed ==
    ASSUME WalkInv, NEW c \in Places \ {Root}, Change(c)
    PROVE  WalkInv'
<1>1. disk' \in Disks /\ changed' = changed \cup {c}
  BY ChangeStep DEF WalkInv, Typed
<1>2. stack' = stack /\ pc' = pc /\ entry' = entry /\ kids' = kids /\ data_size' = data_size
  BY DEF Change, made
<1>3. Typed'
  BY <1>1, <1>2 DEF WalkInv, Typed
<1>4. Chained'
  BY <1>2 DEF WalkInv, Chained, Deep, LeftUnmade, AtEntry, EntriesOK, Shapeless, Made, Bare,
              Linked, Top
<1> QED  BY <1>3, <1>4 DEF WalkInv

(***************************************************************************)
(* The walk.                                                               *)
(***************************************************************************)
LEMMA Returned ==
    ASSUME WalkInv, Return, UNCHANGED <<fs, entry, data_size>>
    PROVE  WalkInv'
<1>1. Len(stack) > 1 => Top.dir # Root /\ Made(Top.dir)
  BY TopIsDeep
<1>2. /\ stack' \in Seq(Frames) /\ Len(stack') >= 1 /\ pc' \in {"done", "readdir"}
      /\ kids' \in [Places -> Seq(Places \ {Root})]
      /\ \A p \in Places : \A i \in DOMAIN kids'[p] : Front(kids'[p][i]) = p
      /\ Len(stack') <= Len(stack)
      /\ \A i \in 1 .. Len(stack') : stack'[i] = stack[i]
      /\ \A p \in Places \ {Root} :
           Linked(p)' <=> Linked(p) \/ (Len(stack) > 1 /\ p = Top.dir)
  BY ReturnStep
<1>3. disk' = disk /\ changed' = changed /\ entry' = entry /\ data_size' = data_size
  BY DEF fs
<1>4. Typed'
  BY <1>2, <1>3 DEF WalkInv, Typed
<1>5. \A i \in 1 .. Len(stack') : i \in 1 .. Len(stack) /\ (i < Len(stack') => i < Len(stack))
  BY <1>2, LenProperties DEF WalkInv, Typed
<1>6. Deep'
  <2>2. ASSUME NEW i \in 1 .. Len(stack')
        PROVE  /\ Len(stack'[i].dir) = i - 1
               /\ stack'[i].dir = Root \/ entry'[stack'[i].dir].type # "none"
    <3>1. i \in 1 .. Len(stack) /\ stack'[i] = stack[i]
      BY <1>2, <1>5
    <3> QED  BY <1>3, <3>1 DEF WalkInv, Chained, Deep, Made
  <2>3. ASSUME NEW i \in 1 .. Len(stack') - 1 PROVE stack'[i + 1].dir = stack'[i].at
    <3>1. i \in 1 .. Len(stack') /\ i + 1 \in 1 .. Len(stack') /\ i \in 1 .. Len(stack) - 1
      BY <1>2, LenProperties DEF WalkInv, Typed
    <3> QED  BY <1>2, <3>1 DEF WalkInv, Chained, Deep
  <2> QED  BY <2>2, <2>3 DEF Deep, Made
<1>7. LeftUnmade'
  BY <1>2, <1>3, <1>5 DEF WalkInv, Chained, LeftUnmade, Made
<1>8. AtEntry'
  BY <1>2 DEF AtEntry
<1>9. EntriesOK'
  BY <1>1, <1>2, <1>3 DEF WalkInv, Chained, EntriesOK, Made
<1>10. Shapeless'
  BY <1>3 DEF WalkInv, Chained, Shapeless
<1> QED  BY <1>4, <1>6, <1>7, <1>8, <1>9, <1>10 DEF WalkInv, Chained

\* The innermost activation goes on to another name or entry.
LEMMA ReadingStep ==
    ASSUME Typed, NEW f \in Frames, Reading(f)
    PROVE  /\ stack' \in Seq(Frames) /\ Len(stack') = Len(stack) /\ Top' = f
           /\ stack'[Len(stack)] = f
           /\ \A i \in 1 .. Len(stack) - 1 : stack'[i] = stack[i]
<1>1. stack \in Seq(Frames) /\ Len(stack) >= 1
  BY DEF Typed
<1> QED  BY <1>1, Replaced DEF Reading, Top, Last

LEMMA ListingFacts ==
    ASSUME Typed, NEW d \in Places
    PROVE  /\ Listing(d) \in Lefts
           /\ \A n \in DOMAIN Listing(d) :
                /\ n \in Names /\ Append(d, n) \in Places \ {Root} /\ Front(Append(d, n)) = d
                /\ disk[Append(d, n)] # Nothing
                /\ KnowsTypes => Listing(d)[n] = (IF disk[Append(d, n)].kind = "locked" THEN "dir"
                                                  ELSE disk[Append(d, n)].kind)
           /\ \A n \in Names :
                Append(d, n) \in Places /\ disk[Append(d, n)] # Nothing => n \in DOMAIN Listing(d)
<1>1. DOMAIN Listing(d) = {x \in Names : Append(d, x) \in Places /\ disk[Append(d, x)] # Nothing}
  BY DEF Listing
<1>2. ASSUME NEW n \in DOMAIN Listing(d)
      PROVE  /\ n \in Names /\ Append(d, n) \in Places \ {Root} /\ Front(Append(d, n)) = d
             /\ disk[Append(d, n)] # Nothing
             /\ Listing(d)[n] \in Kinds
             /\ KnowsTypes => Listing(d)[n] = (IF disk[Append(d, n)].kind = "locked" THEN "dir"
                                               ELSE disk[Append(d, n)].kind)
  <2>1. n \in Names /\ Append(d, n) \in Places /\ disk[Append(d, n)] # Nothing
    BY <1>1
  <2>2. Append(d, n) \in Places \ {Root} /\ Front(Append(d, n)) = d
    BY <2>1, AppendIsPlace
  <2>3. disk[Append(d, n)] \in Nodes
    BY <2>2 DEF Typed, Disks
  <2>4. disk[Append(d, n)].kind \in {"dir", "locked", "other", "file"}
    BY <2>1, <2>3, NodeFacts
  <2>5. Listing(d)[n] = (IF ~ KnowsTypes THEN "unknown"
                         ELSE IF disk[Append(d, n)].kind = "locked" THEN "dir"
                         ELSE disk[Append(d, n)].kind)
    BY <1>1 DEF Listing
  <2> QED  BY <2>1, <2>2, <2>4, <2>5 DEF Kinds
<1>3. Listing(d) \in [DOMAIN Listing(d) -> Kinds]
  BY <1>1, <1>2 DEF Listing
<1>4. Listing(d) \in Lefts
  BY <1>1, <1>3, LeftsIs
<1>5. ASSUME NEW n \in Names, Append(d, n) \in Places, disk[Append(d, n)] # Nothing
      PROVE  n \in DOMAIN Listing(d)
  BY <1>1, <1>5, AppendIsPlace
<1> QED  BY <1>2, <1>4, <1>5

LEMMA Opened ==
    ASSUME WalkInv, opendir
    PROVE  WalkInv'
<1>1. pc = "opendir" /\ UNCHANGED <<fs, entry, data_size>>
  BY DEF opendir
<1>2. CASE disk[Top.dir].kind # "dir"
  BY <1>1, <1>2, Returned DEF opendir, Error
<1>3. CASE disk[Top.dir].kind = "dir"
  <2> DEFINE f == [Top EXCEPT !.left = Listing(Top.dir)]
  <2>1. pc' = "readdir" /\ Reading(f) /\ kids' = kids
    BY <1>3 DEF opendir
  <2>2. /\ Typed /\ Len(stack) \in Nat /\ Len(stack) >= 1 /\ Top = stack[Len(stack)]
        /\ Top \in Frames /\ Top.dir \in Places
    BY TopFacts DEF WalkInv, Typed
  <2>3. f \in Frames /\ f.dir = Top.dir /\ f.at = Top.at /\ f.left = Listing(Top.dir)
    BY <2>2, ListingFacts DEF Frames
  <2> HIDE DEF f
  <2>4. /\ stack' \in Seq(Frames) /\ Len(stack') = Len(stack) /\ stack'[Len(stack)] = f
        /\ \A i \in 1 .. Len(stack) - 1 : stack'[i] = stack[i]
    BY <2>1, <2>2, <2>3, ReadingStep
  <2>5. disk' = disk /\ changed' = changed /\ entry' = entry /\ data_size' = data_size
    BY <1>1 DEF fs
  <2>6. Typed'
    BY <2>1, <2>4, <2>5 DEF WalkInv, Typed
  <2>7. \A i \in 1 .. Len(stack) : stack'[i].dir = stack[i].dir /\ stack'[i].at = stack[i].at
    BY <2>2, <2>3, <2>4
  <2>8. Deep'
    <3>1. \A i \in 1 .. Len(stack) - 1 : i \in 1 .. Len(stack) /\ i + 1 \in 1 .. Len(stack)
      BY <2>2
    <3> QED  BY <2>4, <2>5, <2>7, <3>1 DEF WalkInv, Chained, Deep, Made
  <2>9. LeftUnmade'
    <3> SUFFICES ASSUME NEW i \in 1 .. Len(stack), NEW n \in DOMAIN stack'[i].left
                 PROVE  Append(stack'[i].dir, n) \in Places /\ ~ Made(Append(stack'[i].dir, n))
      BY <2>4, <2>5 DEF LeftUnmade, Made
    <3>1. CASE i = Len(stack)
      <4>1. Append(Top.dir, n) \in Places \ {Root} /\ Front(Append(Top.dir, n)) = Top.dir
        BY <2>2, <2>3, <2>4, <3>1, ListingFacts
      <4>2. Bare(Top.dir)
        BY <1>1 DEF WalkInv, Chained, AtEntry
      <4> QED  BY <2>3, <2>4, <3>1, <4>1, <4>2 DEF Bare
    <3>2. CASE i # Len(stack)
      BY <2>2, <2>4, <3>2 DEF WalkInv, Chained, LeftUnmade
    <3> QED  BY <3>1, <3>2
  <2>10. AtEntry'
    BY <2>1 DEF AtEntry
  <2>11. EntriesOK' /\ Shapeless'
    BY <2>1, <2>5 DEF WalkInv, Chained, EntriesOK, Shapeless, Made, Linked
  <2> QED  BY <2>6, <2>8, <2>9, <2>10, <2>11 DEF WalkInv, Chained
<1> QED  BY <1>2, <1>3

LEMMA Closed ==
    ASSUME WalkInv, closedir
    PROVE  WalkInv'
BY Returned DEF closedir

\* p is neither made nor in the list of its directory; f is the activation that has come
\* to it.
NextIs(n, p, f) ==
    /\ p \in Places \ {Root} /\ Front(p) = Top.dir /\ n \in Names
    /\ ~ Made(p) /\ ~ Linked(p) /\ Bare(p) /\ entry[p] = NoEntry
    /\ Top.left[n] \in Kinds
    /\ f \in Frames /\ f.dir = Top.dir /\ f.at = p
    /\ DOMAIN f.left = DOMAIN Top.left \ {n}
    /\ \A m \in DOMAIN f.left : f.left[m] = Top.left[m]

\* A place that is neither made nor in the list of a directory may be made in it.
LEMMA NextName ==
    ASSUME WalkInv, pc = "readdir", NEW n \in DOMAIN Top.left
    PROVE  NextIs(n, Append(Top.dir, n),
                  [Top EXCEPT !.left = Without(@, n), !.at = Append(Top.dir, n)])
<1>0. PICK p, f :
        p = Append(Top.dir, n) /\ f = [Top EXCEPT !.left = Without(@, n), !.at = p]
  OBVIOUS
<1>1. /\ Len(stack) \in Nat /\ Len(stack) >= 1 /\ Top = stack[Len(stack)] /\ Top \in Frames
      /\ Top.dir \in Places /\ Top.left \in Lefts /\ DOMAIN Top.left \subseteq Names
  BY TopFacts DEF WalkInv, Typed
<1>2. p \in Places /\ ~ Made(p)
  BY <1>0, <1>1 DEF WalkInv, Chained, LeftUnmade
<1>3. p \in Places \ {Root} /\ Front(p) = Top.dir /\ n \in Names
  BY <1>0, <1>1, <1>2, AppendIsPlace
<1>4. ~ Linked(p) /\ Bare(p)
  BY <1>2, <1>3 DEF WalkInv, Chained, EntriesOK, Bare
<1>5. Top.left \in [DOMAIN Top.left -> Kinds]
  BY <1>1, LeftsIs
<1>6. entry[p] = NoEntry
  <2>1. entry[p].type = "none" /\ entry[p] = [NoEntry EXCEPT !.type = entry[p].type]
    BY <1>2, <1>3 DEF WalkInv, Chained, Shapeless, Made
  <2> QED  BY <2>1 DEF NoEntry
<1>7. /\ DOMAIN Without(Top.left, n) = DOMAIN Top.left \ {n}
      /\ \A m \in DOMAIN Top.left \ {n} : Without(Top.left, n)[m] = Top.left[m]
  BY DEF Without
<1>8. Without(Top.left, n) \in Lefts
  <2>1. Without(Top.left, n) \in [DOMAIN Top.left \ {n} -> Kinds]
    BY <1>5 DEF Without
  <2> QED  BY <1>1, <1>7, <2>1, LeftsIs
<1>9. f \in Frames /\ f.dir = Top.dir /\ f.at = p /\ f.left = Without(Top.left, n)
  BY <1>0, <1>1, <1>3, <1>8 DEF Frames
<1>10. NextIs(n, p, f)
  BY <1>2, <1>3, <1>4, <1>5, <1>6, <1>7, <1>9 DEF NextIs
<1> QED  BY <1>0, <1>10

LEMMA NameRead ==
    ASSUME WalkInv, NEW n \in Names, readdir_r(n)
    PROVE  WalkInv'
<1>0. PICK p, f, t :
        /\ p = Append(Top.dir, n)
        /\ f = [Top EXCEPT !.left = Without(@, n), !.at = p]
        /\ t = IF Top.left[n] \in {"file", "dir"} THEN Top.left[n] ELSE "untyped"
  OBVIOUS
<1>1. /\ pc = "readdir" /\ n \in DOMAIN Top.left /\ Reading(f)
      /\ entry' = [entry EXCEPT ![p].type = t]
      /\ disk' = disk /\ changed' = changed /\ data_size' = data_size
  BY <1>0 DEF readdir_r, fs
<1>2. /\ p \in Places \ {Root} /\ Front(p) = Top.dir
      /\ ~ Made(p) /\ ~ Linked(p) /\ Bare(p) /\ entry[p] = NoEntry
      /\ f \in Frames /\ f.dir = Top.dir /\ f.at = p /\ DOMAIN f.left = DOMAIN Top.left \ {n}
  <2>1. NextIs(n, p, f)
    BY <1>0, <1>1, NextName
  <2> QED  BY <2>1 DEF NextIs
<1>3. \/ t \in {"file", "dir"} /\ pc' = "stat" /\ kids' = kids
      \/ t = "untyped" /\ pc' = pc /\ Link(p)
  BY <1>0 DEF readdir_r
<1>4. /\ Typed /\ Len(stack) \in Nat /\ Len(stack) >= 1 /\ Top = stack[Len(stack)]
      /\ Top \in Frames /\ Top.dir \in Places
  BY TopFacts DEF WalkInv, Typed
<1>5. /\ stack' \in Seq(Frames) /\ Len(stack') = Len(stack) /\ Top' = f
      /\ stack'[Len(stack)] = f /\ \A i \in 1 .. Len(stack) - 1 : stack'[i] = stack[i]
  BY <1>1, <1>2, <1>4, ReadingStep
<1>6. /\ kids' \in [Places -> Seq(Places \ {Root})]
      /\ \A q \in Places : \A i \in DOMAIN kids'[q] : Front(kids'[q][i]) = q
  BY <1>2, <1>3, <1>4, LinkStep DEF Typed
<1>7. \A q \in Places \ {Root} : Linked(q)' => Linked(q) \/ (q = p /\ t = "untyped")
  <2>1. CASE kids' = kids
    BY <2>1 DEF Linked
  <2>2. CASE t = "untyped" /\ Link(p)
    BY <1>2, <1>4, <2>2, LinkStep
  <2> QED  BY <1>3, <2>1, <2>2
<1>8. entry' \in [Places -> Entries]
  <2>1. t \in {"file", "dir", "untyped"}
    BY <1>3
  <2>2. entry[p] \in Entries
    BY <1>2, <1>4 DEF Typed
  <2>4. [entry[p] EXCEPT !.type = t] \in Entries
    BY <2>1, <2>2, EntryExcept
  <2>3. entry' = [entry EXCEPT ![p] = [entry[p] EXCEPT !.type = t]]
    BY <1>1
  <2> QED  BY <1>4, <2>3, <2>4 DEF Typed
<1>9. /\ entry'[p] = [NoEntry EXCEPT !.type = t] /\ entry'[p].type = t
      /\ \A q \in Places \ {p} : entry'[q] = entry[q]
  BY <1>1, <1>2, <1>4 DEF Typed, NoEntry
<1>10. Typed'
  <2>1. pc' \in {"opendir", "readdir", "stat", "fsize", "done", "crash"}
    BY <1>1, <1>3
  <2> QED  BY <1>1, <1>4, <1>5, <1>6, <1>8, <2>1 DEF Typed
<1>11. t # "none"
  BY <1>3
<1>12. Deep'
  <2>1. \A i \in 1 .. Len(stack) : stack'[i].dir = stack[i].dir
    BY <1>2, <1>4, <1>5
  <2>2. \A i \in 1 .. Len(stack) - 1 : stack'[i + 1].dir = stack'[i].at
    <3>1. \A i \in 1 .. Len(stack) - 1 : i + 1 \in 1 .. Len(stack)
      BY <1>4
    <3> QED  BY <1>5, <2>1, <3>1 DEF WalkInv, Chained, Deep
  <2>3. \A i \in 1 .. Len(stack) : stack[i].dir \in Places
    BY <1>4, FrameFacts
  <2>4. \A q \in Places : entry[q].type # "none" => entry'[q].type # "none"
    BY <1>9, <1>11
  <2>5. \A i \in 1 .. Len(stack) :
           /\ Len(stack'[i].dir) = i - 1
           /\ stack'[i].dir = Root \/ entry'[stack'[i].dir].type # "none"
    BY <2>1, <2>3, <2>4 DEF WalkInv, Chained, Deep, Made
  <2> QED  BY <1>5, <2>2, <2>5 DEF Deep, Made
<1>13. LeftUnmade'
  <2> SUFFICES ASSUME NEW i \in 1 .. Len(stack), NEW m \in DOMAIN stack'[i].left
               PROVE  /\ Append(stack'[i].dir, m) \in Places
                      /\ entry'[Append(stack'[i].dir, m)].type = "none"
    BY <1>5 DEF LeftUnmade, Made
  <2>1. /\ stack'[i].dir = stack[i].dir /\ m \in DOMAIN stack[i].left
        /\ i = Len(stack) => m # n
    BY <1>2, <1>4, <1>5
  <2>2. /\ Append(stack[i].dir, m) \in Places /\ entry[Append(stack[i].dir, m)].type = "none"
    BY <2>1 DEF WalkInv, Chained, LeftUnmade, Made
  <2>3. Append(stack[i].dir, m) # p
    <3>1. stack[i].dir \in Places /\ m \in Names /\ n \in Names
      BY <1>4, <2>1, FrameFacts
    <3>2. /\ Front(Append(stack[i].dir, m)) = stack[i].dir
          /\ Last(Append(stack[i].dir, m)) = m /\ Last(p) = n
      BY <1>0, <1>4, <3>1, AppendIsPlace
    <3>3. CASE i = Len(stack)
      BY <2>1, <3>2, <3>3
    <3>4. CASE i # Len(stack)
      <4>0. Len(stack) \in 1 .. Len(stack)
        BY <1>4
      <4>1. Len(stack[i].dir) = i - 1
        BY DEF WalkInv, Chained, Deep
      <4>2. Len(Top.dir) = Len(stack) - 1
        <5>1. Len(stack[Len(stack)].dir) = Len(stack) - 1
          BY <4>0 DEF WalkInv, Chained, Deep
        <5> QED  BY <1>4, <5>1
      <4>3. i - 1 # Len(stack) - 1
        BY <1>4, <3>4
      <4>4. stack[i].dir # Top.dir
        BY <4>1, <4>2, <4>3
      <4> QED  BY <1>2, <3>2, <4>4
    <3> QED  BY <3>3, <3>4
  <2> QED  BY <1>9, <2>1, <2>2, <2>3
<1>14. AtEntry'
  <2>1. CASE pc' = "stat"
    <3>1. t \in {"file", "dir"}
      BY <1>1, <1>3, <2>1
    <3>2. Top'.at # Root /\ Front(Top'.at) = Top'.dir
      BY <1>2, <1>5
    <3>3. ~ Linked(p)'
      BY <1>2, <1>7, <3>1
    <3>4. \A c \in Places \ {Root} : Front(c) = p => entry'[c].type = "none"
      <4>1. p # Front(p)
        BY <1>2, FrontIsPlace
      <4> QED  BY <1>2, <1>9, <4>1 DEF Bare, Made
    <3>5. Top'.at = p /\ entry'[Top'.at].type \in {"file", "dir"}
      BY <1>2, <1>5, <1>9, <3>1
    <3>6. Bare(Top.at)'
      BY <3>4, <3>5 DEF Bare, Made
    <3>7. ~ Linked(Top.at)'
      BY <3>3, <3>5 DEF Linked
    <3> QED  BY <2>1, <3>2, <3>5, <3>6, <3>7 DEF AtEntry
  <2>2. CASE pc' = "readdir"
    BY <2>2 DEF AtEntry
  <2> QED  BY <1>1, <1>3, <2>1, <2>2
<1>15. EntriesOK'
  <2> SUFFICES ASSUME NEW q \in Places \ {Root}
               PROVE  /\ entry'[q].type # "none" =>
                            Front(q) = Root \/ entry'[Front(q)].type # "none"
                      /\ Linked(q)' => entry'[q].type # "none"
    BY DEF EntriesOK, Made
  <2>1. \A x \in Places : entry[x].type # "none" => entry'[x].type # "none"
    BY <1>9, <1>11
  <2>2. Front(q) \in Places
    BY FrontIsPlace
  <2>3. CASE q = p
    <3>1. Front(q) = Root \/ Made(Front(q))
      BY <1>2, <1>4, <2>3 DEF WalkInv, Chained, Deep
    <3> QED  BY <1>9, <1>11, <2>1, <2>2, <2>3, <3>1 DEF Made
  <2>4. CASE q # p
    BY <1>7, <1>9, <2>1, <2>2, <2>4 DEF WalkInv, Chained, EntriesOK, Made
  <2> QED  BY <2>3, <2>4
<1>16. Shapeless'
  BY <1>9 DEF WalkInv, Chained, Shapeless, NoEntry
<1> QED  BY <1>10, <1>12, <1>13, <1>14, <1>15, <1>16 DEF WalkInv, Chained

\* What the entry says changes, not whether there is one.
LEMMA SameEntries ==
    ASSUME WalkInv, \A p \in Places : entry'[p].type = entry[p].type
    PROVE  /\ stack' = stack => Deep' /\ LeftUnmade'
           /\ \A d \in Places : Bare(d) => \A c \in Places \ {Root} : Front(c) = d => ~ Made(c)'
           /\ kids' = kids => EntriesOK'
<1>1. ASSUME stack' = stack PROVE Deep'
  <2>1. \A i \in 1 .. Len(stack) : stack[i].dir \in Places
    BY FrameFacts DEF WalkInv
  <2> QED  BY <1>1, <2>1 DEF WalkInv, Chained, Deep, Made
<1>2. ASSUME stack' = stack PROVE LeftUnmade'
  BY <1>2 DEF WalkInv, Chained, LeftUnmade, Made
<1>3. ASSUME kids' = kids PROVE EntriesOK'
  <2>1. \A p \in Places \ {Root} : Front(p) \in Places
    BY FrontIsPlace
  <2> QED  BY <1>3, <2>1 DEF WalkInv, Chained, EntriesOK, Made, Linked
<1> QED  BY <1>1, <1>2, <1>3 DEF Bare, Made

LEMMA MetadataRead ==
    ASSUME WalkInv, ba_get_metadata
    PROVE  WalkInv'
<1>0. PICK p, m : p = Top.at /\ m = Metadata(p)
  OBVIOUS
<1>1. /\ pc = "stat" /\ entry' = [entry EXCEPT ![p].meta = Metadata(p)]
      /\ disk' = disk /\ changed' = changed /\ kids' = kids /\ data_size' = data_size
  BY <1>0 DEF ba_get_metadata, fs
<1>2. /\ Typed /\ Len(stack) \in Nat /\ Len(stack) >= 1 /\ Top = stack[Len(stack)]
      /\ Top \in Frames /\ p \in Places
  BY <1>0, TopFacts DEF WalkInv, Typed
<1>3. /\ p # Root /\ Front(p) = Top.dir /\ ~ Linked(p)
      /\ entry[p].type \in {"file", "dir"} /\ Bare(p)
  BY <1>0, <1>1 DEF WalkInv, Chained, AtEntry
<1>4. entry[p] \in Entries
  BY <1>2 DEF Typed
<1>5. /\ entry'[p] = [entry[p] EXCEPT !.meta = Metadata(p)]
      /\ \A q \in Places \ {p} : entry'[q] = entry[q]
  BY <1>1, <1>2 DEF Typed
<1>6. [entry[p] EXCEPT !.meta = Metadata(p)] \in Entries
  <2>1. Metadata(p) \in BOOLEAN
    BY DEF Metadata
  <2> QED  BY <1>4, <2>1, EntryExcept
<1>7. entry' \in [Places -> Entries]
  <2>1. entry' = [entry EXCEPT ![p] = [entry[p] EXCEPT !.meta = Metadata(p)]]
    BY <1>1
  <2> QED  BY <1>2, <1>6, <2>1 DEF Typed
<1>8. \A q \in Places : entry'[q].type = entry[q].type
  <2>1. entry'[p].type = entry[p].type
    BY <1>4, <1>5 DEF Entries
  <2> QED  BY <1>5, <2>1
<1>9. EntriesOK'
  BY <1>1, <1>8, SameEntries
<1>10. Shapeless'
  BY <1>3, <1>5, <1>8 DEF WalkInv, Chained, Shapeless
<1>11. CASE entry[p].type = "file"
  <2>1. pc' = "fsize" /\ stack' = stack
    BY <1>0, <1>11 DEF ba_get_metadata
  <2>2. Typed'
    BY <1>1, <1>2, <1>7, <2>1 DEF Typed
  <2>3. Deep' /\ LeftUnmade'
    BY <1>8, <2>1, SameEntries
  <2>4. AtEntry'
    BY <1>0, <1>1, <1>2, <1>3, <1>8, <1>11, <2>1 DEF AtEntry, Linked, Top
  <2> QED  BY <1>9, <1>10, <2>2, <2>3, <2>4 DEF WalkInv, Chained
<1>12. CASE entry[p].type # "file"
  <2>0. PICK f : f = Activation(p)
    OBVIOUS
  <2>1. pc' = "opendir" /\ stack' = Append(stack, f)
    BY <1>0, <1>12, <2>0 DEF ba_get_metadata
  <2>2. f \in Frames /\ f.dir = p /\ DOMAIN f.left = {}
    BY <1>2, <2>0, FirstActivation
  <2>3. /\ stack' \in Seq(Frames) /\ Len(stack') = Len(stack) + 1 /\ stack'[Len(stack) + 1] = f
        /\ \A i \in 1 .. Len(stack) : stack'[i] = stack[i]
    BY <1>2, <2>1, <2>2, AppendProperties DEF Typed
  <2>4. Typed'
    BY <1>1, <1>2, <1>7, <2>1, <2>3 DEF Typed
  <2>5. Top' = f
    BY <1>2, <2>3 DEF Top, Last
  <2>6. \A i \in 1 .. Len(stack') : i \in 1 .. Len(stack) \/ i = Len(stack) + 1
    BY <1>2, <2>3
  <2>7. Deep'
    <3>1. ASSUME NEW i \in 1 .. Len(stack')
          PROVE  /\ Len(stack'[i].dir) = i - 1
                 /\ stack'[i].dir = Root \/ entry'[stack'[i].dir].type # "none"
      <4>1. CASE i = Len(stack) + 1
        <5>0. Len(stack) \in 1 .. Len(stack)
          BY <1>2
        <5>1. Len(Top.dir) = Len(stack) - 1
          BY <1>2, <5>0 DEF WalkInv, Chained, Deep
        <5>2. Len(p) = Len(stack)
          BY <1>2, <1>3, <5>1, FrontIsPlace, PlaceSeq, LenProperties
        <5> QED  BY <1>2, <1>3, <1>8, <2>2, <2>3, <4>1, <5>2
      <4>2. CASE i \in 1 .. Len(stack)
        <5>1. stack[i].dir \in Places
          BY <1>2, <4>2, FrameFacts
        <5> QED  BY <1>8, <2>3, <4>2, <5>1 DEF WalkInv, Chained, Deep, Made
      <4> QED  BY <2>6, <4>1, <4>2
    <3>2. ASSUME NEW i \in 1 .. Len(stack') - 1 PROVE stack'[i + 1].dir = stack'[i].at
      <4>1. CASE i = Len(stack)
        BY <1>0, <1>2, <2>2, <2>3, <4>1
      <4>2. CASE i # Len(stack)
        <5>1. i \in 1 .. Len(stack) - 1 /\ i \in 1 .. Len(stack) /\ i + 1 \in 1 .. Len(stack)
          BY <1>2, <2>3, <4>2
        <5> QED  BY <2>3, <5>1 DEF WalkInv, Chained, Deep
      <4> QED  BY <4>1, <4>2
    <3> QED  BY <3>1, <3>2 DEF Deep, Made
  <2>8. LeftUnmade'
    <3> SUFFICES ASSUME NEW i \in 1 .. Len(stack'), NEW n \in DOMAIN stack'[i].left
                 PROVE  /\ Append(stack'[i].dir, n) \in Places
                        /\ entry'[Append(stack'[i].dir, n)].type = "none"
      BY DEF LeftUnmade, Made
    <3>1. i \in 1 .. Len(stack)
      BY <2>2, <2>3, <2>6
    <3> QED  BY <1>8, <2>3, <3>1 DEF WalkInv, Chained, LeftUnmade, Made
  <2>9. AtEntry'
    BY <1>3, <1>8, <2>1, <2>2, <2>5 DEF AtEntry, Bare, Made
  <2> QED  BY <1>9, <1>10, <2>4, <2>7, <2>8, <2>9 DEF WalkInv, Chained
<1> QED  BY <1>11, <1>12

LEMMA SizeRead ==
    ASSUME WalkInv, ba_fsize
    PROVE  WalkInv'
<1>0. PICK p : p = Top.at
  OBVIOUS
<1>1. pc = "fsize" /\ UNCHANGED fs
  BY DEF ba_fsize
<1>2. /\ Typed /\ Len(stack) \in Nat /\ Len(stack) >= 1 /\ Top = stack[Len(stack)]
      /\ Top \in Frames /\ p \in Places
  BY <1>0, TopFacts DEF WalkInv, Typed
<1>3. p # Root /\ Front(p) = Top.dir /\ ~ Linked(p) /\ entry[p].type = "file"
  BY <1>0, <1>1 DEF WalkInv, Chained, AtEntry
<1>4. CASE ~ DataSize
  <2>1. pc' = "crash" /\ stack' = stack /\ UNCHANGED made /\ UNCHANGED fs
    BY <1>1, <1>4 DEF ba_fsize
  <2>2. Typed'
    BY <1>2, <2>1 DEF Typed, made, fs
  <2>3. AtEntry'
    BY <1>0, <1>3, <2>1 DEF AtEntry, Linked, Top, made
  <2>4. Deep' /\ LeftUnmade' /\ EntriesOK' /\ Shapeless'
    BY <2>1 DEF WalkInv, Chained, Deep, LeftUnmade, EntriesOK, Shapeless, Made, Linked, made
  <2> QED  BY <2>2, <2>3, <2>4 DEF WalkInv, Chained
<1>5. CASE DataSize /\ ~ HasSize(p)
  BY <1>0, <1>1, <1>5, Returned DEF ba_fsize, Error
<1>6. CASE DataSize /\ HasSize(p)
  <2>1. /\ entry' = [entry EXCEPT ![p].size = disk[p].size, ![p].start = data_size]
        /\ data_size' = data_size + disk[p].size
        /\ Link(p) /\ pc' = "readdir" /\ stack' = stack
    BY <1>0, <1>6 DEF ba_fsize, NextStart
  <2>2. entry[p] \in Entries /\ disk[p].size \in Nat /\ data_size \in Nat
    BY <1>2, NodeFacts DEF Typed, Disks
  <2>3. entry' = [entry EXCEPT ![p] = [entry[p] EXCEPT !.size = disk[p].size, !.start = data_size]]
    BY <1>2, <2>1 DEF Typed
  <2>4. entry' \in [Places -> Entries]
    <3>1. [entry[p] EXCEPT !.size = disk[p].size, !.start = data_size] \in Entries
      BY <2>2, EntryExcept
    <3> QED  BY <1>2, <2>3, <3>1 DEF Typed
  <2>5. /\ \A q \in Places \ {p} : entry'[q] = entry[q]
        /\ entry'[p].type = entry[p].type
    BY <1>2, <2>2, <2>3 DEF Typed, Entries
  <2>6. /\ kids' \in [Places -> Seq(Places \ {Root})]
        /\ \A q \in Places : \A i \in DOMAIN kids'[q] : Front(kids'[q][i]) = q
        /\ \A q \in Places \ {Root} : Linked(q)' <=> Linked(q) \/ q = p
    BY <1>2, <1>3, <2>1, LinkStep
  <2>7. Typed'
    <3>1. data_size' \in Nat
      BY <2>1, <2>2
    <3>2. disk' = disk /\ changed' = changed
      BY <1>1 DEF fs
    <3>3. kids' \in [Places -> Seq(Places \ {Root})]
      BY <2>6
    <3>4. \A q \in Places : \A i \in DOMAIN kids'[q] : Front(kids'[q][i]) = q
      BY <2>6
    <3>5. stack' = stack /\ pc' = "readdir"
      BY <2>1
    <3> QED  BY <1>2, <2>4, <3>1, <3>2, <3>3, <3>4, <3>5 DEF Typed
  <2>8. \A q \in Places : entry'[q].type = entry[q].type
    BY <2>5
  <2>9. Deep' /\ LeftUnmade'
    BY <2>1, <2>8, SameEntries
  <2>10. AtEntry'
    BY <2>1 DEF AtEntry
  <2>11. EntriesOK'
    <3>1. \A q \in Places \ {Root} : Front(q) \in Places
      BY FrontIsPlace
    <3> QED  BY <1>3, <2>6, <2>8, <3>1 DEF WalkInv, Chained, EntriesOK, Made
  <2>12. Shapeless'
    BY <1>3, <2>5 DEF WalkInv, Chained, Shapeless
  <2> QED  BY <2>7, <2>9, <2>10, <2>11, <2>12 DEF WalkInv, Chained
<1> QED  BY <1>4, <1>5, <1>6

LEMMA WalkStep ==
    ASSUME WalkInv, [Next]_vars
    PROVE  WalkInv'
<1>1. CASE UNCHANGED vars
  BY <1>1 DEF vars, fs, made, WalkInv, Typed, Chained, Deep, LeftUnmade, AtEntry, EntriesOK,
              Shapeless, Made, Bare, Linked, Top
<1>2. CASE Walk
  BY <1>2, Opened, NameRead, Closed, MetadataRead, SizeRead DEF Walk
<1>3. CASE Running /\ \E p \in Places \ {Root} : Change(p)
  BY <1>3, Changed
<1> QED  BY <1>1, <1>2, <1>3 DEF Next

LEMMA WalkTypes == WalkInv => TypeOK
<1> SUFFICES ASSUME WalkInv PROVE TypeOK
  OBVIOUS
<1>1. /\ disk \in Disks /\ changed \subseteq Places /\ data_size \in Nat
      /\ pc \in {"opendir", "readdir", "stat", "fsize", "done", "crash"}
  BY DEF WalkInv, Typed
<1>2. ASSUME NEW i \in DOMAIN stack
      PROVE  DOMAIN stack[i].left \subseteq Names /\ {stack[i].dir, stack[i].at} \subseteq Places
  <2>1. i \in 1 .. Len(stack)
    BY LenProperties DEF WalkInv, Typed
  <2> QED  BY <2>1, FrameFacts DEF WalkInv
<1>3. ASSUME NEW p \in Places
      PROVE  /\ entry[p].type \in {"none", "file", "dir", "untyped"} /\ entry[p].size \in Nat
             /\ entry[p].type \in {"none", "untyped"} =>
                  entry[p] = [NoEntry EXCEPT !.type = entry[p].type]
             /\ \A i \in DOMAIN kids[p] : Front(kids[p][i]) = p
  <2>1. entry[p] \in Entries
    BY DEF WalkInv, Typed
  <2>2. entry[p].type \in {"none", "file", "dir", "untyped"} /\ entry[p].size \in Nat
    BY <2>1 DEF Entries
  <2>3. \A i \in DOMAIN kids[p] : Front(kids[p][i]) = p
    BY DEF WalkInv, Typed
  <2>4. entry[p].type \in {"none", "untyped"} => entry[p] = [NoEntry EXCEPT !.type = entry[p].type]
    BY DEF WalkInv, Chained, Shapeless
  <2> QED  BY <2>2, <2>3, <2>4
<1> QED  BY <1>1, <1>2, <1>3 DEF TypeOK

\* Every list of the tree that ba_load_fs_tree() makes holds only what is in its own
\* directory, and every directory is read below the one its caller has come to, whatever
\* other programs do and however deep it gets.
THEOREM WalkTypeOK == Spec => []TypeOK
<1>1. Spec => []WalkInv
  BY WalkInit, WalkStep, PTL DEF Spec
<1> QED  BY <1>1, WalkTypes, PTL

(***************************************************************************)
(* What is known of a place nobody touched.                                *)
(***************************************************************************)
TypeFor(kind) == IF kind = "locked" THEN "dir" ELSE kind

\* What readdir_r() is going to say.
ListedOK(p, kind) ==
    /\ kind \in {"file", "dir", "other"}
    /\ Untouched(p) => disk[p] # Nothing /\ kind = TypeFor(disk[p].kind)

\* What the entry says; a file's may still have to be looked up.
EntryAgrees(p) ==
    /\ disk[p] # Nothing
    /\ entry[p].type = IF TypeFor(disk[p].kind) = "other" THEN "untyped" ELSE TypeFor(disk[p].kind)
    /\ (pc = "stat" => p # Top.at) => (entry[p].type # "untyped" => entry[p].meta)
    /\ (pc \in {"stat", "fsize", "crash"} => p # Top.at) =>
         (entry[p].type = "file" => entry[p].size = disk[p].size)

Agreed ==
    /\ \A i \in 1 .. Len(stack) : \A n \in DOMAIN stack[i].left :
          ListedOK(Append(stack[i].dir, n), stack[i].left[n])
    /\ \A p \in Places \ {Root} : Made(p) /\ Untouched(p) => EntryAgrees(p)

LEMMA AgreedInit == Init /\ WalkInv => Agreed
<1> SUFFICES ASSUME Init, WalkInv PROVE Agreed
  OBVIOUS
<1>1. Len(stack) = 1 /\ stack[1] = Activation(Root)
  BY DEF Init
<1>2. DOMAIN stack[1].left = {}
  BY <1>1, RootIsPlace, FirstActivation
<1>3. \A p \in Places : ~ Made(p)
  BY DEF Init, Made, NoEntry
<1> QED  BY <1>1, <1>2, <1>3 DEF Agreed

LEMMA AgreedOnReturn ==
    ASSUME WalkInv, Agreed, Return, UNCHANGED <<fs, entry, data_size>>,
           pc \in {"stat", "fsize", "crash"} => ~ Untouched(Top.at)
    PROVE  Agreed'
<1>1. /\ pc' \in {"done", "readdir"} /\ Len(stack') <= Len(stack)
      /\ \A i \in 1 .. Len(stack') : stack'[i] = stack[i]
  BY ReturnStep
<1>2. disk' = disk /\ changed' = changed /\ entry' = entry
  BY DEF fs
<1>3. \A i \in 1 .. Len(stack') : i \in 1 .. Len(stack)
  BY <1>1, LenProperties DEF WalkInv, Typed
<1>4. \A i \in 1 .. Len(stack') : \A n \in DOMAIN stack'[i].left :
          ListedOK(Append(stack[i].dir, n), stack[i].left[n])
  BY <1>1, <1>3 DEF Agreed
<1>5. ASSUME NEW p \in Places \ {Root}, Made(p), Untouched(p) PROVE EntryAgrees(p)'
  <2>1. EntryAgrees(p)
    BY <1>5 DEF Agreed
  <2>2. pc \in {"stat", "fsize", "crash"} => p # Top.at
    BY <1>5
  <2> QED  BY <1>1, <1>2, <2>1, <2>2 DEF EntryAgrees
<1> QED  BY <1>1, <1>2, <1>4, <1>5 DEF Agreed, ListedOK, Untouched, Made

LEMMA AgreedOnChange ==
    ASSUME WalkInv, Agreed, NEW c \in Places \ {Root}, Change(c)
    PROVE  Agreed'
<1>1. changed' = changed \cup {c} /\ \A p \in Places : c \notin Above(p) => disk'[p] = disk[p]
  BY ChangeStep DEF WalkInv, Typed
<1>2. stack' = stack /\ pc' = pc /\ entry' = entry
  BY DEF Change, made
<1>3. ASSUME NEW p \in Places, Untouched(p)' PROVE Untouched(p) /\ disk'[p] = disk[p]
  BY <1>1, <1>3 DEF Untouched
<1>4. \A i \in 1 .. Len(stack) : \A n \in DOMAIN stack[i].left :
          ListedOK(Append(stack[i].dir, n), stack[i].left[n])'
  BY <1>2, <1>3 DEF WalkInv, Chained, LeftUnmade, Agreed, ListedOK
<1>5. ASSUME NEW p \in Places \ {Root}, Made(p), Untouched(p)' PROVE EntryAgrees(p)'
  <2>1. EntryAgrees(p) /\ disk'[p] = disk[p]
    BY <1>3, <1>5 DEF Agreed
  <2> QED  BY <1>2, <2>1 DEF EntryAgrees, Top
<1> QED  BY <1>2, <1>4, <1>5 DEF Agreed, Made

LEMMA AgreedOnOpen ==
    ASSUME WalkInv, Agreed, KnowsTypes, opendir
    PROVE  Agreed'
<1>1. pc = "opendir" /\ UNCHANGED <<fs, entry, data_size>>
  BY DEF opendir
<1>2. CASE disk[Top.dir].kind # "dir"
  BY <1>1, <1>2, AgreedOnReturn DEF opendir, Error
<1>3. CASE disk[Top.dir].kind = "dir"
  <2>0. PICK f : f = [Top EXCEPT !.left = Listing(Top.dir)]
    OBVIOUS
  <2>1. pc' = "readdir" /\ Reading(f)
    BY <1>3, <2>0 DEF opendir
  <2>2. /\ Typed /\ Len(stack) \in Nat /\ Len(stack) >= 1 /\ Top = stack[Len(stack)]
        /\ Top \in Frames /\ Top.dir \in Places
    BY TopFacts DEF WalkInv, Typed
  <2>3. f \in Frames /\ f.dir = Top.dir /\ f.left = Listing(Top.dir)
    BY <2>0, <2>2, ListingFacts DEF Frames
  <2>4. /\ Len(stack') = Len(stack) /\ stack'[Len(stack)] = f
        /\ \A i \in 1 .. Len(stack) - 1 : stack'[i] = stack[i]
    BY <2>1, <2>2, <2>3, ReadingStep
  <2>5. disk' = disk /\ changed' = changed /\ entry' = entry
    BY <1>1 DEF fs
  <2>6. ASSUME NEW i \in 1 .. Len(stack'), NEW n \in DOMAIN stack'[i].left
        PROVE  ListedOK(Append(stack'[i].dir, n), stack'[i].left[n])
    <3>1. CASE i = Len(stack)
      <4>1. /\ Append(Top.dir, n) \in Places /\ disk[Append(Top.dir, n)] # Nothing
            /\ Listing(Top.dir)[n] = (IF disk[Append(Top.dir, n)].kind = "locked" THEN "dir"
                                      ELSE disk[Append(Top.dir, n)].kind)
        BY <2>2, <2>3, <2>4, <3>1, ListingFacts
      <4>2. disk[Append(Top.dir, n)].kind \in {"dir", "locked", "other", "file"}
        BY <2>2, <4>1, NodeFacts DEF Typed, Disks
      <4> QED  BY <2>3, <2>4, <3>1, <4>1, <4>2 DEF ListedOK, TypeFor
    <3>2. CASE i # Len(stack)
      <4>1. i \in 1 .. Len(stack) /\ stack'[i] = stack[i]
        BY <2>2, <2>4, <3>2
      <4> QED  BY <4>1 DEF Agreed
    <3> QED  BY <3>1, <3>2
  <2>7. ASSUME NEW p \in Places \ {Root}, Made(p), Untouched(p) PROVE EntryAgrees(p)'
    <3>1. EntryAgrees(p)
      BY <2>7 DEF Agreed
    <3> QED  BY <1>1, <2>1, <2>5, <3>1 DEF EntryAgrees
  <2> QED  BY <2>5, <2>6, <2>7 DEF Agreed, ListedOK, Untouched, Made
<1> QED  BY <1>2, <1>3

LEMMA AgreedOnName ==
    ASSUME WalkInv, Agreed, NEW n \in Names, readdir_r(n)
    PROVE  Agreed'
<1>0. PICK p, f, t :
        /\ p = Append(Top.dir, n)
        /\ f = [Top EXCEPT !.left = Without(@, n), !.at = p]
        /\ t = IF Top.left[n] \in {"file", "dir"} THEN Top.left[n] ELSE "untyped"
  OBVIOUS
<1>1. /\ pc = "readdir" /\ n \in DOMAIN Top.left /\ Reading(f)
      /\ entry' = [entry EXCEPT ![p].type = t]
      /\ disk' = disk /\ changed' = changed
  BY <1>0 DEF readdir_r, fs
<1>2. /\ p \in Places \ {Root} /\ entry[p] = NoEntry
      /\ f \in Frames /\ f.dir = Top.dir /\ f.at = p /\ DOMAIN f.left = DOMAIN Top.left \ {n}
      /\ \A m \in DOMAIN f.left : f.left[m] = Top.left[m]
  <2>1. NextIs(n, p, f)
    BY <1>0, <1>1, NextName
  <2> QED  BY <2>1 DEF NextIs
<1>3. \/ t \in {"file", "dir"} /\ pc' = "stat"
      \/ t = "untyped" /\ pc' = "readdir"
  BY <1>0, <1>1 DEF readdir_r
<1>4. /\ Typed /\ Len(stack) \in Nat /\ Len(stack) >= 1 /\ Top = stack[Len(stack)]
  BY TopFacts DEF WalkInv, Typed
<1>5. /\ Len(stack') = Len(stack) /\ Top' = f
      /\ stack'[Len(stack)] = f /\ \A i \in 1 .. Len(stack) - 1 : stack'[i] = stack[i]
  BY <1>1, <1>2, <1>4, ReadingStep
<1>6. /\ entry'[p] = [NoEntry EXCEPT !.type = t] /\ entry'[p].type = t
      /\ \A q \in Places \ {p} : entry'[q] = entry[q]
  BY <1>1, <1>2, <1>4 DEF Typed, NoEntry
<1>7. ASSUME NEW i \in 1 .. Len(stack'), NEW m \in DOMAIN stack'[i].left
      PROVE  ListedOK(Append(stack'[i].dir, m), stack'[i].left[m])
  <2>1. /\ i \in 1 .. Len(stack) /\ stack'[i].dir = stack[i].dir
        /\ m \in DOMAIN stack[i].left /\ stack'[i].left[m] = stack[i].left[m]
    BY <1>2, <1>4, <1>5
  <2> QED  BY <2>1 DEF Agreed
<1>8. ASSUME NEW q \in Places \ {Root}, Made(q)', Untouched(q) PROVE EntryAgrees(q)'
  <2>1. CASE q = p
    <3>1. /\ disk[p] # Nothing /\ Top.left[n] = TypeFor(disk[p].kind)
          /\ Top.left[n] \in {"file", "dir", "other"}
      <4>1. Len(stack) \in 1 .. Len(stack)
        BY <1>4
      <4>2. ListedOK(Append(Top.dir, n), Top.left[n])
        BY <1>1, <1>4, <4>1 DEF Agreed
      <4> QED  BY <1>0, <1>8, <2>1, <4>2 DEF ListedOK
    <3>2. Top'.at = p
      BY <1>2, <1>5
    <3>3. entry'[p].type = IF TypeFor(disk[p].kind) = "other" THEN "untyped"
                           ELSE TypeFor(disk[p].kind)
      BY <1>0, <1>6, <3>1
    <3> QED  BY <1>1, <1>3, <1>6, <2>1, <3>1, <3>2, <3>3 DEF EntryAgrees
  <2>2. CASE q # p
    <3>1. EntryAgrees(q)
      BY <1>6, <1>8, <2>2 DEF Agreed, Made
    <3> QED  BY <1>1, <1>6, <2>2, <3>1 DEF EntryAgrees
  <2> QED  BY <2>1, <2>2
<1> QED  BY <1>1, <1>7, <1>8 DEF Agreed, ListedOK, Untouched

LEMMA AgreedOnMetadata ==
    ASSUME WalkInv, Agreed, ba_get_metadata
    PROVE  Agreed'
<1>0. PICK p : p = Top.at
  OBVIOUS
<1>1. /\ pc = "stat" /\ entry' = [entry EXCEPT ![p].meta = Metadata(p)]
      /\ disk' = disk /\ changed' = changed
  BY <1>0 DEF ba_get_metadata, fs
<1>2. Typed /\ Len(stack) \in Nat /\ Len(stack) >= 1 /\ p \in Places /\ entry[p] \in Entries
  BY <1>0, TopFacts DEF WalkInv, Typed
<1>3. entry[p].type \in {"file", "dir"}
  BY <1>0, <1>1 DEF WalkInv, Chained, AtEntry
<1>4. /\ \A q \in Places \ {p} : entry'[q] = entry[q]
      /\ entry'[p].type = entry[p].type /\ entry'[p].size = entry[p].size
      /\ entry'[p].meta <=> disk[p] # Nothing
  BY <1>1, <1>2 DEF Typed, Entries, Metadata
<1>5. \/ entry[p].type = "file" /\ pc' = "fsize" /\ stack' = stack /\ Top' = Top
      \/ entry[p].type = "dir" /\ pc' = "opendir" /\ stack' = Append(stack, Activation(p))
  BY <1>0, <1>3 DEF ba_get_metadata, Top
<1>6. ASSUME NEW i \in 1 .. Len(stack'), NEW m \in DOMAIN stack'[i].left
      PROVE  i \in 1 .. Len(stack) /\ stack'[i] = stack[i]
  <2>1. CASE stack' = stack
    BY <2>1
  <2>2. CASE stack' = Append(stack, Activation(p))
    <3>1. Activation(p) \in Frames /\ DOMAIN Activation(p).left = {}
      BY <1>2, FirstActivation
    <3>2. /\ Len(stack') = Len(stack) + 1 /\ stack'[Len(stack) + 1] = Activation(p)
          /\ \A j \in 1 .. Len(stack) : stack'[j] = stack[j]
      BY <1>2, <2>2, <3>1, AppendProperties DEF Typed
    <3>3. i # Len(stack) + 1
      BY <3>1, <3>2
    <3> QED  BY <1>2, <3>2, <3>3
  <2> QED  BY <1>5, <2>1, <2>2
<1>7. \A i \in 1 .. Len(stack') : \A m \in DOMAIN stack'[i].left :
         ListedOK(Append(stack'[i].dir, m), stack'[i].left[m])
  BY <1>6 DEF Agreed
<1>8. ASSUME NEW q \in Places \ {Root}, Made(q)', Untouched(q) PROVE EntryAgrees(q)'
  <2>1. EntryAgrees(q)
    BY <1>4, <1>8 DEF Agreed, Made
  <2>2. CASE q = p
    BY <1>0, <1>1, <1>4, <1>5, <2>1, <2>2 DEF EntryAgrees
  <2>3. CASE q # p
    BY <1>0, <1>1, <1>4, <1>5, <2>1, <2>3 DEF EntryAgrees
  <2> QED  BY <2>2, <2>3
<1> QED  BY <1>1, <1>7, <1>8 DEF Agreed, ListedOK, Untouched

LEMMA AgreedOnSize ==
    ASSUME WalkInv, Agreed, ba_fsize
    PROVE  Agreed'
<1>0. PICK p : p = Top.at
  OBVIOUS
<1>1. pc = "fsize" /\ disk' = disk /\ changed' = changed
  BY DEF ba_fsize, fs
<1>2. Typed /\ p \in Places /\ entry[p] \in Entries
  BY <1>0, TopFacts DEF WalkInv, Typed
<1>3. p # Root /\ entry[p].type = "file" /\ Made(p)
  BY <1>0, <1>1 DEF WalkInv, Chained, AtEntry, Made
<1>4. Untouched(p) => HasSize(p)
  BY <1>2, <1>3 DEF Agreed, EntryAgrees, TypeFor, HasSize
<1>5. CASE ~ DataSize
  <2>1. pc' = "crash" /\ stack' = stack /\ entry' = entry /\ Top' = Top
    BY <1>5 DEF ba_fsize, made, Top
  <2> QED  BY <1>1, <2>1 DEF Agreed, ListedOK, EntryAgrees, Untouched, Made
<1>6. CASE DataSize /\ ~ HasSize(p)
  BY <1>0, <1>1, <1>4, <1>6, AgreedOnReturn DEF ba_fsize, Error, fs
<1>7. CASE DataSize /\ HasSize(p)
  <2>1. /\ entry' = [entry EXCEPT ![p].size = disk[p].size, ![p].start = data_size]
        /\ pc' = "readdir" /\ stack' = stack
    BY <1>0, <1>7 DEF ba_fsize, NextStart
  <2>2. /\ \A q \in Places \ {p} : entry'[q] = entry[q]
        /\ entry'[p].type = entry[p].type /\ entry'[p].size = disk[p].size
        /\ entry'[p].meta <=> entry[p].meta
    BY <1>2, <2>1 DEF Typed, Entries
  <2>3. ASSUME NEW q \in Places \ {Root}, Made(q)', Untouched(q) PROVE EntryAgrees(q)'
    <3>1. EntryAgrees(q)
      BY <2>2, <2>3 DEF Agreed, Made
    <3>2. CASE q = p
      BY <1>0, <1>1, <2>1, <2>2, <3>1, <3>2 DEF EntryAgrees
    <3>3. CASE q # p
      BY <1>0, <1>1, <2>1, <2>2, <3>1, <3>3 DEF EntryAgrees
    <3> QED  BY <3>2, <3>3
  <2> QED  BY <1>1, <2>1, <2>3 DEF Agreed, ListedOK, Untouched
<1> QED  BY <1>5, <1>6, <1>7

LEMMA AgreedStep ==
    ASSUME WalkInv, Agreed, KnowsTypes, [Next]_vars
    PROVE  Agreed'
<1>1. CASE UNCHANGED vars
  BY <1>1 DEF vars, fs, made, Agreed, ListedOK, EntryAgrees, Untouched, Made, Top
<1>2. CASE opendir
  BY <1>2, AgreedOnOpen
<1>3. CASE \E n \in Names : readdir_r(n)
  BY <1>3, AgreedOnName
<1>4. CASE closedir
  BY <1>4, AgreedOnReturn DEF closedir
<1>5. CASE ba_get_metadata \/ ba_fsize
  BY <1>5, AgreedOnMetadata, AgreedOnSize
<1>6. CASE Running /\ \E p \in Places \ {Root} : Change(p)
  BY <1>6, AgreedOnChange
<1> QED  BY <1>1, <1>2, <1>3, <1>4, <1>5, <1>6 DEF Next, Walk

LEMMA LoadedAgrees == WalkInv /\ Agreed => LoadedAsItIs
<1> SUFFICES ASSUME WalkInv, Agreed, NEW p \in Loaded, Untouched(p)
             PROVE  /\ disk[p].kind \in (CASE entry[p].type = "file" -> {"file"}
                                           [] entry[p].type = "dir"  -> {"dir", "locked"}
                                           [] OTHER                  -> {"other"})
                    /\ entry[p].type = "file" => entry[p].size = disk[p].size
                    /\ entry[p].type # "untyped" => entry[p].meta
  BY DEF LoadedAsItIs
<1>1. p \in Places \ {Root} /\ Linked(p)
  BY AboveFacts DEF Loaded
<1>2. Made(p) /\ disk[p] \in Nodes
  BY <1>1 DEF WalkInv, Typed, Disks, Chained, EntriesOK
<1>3. EntryAgrees(p)
  BY <1>1, <1>2 DEF Agreed
<1>4. pc \in {"stat", "fsize", "crash"} => p # Top.at
  BY <1>1 DEF WalkInv, Chained, AtEntry
<1>5. /\ entry[p].type = "file" => entry[p].size = disk[p].size
      /\ entry[p].type # "untyped" => entry[p].meta
  BY <1>3, <1>4 DEF EntryAgrees
<1>6. disk[p].kind \in {"dir", "locked", "other", "file"}
  BY <1>2, <1>3, NodeFacts DEF EntryAgrees
<1>7. disk[p].kind \in (CASE entry[p].type = "file" -> {"file"}
                          [] entry[p].type = "dir"  -> {"dir", "locked"}
                          [] OTHER                  -> {"other"})
  BY <1>3, <1>6 DEF EntryAgrees, TypeFor
<1> QED  BY <1>5, <1>7

\* While the filesystem tells the types of what its directories hold, whatever
\* ba_load_fs_tree() has loaded and nobody touched is what it is on the disk, with its
\* size and its times, whatever else was changed during the walk.
THEOREM LoadedIsTrue == ASSUME KnowsTypes PROVE Spec => []LoadedAsItIs
<1>1. Init => WalkInv /\ Agreed
  BY WalkInit, AgreedInit
<1>2. WalkInv /\ Agreed /\ [Next]_vars => (WalkInv /\ Agreed)'
  BY WalkStep, AgreedStep
<1>3. Spec => [](WalkInv /\ Agreed)
  BY <1>1, <1>2, PTL DEF Spec
<1> QED  BY <1>3, LoadedAgrees, PTL

(***************************************************************************)
(* What has not been come to yet.  p is quiet if nothing was changed in a  *)
(* directory above it; as long as it is not linked, some activation is     *)
(* still going to come to it, or to a directory above it.                  *)
(***************************************************************************)
Quiet(p) == \A x \in changed, top \in Above(p) : Front(x) # Front(top)

StillAhead(i, p) ==
    \/ \E n \in DOMAIN stack[i].left : Append(stack[i].dir, n) \in Above(p)
    \/ i < Len(stack) /\ stack[i].at = p
    \/ i = Len(stack) /\ pc = "fsize" /\ stack[i].at = p
    \/ i = Len(stack) /\ pc = "stat" /\ stack[i].at \in Above(p)
    \/ i = Len(stack) /\ pc = "opendir" /\ stack[i].dir \in Prefixes(p) \ {p}

Due(p) == disk[p] # Nothing /\ Quiet(p)

NothingMissed ==
    pc # "crash" =>
      \A p \in Places \ {Root} : Due(p) =>
         Linked(p) \/ (pc # "done" /\ \E i \in 1 .. Len(stack) : StillAhead(i, p))

LEMMA DueFacts ==
    ASSUME Typed, NEW p \in Places \ {Root}, Due(p)
    PROVE  /\ \A q \in Above(p) : Due(q) /\ Untouched(q) /\ (q # p => disk[q].kind = "dir")
           /\ disk[Root].kind = "dir"
<1>1. Sound(disk) /\ Root \in Prefixes(p) \ {p}
  BY AboveFacts DEF Typed, Disks
<1>2. \A q \in Prefixes(p) \ {p} : disk[q].kind = "dir"
  BY <1>1 DEF Sound, Due
<1>3. ASSUME NEW q \in Above(p) PROVE Due(q) /\ Untouched(q)
  <2>1. Above(q) \subseteq Above(p)
    BY AboveFacts
  <2>2. disk[q] # Nothing
    BY <1>2 DEF Due, Above, Nothing, Node
  <2>3. Quiet(q)
    BY <2>1 DEF Due, Quiet
  <2>4. Untouched(q)
    BY <2>1 DEF Due, Quiet, Untouched
  <2> QED  BY <2>2, <2>3, <2>4 DEF Due
<1> QED  BY <1>1, <1>2, <1>3 DEF Above

LEMMA MissedInit == Init /\ WalkInv => NothingMissed
<1> SUFFICES ASSUME Init, WalkInv, NEW p \in Places \ {Root}
             PROVE  StillAhead(1, p) /\ pc # "done" /\ Len(stack) = 1
  BY DEF NothingMissed
<1>1. Len(stack) = 1 /\ stack[1] = Activation(Root) /\ pc = "opendir"
  BY DEF Init
<1>2. stack[1].dir = Root /\ Root \in Prefixes(p) \ {p}
  BY <1>1, RootIsPlace, FirstActivation, AboveFacts
<1> QED  BY <1>1, <1>2 DEF StillAhead

LEMMA MissedOnReturn ==
    ASSUME WalkInv, NothingMissed, Return, UNCHANGED <<fs, entry, data_size>>, Running,
           \A p \in Places \ {Root} : Due(p) => ~ StillAhead(Len(stack), p)
    PROVE  NothingMissed'
<1>1. /\ Len(stack) \in Nat /\ Len(stack) >= 1 /\ Top = stack[Len(stack)]
      /\ Len(stack') \in Nat /\ pc' \in {"done", "readdir"}
      /\ \A i \in 1 .. Len(stack') : stack'[i] = stack[i]
      /\ \A p \in Places \ {Root} : Linked(p)' <=> Linked(p) \/ (Len(stack) > 1 /\ p = Top.dir)
      /\ IF Len(stack) = 1 THEN pc' = "done" /\ stack' = stack
         ELSE pc' = "readdir" /\ Len(stack') = Len(stack) - 1
  BY ReturnStep, TopFacts, LenProperties DEF WalkInv, Typed
<1>2. disk' = disk /\ changed' = changed
  BY DEF fs
<1>3. ASSUME NEW p \in Places \ {Root}, Due(p), ~ Linked(p)'
      PROVE  pc' # "done" /\ \E i \in 1 .. Len(stack') : StillAhead(i, p)'
  <2>1. ~ Linked(p) /\ (Len(stack) > 1 => p # Top.dir)
    BY <1>1, <1>3
  <2>2. PICK i \in 1 .. Len(stack) : StillAhead(i, p)
    BY <1>3, <2>1 DEF NothingMissed, Running
  <2>3. i # Len(stack)
    BY <1>3, <2>2
  <2>4. Len(stack) > 1 /\ pc' = "readdir" /\ Len(stack') = Len(stack) - 1
        /\ i \in 1 .. Len(stack') /\ stack'[i] = stack[i]
    BY <1>1, <2>3
  <2>5. i = Len(stack') => stack[i].at = Top.dir
    <3>1. i \in 1 .. Len(stack) - 1
      BY <1>1, <2>3
    <3>2. stack[i + 1].dir = stack[i].at
      BY <3>1 DEF WalkInv, Chained, Deep
    <3> QED  BY <1>1, <2>4, <3>2
  <2>6. StillAhead(i, p)'
    BY <1>1, <2>1, <2>2, <2>3, <2>4, <2>5 DEF StillAhead
  <2> QED  BY <2>4, <2>6
<1> QED  BY <1>1, <1>2, <1>3 DEF NothingMissed, Due, Quiet

LEMMA MissedOnChange ==
    ASSUME WalkInv, NothingMissed, NEW c \in Places \ {Root}, Change(c)
    PROVE  NothingMissed'
<1>1. changed' = changed \cup {c} /\ \A p \in Places : c \notin Above(p) => disk'[p] = disk[p]
  BY ChangeStep DEF WalkInv, Typed
<1>2. stack' = stack /\ pc' = pc /\ entry' = entry /\ kids' = kids
  BY DEF Change, made
<1>3. ASSUME NEW p \in Places \ {Root}, Due(p)' PROVE Due(p)
  <2>1. c \notin Above(p) /\ Quiet(p)
    BY <1>1, <1>3 DEF Due, Quiet
  <2> QED  BY <1>1, <1>3, <2>1 DEF Due
<1> QED  BY <1>2, <1>3 DEF NothingMissed, StillAhead, Linked

LEMMA MissedOnOpen ==
    ASSUME WalkInv, NothingMissed, opendir
    PROVE  NothingMissed'
<1>1. pc = "opendir" /\ UNCHANGED <<fs, entry, data_size>> /\ Running
  BY DEF opendir, Running
<1>2. /\ Typed /\ Len(stack) \in Nat /\ Len(stack) >= 1 /\ Top = stack[Len(stack)]
      /\ Top \in Frames /\ Top.dir \in Places /\ DOMAIN Top.left = {}
  BY <1>1, TopFacts DEF WalkInv, Typed, Chained, AtEntry
<1>3. CASE disk[Top.dir].kind # "dir"
  <2>1. ASSUME NEW p \in Places \ {Root}, Due(p), StillAhead(Len(stack), p) PROVE FALSE
    <3>1. Top.dir \in Prefixes(p) \ {p}
      BY <1>1, <1>2, <2>1 DEF StillAhead
    <3> QED  BY <1>2, <1>3, <2>1, <3>1, DueFacts DEF Above
  <2> QED  BY <1>1, <1>3, <2>1, MissedOnReturn DEF opendir, Error
<1>4. CASE disk[Top.dir].kind = "dir"
  <2>0. PICK f : f = [Top EXCEPT !.left = Listing(Top.dir)]
    OBVIOUS
  <2>1. pc' = "readdir" /\ Reading(f) /\ kids' = kids
    BY <1>4, <2>0 DEF opendir
  <2>2. f \in Frames /\ f.dir = Top.dir /\ f.left = Listing(Top.dir) /\ f.at = Top.at
    BY <1>2, <2>0, ListingFacts DEF Frames
  <2>3. /\ Len(stack') = Len(stack) /\ stack'[Len(stack)] = f
        /\ \A i \in 1 .. Len(stack) - 1 : stack'[i] = stack[i]
    BY <1>2, <2>1, <2>2, ReadingStep
  <2>4. disk' = disk /\ changed' = changed
    BY <1>1 DEF fs
  <2>5. ASSUME NEW p \in Places \ {Root}, Due(p), ~ Linked(p)
        PROVE  \E i \in 1 .. Len(stack') : StillAhead(i, p)'
    <3>1. PICK i \in 1 .. Len(stack) : StillAhead(i, p)
      BY <1>1, <2>5 DEF NothingMissed
    <3>2. CASE i = Len(stack)
      <4>1. Top.dir \in Prefixes(p) \ {p}
        BY <1>1, <1>2, <3>1, <3>2 DEF StillAhead
      <4>2. PICK n \in Names : Append(Top.dir, n) \in Above(p)
        BY <4>1, StepTowards
      <4>3. Append(Top.dir, n) \in Places /\ disk[Append(Top.dir, n)] # Nothing
        BY <1>2, <2>5, <4>2, DueFacts, AboveFacts DEF Due
      <4>4. n \in DOMAIN f.left
        BY <1>2, <2>2, <4>3, ListingFacts
      <4>5. StillAhead(i, p)'
        BY <2>2, <2>3, <3>2, <4>2, <4>4 DEF StillAhead
      <4> QED  BY <2>3, <4>5
    <3>3. CASE i # Len(stack)
      <4>1. stack'[i] = stack[i]
        BY <1>2, <2>3, <3>3
      <4>2. StillAhead(i, p)'
        BY <2>3, <3>1, <3>3, <4>1 DEF StillAhead
      <4> QED  BY <2>3, <4>2
    <3> QED  BY <3>2, <3>3
  <2> QED  BY <2>1, <2>4, <2>5 DEF NothingMissed, Due, Quiet, Linked
<1> QED  BY <1>3, <1>4

LEMMA MissedOnClose ==
    ASSUME WalkInv, NothingMissed, closedir
    PROVE  NothingMissed'
<1>1. pc = "readdir" /\ DOMAIN Top.left = {} /\ Running
  BY DEF closedir, Running
<1>2. Top = stack[Len(stack)]
  BY TopFacts DEF WalkInv
<1>3. \A p \in Places \ {Root} : ~ StillAhead(Len(stack), p)
  BY <1>1, <1>2 DEF StillAhead
<1> QED  BY <1>1, <1>3, MissedOnReturn DEF closedir

LEMMA MissedOnName ==
    ASSUME WalkInv, Agreed, NothingMissed, NEW n \in Names, readdir_r(n)
    PROVE  NothingMissed'
<1>0. PICK p, f : p = Append(Top.dir, n) /\ f = [Top EXCEPT !.left = Without(@, n), !.at = p]
  OBVIOUS
<1>1. /\ pc = "readdir" /\ n \in DOMAIN Top.left /\ Reading(f)
      /\ disk' = disk /\ changed' = changed
  BY <1>0 DEF readdir_r, fs
<1>2. /\ p \in Places \ {Root} /\ f \in Frames /\ f.dir = Top.dir /\ f.at = p
      /\ DOMAIN f.left = DOMAIN Top.left \ {n}
  <2>1. NextIs(n, p, f)
    BY <1>0, <1>1, NextName
  <2> QED  BY <2>1 DEF NextIs
<1>3. \/ Top.left[n] \in {"file", "dir"} /\ pc' = "stat" /\ kids' = kids
      \/ Top.left[n] \notin {"file", "dir"} /\ pc' = "readdir" /\ Link(p)
  BY <1>0, <1>1 DEF readdir_r
<1>4. Typed /\ Len(stack) \in Nat /\ Len(stack) >= 1 /\ Top = stack[Len(stack)]
  BY TopFacts DEF WalkInv, Typed
<1>5. /\ Len(stack') = Len(stack) /\ stack'[Len(stack)] = f
      /\ \A i \in 1 .. Len(stack) - 1 : stack'[i] = stack[i]
  BY <1>1, <1>2, <1>4, ReadingStep
<1>6. \A q \in Places \ {Root} : Linked(q) => Linked(q)'
  <2>1. kids' = kids => \A q \in Places \ {Root} : Linked(q) => Linked(q)'
    BY DEF Linked
  <2>2. Link(p) => \A q \in Places \ {Root} : Linked(q) => Linked(q)'
    BY <1>2, <1>4, LinkStep
  <2> QED  BY <1>3, <2>1, <2>2
<1>7. ASSUME NEW q \in Places \ {Root}, Due(q), ~ Linked(q)'
      PROVE  \E i \in 1 .. Len(stack') : StillAhead(i, q)'
  <2>1. PICK i \in 1 .. Len(stack) : StillAhead(i, q)
    BY <1>1, <1>6, <1>7 DEF NothingMissed
  <2>2. CASE i # Len(stack)
    <3>1. stack'[i] = stack[i]
      BY <1>4, <1>5, <2>2
    <3>2. StillAhead(i, q)'
      BY <1>5, <2>1, <2>2, <3>1 DEF StillAhead
    <3> QED  BY <1>5, <3>2
  <2>3. CASE i = Len(stack)
    <3>1. PICK m \in DOMAIN Top.left : Append(Top.dir, m) \in Above(q)
      BY <1>1, <1>4, <2>1, <2>3 DEF StillAhead
    <3>2. CASE m # n
      <4>1. StillAhead(i, q)'
        BY <1>2, <1>5, <2>3, <3>1, <3>2 DEF StillAhead
      <4> QED  BY <1>5, <4>1
    <3>3. CASE m = n /\ pc' = "stat"
      <4>1. StillAhead(i, q)'
        BY <1>0, <1>2, <1>5, <2>3, <3>1, <3>3 DEF StillAhead
      <4> QED  BY <1>5, <4>1
    <3>4. CASE m = n /\ pc' # "stat"
      <4>1. p \in Above(q) /\ Link(p) /\ Top.left[n] \notin {"file", "dir"}
        BY <1>0, <1>3, <3>1, <3>4
      <4>2. p # q
        BY <1>2, <1>4, <1>7, <4>1, LinkStep
      <4>3. disk[p].kind = "dir" /\ Untouched(p)
        BY <1>4, <1>7, <4>1, <4>2, DueFacts
      <4>4. Len(stack) \in 1 .. Len(stack)
        BY <1>4
      <4>5. ListedOK(p, Top.left[n])
        BY <1>0, <1>1, <1>4, <4>4 DEF Agreed
      <4> QED  BY <4>1, <4>3, <4>5 DEF ListedOK, TypeFor
    <3> QED  BY <3>2, <3>3, <3>4
  <2> QED  BY <2>2, <2>3
<1> QED  BY <1>1, <1>3, <1>7 DEF NothingMissed, Due, Quiet

LEMMA MissedOnMetadata ==
    ASSUME WalkInv, Agreed, NothingMissed, ba_get_metadata
    PROVE  NothingMissed'
<1>0. PICK p : p = Top.at
  OBVIOUS
<1>1. pc = "stat" /\ disk' = disk /\ changed' = changed /\ kids' = kids
  BY DEF ba_get_metadata, fs
<1>2. /\ Typed /\ Len(stack) \in Nat /\ Len(stack) >= 1 /\ p \in Places /\ p = stack[Len(stack)].at
  BY <1>0, TopFacts DEF WalkInv, Typed
<1>3. p # Root /\ Front(p) = Top.dir /\ entry[p].type \in {"file", "dir"} /\ Made(p)
  BY <1>0, <1>1 DEF WalkInv, Chained, AtEntry, Made
<1>4. \/ entry[p].type = "file" /\ pc' = "fsize" /\ stack' = stack
      \/ entry[p].type = "dir" /\ pc' = "opendir" /\ stack' = Append(stack, Activation(p))
  BY <1>0, <1>3 DEF ba_get_metadata
<1>5. ASSUME NEW q \in Places \ {Root}, Due(q), ~ Linked(q)
      PROVE  \E i \in 1 .. Len(stack') : StillAhead(i, q)'
  <2>1. PICK i \in 1 .. Len(stack) : StillAhead(i, q)
    BY <1>1, <1>5 DEF NothingMissed
  <2>2. CASE entry[p].type = "file"
    <3>1. pc' = "fsize" /\ stack' = stack
      BY <1>4, <2>2
    <3>2. CASE i = Len(stack) /\ p \in Above(q)
      <4>1. p = q
        <5>1. ASSUME p # q PROVE FALSE
          <6>1. disk[p].kind = "dir" /\ Untouched(p)
            BY <1>2, <1>5, <3>2, <5>1, DueFacts
          <6>2. EntryAgrees(p)
            BY <1>2, <1>3, <6>1 DEF Agreed
          <6> QED  BY <2>2, <6>1, <6>2 DEF EntryAgrees, TypeFor
        <5> QED  BY <5>1
      <4>2. StillAhead(i, q)'
        BY <1>2, <3>1, <3>2, <4>1 DEF StillAhead
      <4> QED  BY <3>1, <4>2
    <3>3. CASE ~ (i = Len(stack) /\ p \in Above(q))
      <4>1. StillAhead(i, q)'
        BY <1>1, <1>2, <2>1, <3>1, <3>3 DEF StillAhead
      <4> QED  BY <3>1, <4>1
    <3> QED  BY <3>2, <3>3
  <2>3. CASE entry[p].type = "dir"
    <3>1. pc' = "opendir" /\ stack' = Append(stack, Activation(p))
      BY <1>4, <2>3
    <3>2. Activation(p) \in Frames /\ Activation(p).dir = p
      BY <1>2, FirstActivation
    <3>3. /\ Len(stack') = Len(stack) + 1 /\ stack'[Len(stack) + 1] = Activation(p)
          /\ \A j \in 1 .. Len(stack) : stack'[j] = stack[j]
      BY <1>2, <3>1, <3>2, AppendProperties DEF Typed
    <3>4. i \in 1 .. Len(stack') /\ i < Len(stack') /\ Len(stack') \in 1 .. Len(stack')
      BY <1>2, <3>3
    <3>5. CASE i = Len(stack) /\ p \in Above(q) /\ p # q
      <4>1. PICK j \in 1 .. Len(stack') : j = Len(stack) + 1
        BY <3>3, <3>4
      <4>2. StillAhead(j, q)'
        BY <3>1, <3>2, <3>3, <3>5, <4>1 DEF StillAhead, Above
      <4> QED  BY <4>2
    <3>6. CASE ~ (i = Len(stack) /\ p \in Above(q) /\ p # q)
      <4>1. StillAhead(i, q)'
        BY <1>1, <1>2, <2>1, <3>3, <3>4, <3>6 DEF StillAhead
      <4> QED  BY <3>4, <4>1
    <3> QED  BY <3>5, <3>6
  <2> QED  BY <1>3, <2>2, <2>3
<1> QED  BY <1>1, <1>4, <1>5 DEF NothingMissed, Due, Quiet, Linked

LEMMA MissedOnSize ==
    ASSUME WalkInv, Agreed, NothingMissed, ba_fsize
    PROVE  NothingMissed'
<1>0. PICK p : p = Top.at
  OBVIOUS
<1>1. pc = "fsize" /\ disk' = disk /\ changed' = changed /\ Running
  BY DEF ba_fsize, fs, Running
<1>2. /\ Typed /\ p \in Places /\ Len(stack) \in Nat /\ Len(stack) >= 1
      /\ Top = stack[Len(stack)] /\ Top.dir \in Places /\ DOMAIN Top.left \subseteq Names
  BY <1>0, TopFacts DEF WalkInv, Typed
<1>3. p # Root /\ Front(p) = Top.dir /\ entry[p].type = "file" /\ Made(p)
  BY <1>0, <1>1 DEF WalkInv, Chained, AtEntry, Made
<1>4. CASE ~ DataSize
  BY <1>4 DEF ba_fsize, NothingMissed
<1>5. CASE DataSize /\ ~ HasSize(p)
  <2>1. ASSUME NEW q \in Places \ {Root}, Due(q), StillAhead(Len(stack), q) PROVE FALSE
    <3>1. PICK c \in Above(q) : Front(c) = Top.dir
      <4>1. CASE p = q
        BY <1>3, <4>1, AboveFacts
      <4>2. CASE p # q
        <5>1. PICK n \in DOMAIN Top.left : Append(Top.dir, n) \in Above(q)
          BY <1>0, <1>1, <1>2, <2>1, <4>2 DEF StillAhead
        <5> QED  BY <1>2, <5>1, AppendIsPlace
      <4> QED  BY <4>1, <4>2
    <3>2. c \in Places \ {Root} /\ Above(c) \subseteq Above(q)
      BY <3>1, AboveFacts
    <3>3. Untouched(p)
      <4>1. Above(p) = Above(Top.dir) \cup {p} /\ Above(c) = Above(Top.dir) \cup {c}
        BY <1>2, <1>3, <3>1, <3>2, AboveChild
      <4>2. \A x \in changed : x \notin Above(Top.dir) /\ x # p
        BY <1>3, <2>1, <3>1, <3>2, <4>1 DEF Due, Quiet
      <4> QED  BY <4>1, <4>2 DEF Untouched
    <3>4. EntryAgrees(p)
      BY <1>2, <1>3, <3>3 DEF Agreed
    <3> QED  BY <1>3, <1>5, <3>4 DEF EntryAgrees, TypeFor, HasSize
  <2> QED  BY <1>0, <1>1, <1>5, <2>1, MissedOnReturn DEF ba_fsize, Error
<1>6. CASE DataSize /\ HasSize(p)
  <2>1. Link(p) /\ pc' = "readdir" /\ stack' = stack
    BY <1>0, <1>6 DEF ba_fsize
  <2>2. \A q \in Places \ {Root} : Linked(q)' <=> Linked(q) \/ q = p
    BY <1>2, <1>3, <2>1, LinkStep
  <2>3. ASSUME NEW q \in Places \ {Root}, Due(q), ~ Linked(q)'
        PROVE  \E i \in 1 .. Len(stack) : StillAhead(i, q)'
    <3>1. ~ Linked(q) /\ q # p
      BY <2>2, <2>3
    <3>2. PICK i \in 1 .. Len(stack) : StillAhead(i, q)
      BY <1>1, <2>3, <3>1 DEF NothingMissed
    <3>3. StillAhead(i, q)'
      BY <1>0, <1>1, <1>2, <2>1, <3>1, <3>2 DEF StillAhead
    <3> QED  BY <3>3
  <2> QED  BY <1>1, <2>1, <2>3 DEF NothingMissed, Due, Quiet
<1> QED  BY <1>4, <1>5, <1>6

LEMMA MissedStep ==
    ASSUME WalkInv, Agreed, NothingMissed, [Next]_vars
    PROVE  NothingMissed'
<1>1. CASE UNCHANGED vars
  BY <1>1 DEF vars, fs, made, NothingMissed, Due, Quiet, StillAhead, Linked
<1>2. CASE Walk
  BY <1>2, MissedOnOpen, MissedOnName, MissedOnClose, MissedOnMetadata, MissedOnSize DEF Walk
<1>3. CASE Running /\ \E p \in Places \ {Root} : Change(p)
  BY <1>3, MissedOnChange
<1> QED  BY <1>1, <1>2, <1>3 DEF Next

LEMMA LossesAreLocal == WalkInv /\ NothingMissed => LossIsLocal
<1> SUFFICES ASSUME WalkInv, NothingMissed, pc = "done",
                    NEW p \in Places \ ({Root} \cup Loaded), disk[p] # Nothing,
                    ~ \E x \in changed, top \in Above(p) : Front(x) = Front(top)
             PROVE  FALSE
  BY DEF LossIsLocal
<1>1. Due(p)
  BY DEF Due, Quiet
<1>2. \A q \in Above(p) : q \in Places \ {Root} /\ Due(q)
  BY <1>1, DueFacts, AboveFacts DEF WalkInv
<1>3. \A q \in Above(p) : Linked(q)
  BY <1>2 DEF NothingMissed
<1> QED  BY <1>3 DEF Loaded

\* While the filesystem tells the types of what its directories hold: once
\* ba_load_fs_tree() is done, a file or directory that is there, was not touched and was
\* not loaded is in a directory in which something was changed during the walk, or
\* below one.  What goes wrong in one directory costs nothing outside it.
THEOREM LossesStayLocal == ASSUME KnowsTypes PROVE Spec => []LossIsLocal
<1>1. Init => WalkInv /\ Agreed /\ NothingMissed
  BY WalkInit, AgreedInit, MissedInit
<1>2. WalkInv /\ Agreed /\ NothingMissed /\ [Next]_vars => (WalkInv /\ Agreed /\ NothingMissed)'
  BY WalkStep, AgreedStep, MissedStep
<1>3. Spec => [](WalkInv /\ NothingMissed)
  BY <1>1, <1>2, PTL DEF Spec
<1> QED  BY <1>3, LossesAreLocal, PTL

(***************************************************************************)
(* Where the data of the files start.  The files whose size was taken are  *)
(* in the lists; what is above one and not in a list yet is the directory  *)
(* of an activation.  So nothing that is linked from now on gets between   *)
(* two of them, and what the walk comes to next is after them all.         *)
(***************************************************************************)
OnWay(x) == \E i \in 1 .. Len(stack) : stack[i].dir = x

Sized  == {p \in Places : entry[p].start # -1}
SizeOf == [p \in Places |-> entry[p].size]

WayOK ==
    \A x \in Places : OnWay(x) =>
        /\ x = Root \/ (~ Linked(x) /\ entry[x].type = "dir")
        /\ \A y \in Above(x) : OnWay(y)

SizedOK ==
    /\ IsFiniteSet(Sized)
    /\ \A p \in Sized :
         /\ p # Root /\ entry[p].type = "file" /\ Linked(p)
         /\ \A x \in Above(p) : Linked(x) \/ OnWay(x)
    /\ \A p \in Places \ {Root} : Linked(p) /\ entry[p].type = "file" => p \in Sized

Passed == \A q \in Sized, x \in Places : OnWay(x) => x \in Prefixes(q) \/ Before(q, x)

FilesBefore(p) == {q \in Sized : Before(q, p)}

StartsOK ==
    /\ \A p \in Sized : entry[p].start = SizeSum(SizeOf, FilesBefore(p))
    /\ data_size = SizeSum(SizeOf, Sized)

Ordered ==
    /\ WayOK /\ SizedOK /\ Passed /\ StartsOK
    /\ pc = "done" => Len(stack) = 1

\* Only what is linked gets ahead of anything, and only of what is not.
LEMMA AheadLink ==
    ASSUME Typed, NEW c \in Places \ {Root}, Link(c),
           NEW x \in Places \ {Root}, NEW y \in Places \ {Root}
    PROVE  /\ Ahead(x, y) => Ahead(x, y)'
           /\ Ahead(x, y)' => Ahead(x, y) \/ (x = c /\ Front(y) = Front(c) /\ y # c /\ ~ Linked(y))
<1> DEFINE d == Front(c)
<1>1. d \in Places /\ Front(x) \in Places /\ kids[d] \in Seq(Places \ {Root})
  BY FrontIsPlace DEF Typed
<1>2. Len(kids[d]) \in Nat /\ DOMAIN kids[d] = 1 .. Len(kids[d])
  BY <1>1, LenProperties
<1>3. /\ Append(kids[d], c) \in Seq(Places \ {Root})
      /\ Len(Append(kids[d], c)) = Len(kids[d]) + 1
      /\ \A i \in 1 .. Len(kids[d]) : Append(kids[d], c)[i] = kids[d][i]
      /\ Append(kids[d], c)[Len(kids[d]) + 1] = c
  BY <1>1, AppendProperties
<1>4. DOMAIN Append(kids[d], c) = 1 .. Len(kids[d]) + 1
  BY <1>3, LenProperties
<1>5. kids' = [kids EXCEPT ![d] = Append(kids[d], c)]
  BY DEF Link
<1>6. kids'[d] = Append(kids[d], c) /\ \A p \in Places \ {d} : kids'[p] = kids[p]
  BY <1>1, <1>5 DEF Typed
<1> HIDE DEF d
<1>7. CASE Front(x) # d
  BY <1>1, <1>6, <1>7 DEF Ahead
<1>8. CASE Front(x) = d
  <2>1. PICK l, m, n : l = kids[d] /\ m = kids'[d] /\ n = Len(kids[d])
    OBVIOUS
  <2>2. /\ n \in Nat /\ DOMAIN l = 1 .. n /\ DOMAIN m = 1 .. n + 1 /\ m[n + 1] = c
        /\ \A i \in 1 .. n : m[i] = l[i]
    BY <1>2, <1>3, <1>4, <1>6, <2>1
  <2>3. /\ Ahead(x, y) <=> d = Front(y) /\ \E i \in 1 .. n : l[i] = x /\ \A j \in 1 .. i : l[j] # y
        /\ Ahead(x, y)' <=>
             d = Front(y) /\ \E i \in 1 .. n + 1 : m[i] = x /\ \A j \in 1 .. i : m[j] # y
        /\ d = Front(y) => (Linked(y) <=> \E i \in 1 .. n : l[i] = y)
    BY <1>8, <2>1, <2>2 DEF Ahead, Linked, ToSet
  <2>4. ASSUME Ahead(x, y) PROVE Ahead(x, y)'
    <3>1. PICK i \in 1 .. n : l[i] = x /\ \A j \in 1 .. i : l[j] # y
      BY <2>3, <2>4
    <3>2. i \in 1 .. n + 1 /\ m[i] = x /\ \A j \in 1 .. i : m[j] # y
      BY <2>2, <3>1
    <3> QED  BY <2>3, <2>4, <3>2
  <2>5. ASSUME Ahead(x, y)'
        PROVE  Ahead(x, y) \/ (x = c /\ Front(y) = d /\ y # c /\ ~ Linked(y))
    <3>1. PICK i \in 1 .. n + 1 : m[i] = x /\ \A j \in 1 .. i : m[j] # y
      BY <2>3, <2>5
    <3>2. CASE i \in 1 .. n
      <4>1. l[i] = x /\ \A j \in 1 .. i : l[j] # y
        BY <2>2, <3>1, <3>2
      <4> QED  BY <2>3, <2>5, <3>2, <4>1
    <3>3. CASE i = n + 1
      <4>1. x = c /\ y # c /\ \A j \in 1 .. n : l[j] # y
        BY <2>2, <3>1, <3>3
      <4> QED  BY <2>3, <2>5, <4>1
    <3> QED  BY <2>2, <3>2, <3>3
  <2> QED  BY <2>4, <2>5 DEF d
<1> QED  BY <1>7, <1>8

\* There is one place above another in each directory.
LEMMA OneInEach ==
    ASSUME NEW p \in Places, NEW x \in Above(p), NEW y \in Above(p), Front(x) = Front(y)
    PROVE  x = y
<1>1. x \in Places \ {Root} /\ y \in Places \ {Root}
  BY AboveFacts
<1>2. Len(x) = Len(y)
  <2>1. /\ Len(x) \in Nat /\ Len(y) \in Nat
        /\ Len(Front(x)) = Len(x) - 1 /\ Len(Front(y)) = Len(y) - 1
    BY <1>1, FrontIsPlace, PlaceSeq
  <2> QED  BY <2>1
<1>3. \A i \in 1 .. Len(x) : x[i] = p[i] /\ y[i] = p[i]
  BY <1>2, PrefixIs DEF Above
<1> QED  BY <1>1, <1>2, <1>3, PlaceSeq, SeqEqual

\* Nothing comes before itself; what comes before a directory comes before what is in it.
LEMMA BeforeFacts ==
    ASSUME Typed, NEW p \in Places
    PROVE  /\ ~ Before(p, p)
           /\ \A q \in Places, d \in Prefixes(p) : Before(q, d) => Before(q, p)
<1>1. ASSUME NEW x \in Above(p), NEW y \in Above(p), Ahead(x, y) PROVE FALSE
  <2>1. Front(x) = Front(y)
    BY <1>1 DEF Ahead
  <2>2. x = y /\ x \in Places \ {Root}
    BY <2>1, OneInEach, AboveFacts
  <2>3. PICK i \in DOMAIN kids[Front(x)] :
          kids[Front(x)][i] = x /\ \A j \in 1 .. i : kids[Front(x)][j] # x
    BY <1>1, <2>2 DEF Ahead
  <2>4. i \in 1 .. i
    <3>1. Front(x) \in Places /\ kids[Front(x)] \in Seq(Places \ {Root})
      BY <2>2, FrontIsPlace DEF Typed
    <3> QED  BY <3>1, LenProperties
  <2> QED  BY <2>3, <2>4
<1>2. ASSUME NEW q \in Places, NEW d \in Prefixes(p), Before(q, d) PROVE Before(q, p)
  <2>1. Above(d) \subseteq Above(p)
    BY AboveFacts, NothingAboveRoot DEF Above
  <2> QED  BY <1>2, <2>1 DEF Before
<1> QED  BY <1>1, <1>2 DEF Before

\* The walk links the directory of the innermost activation, or something in it.
Here(c) ==
    /\ c \in Places \ {Root}
    /\ \/ c = Top.dir /\ Len(stack) > 1
       \/ Front(c) = Top.dir

Linking == kids' = kids \/ \E c : Here(c) /\ Link(c)

LEMMA KidsSame ==
    ASSUME kids' = kids
    PROVE  /\ \A p \in Places : Linked(p)' <=> Linked(p)
           /\ \A p, q \in Places : Before(p, q)' <=> Before(p, q)
BY DEF Linked, Before, Ahead

LEMMA BeforeStays ==
    ASSUME Typed, Linking, NEW p \in Places, NEW q \in Places, Before(p, q)
    PROVE  Before(p, q)'
<1>1. CASE kids' = kids
  BY <1>1, KidsSame
<1>2. ASSUME NEW c \in Places \ {Root}, Link(c) PROVE Before(p, q)'
  <2>1. PICK x \in Above(p), y \in Above(q) : Ahead(x, y)
    BY DEF Before
  <2>2. x \in Places \ {Root} /\ y \in Places \ {Root}
    BY <2>1, AboveFacts
  <2>3. Ahead(x, y)'
    BY <1>2, <2>1, <2>2, AheadLink
  <2> QED  BY <2>1, <2>3 DEF Before
<1> QED  BY <1>1, <1>2 DEF Linking, Here

\* A directory of an activation is no deeper than the innermost one.
LEMMA WayIs ==
    ASSUME WalkInv, NEW x \in Places, OnWay(x)
    PROVE  /\ Len(x) < Len(stack)
           /\ Len(x) = Len(stack) - 1 => x = Top.dir
<1>1. PICK i \in 1 .. Len(stack) : stack[i].dir = x
  BY DEF OnWay
<1>2. Len(stack) \in Nat /\ Len(stack) >= 1 /\ Top = stack[Len(stack)]
  BY TopFacts DEF WalkInv, Typed
<1>3. Len(x) = i - 1
  BY <1>1 DEF WalkInv, Chained, Deep
<1> QED  BY <1>1, <1>2, <1>3

LEMMA TopWay ==
    ASSUME WalkInv
    PROVE  /\ Len(stack) \in Nat /\ Len(stack) >= 1
           /\ Top.dir \in Places /\ OnWay(Top.dir) /\ Len(Top.dir) = Len(stack) - 1
<1>1. /\ Len(stack) \in Nat /\ Len(stack) >= 1 /\ Top = stack[Len(stack)]
      /\ Top.dir \in Places
  BY TopFacts DEF WalkInv, Typed
<1>2. Len(stack) \in 1 .. Len(stack)
  BY <1>1
<1>3. OnWay(Top.dir)
  BY <1>1, <1>2 DEF OnWay
<1>4. Len(Top.dir) = Len(stack) - 1
  BY <1>1, <1>2 DEF WalkInv, Chained, Deep
<1> QED  BY <1>1, <1>3, <1>4

\* The activations are those for the directories above the innermost one.
LEMMA WayToTop ==
    ASSUME WalkInv, Ordered, NEW x \in Places, OnWay(x)
    PROVE  x \in Prefixes(Top.dir)
<1>1. /\ Len(stack) \in Nat /\ Top.dir \in Places /\ OnWay(Top.dir)
      /\ Len(Top.dir) = Len(stack) - 1
  BY TopWay
<1>2. Len(x) \in Nat /\ Len(x) <= Len(Top.dir) /\ Top.dir \in Seq(Names)
  BY <1>1, WayIs, PlaceSeq
<1>3. PICK y : y = SubSeq(Top.dir, 1, Len(x))
  OBVIOUS
<1>4. y \in Prefixes(Top.dir) /\ Len(y) = Len(x)
  <2>1. Len(x) \in 0 .. Len(Top.dir) /\ Len(Top.dir) \in Nat
    BY <1>1, <1>2, PlaceSeq
  <2> QED  BY <1>2, <1>3, <2>1, Beginning DEF Prefixes
<1>5. CASE y = Root
  BY <1>4, <1>5, RootIsPlace, FrontIsPlace
<1>6. CASE y # Root
  <2>1. OnWay(y)
    BY <1>1, <1>4, <1>6 DEF Ordered, WayOK, Above
  <2>2. PICK i \in 1 .. Len(stack), k \in 1 .. Len(stack) : stack[i].dir = x /\ stack[k].dir = y
    BY <2>1 DEF OnWay
  <2>3. Len(x) = i - 1 /\ Len(y) = k - 1
    BY <2>2 DEF WalkInv, Chained, Deep
  <2>4. i = k
    BY <1>1, <1>4, <2>3
  <2> QED  BY <1>4, <2>2, <2>4
<1> QED  BY <1>5, <1>6

LEMMA HereIs ==
    ASSUME WalkInv, NEW c, Here(c)
    PROVE  \A y \in Places \ {Root} : Front(y) = Front(c) /\ OnWay(y) => y = c
<1> SUFFICES ASSUME NEW y \in Places \ {Root}, Front(y) = Front(c), OnWay(y) PROVE y = c
  OBVIOUS
<1>1. c \in Places \ {Root}
  BY DEF Here
<1>2. Len(y) = Len(c) /\ Len(y) \in Nat
  BY <1>1, FrontIsPlace, PlaceSeq
<1>3. Len(y) < Len(stack) /\ (Len(y) = Len(stack) - 1 => y = Top.dir)
  BY WayIs
<1>4. Len(stack) \in Nat /\ Len(stack) >= 1 /\ Len(Top.dir) = Len(stack) - 1
  BY TopWay
<1>5. CASE c = Top.dir
  BY <1>2, <1>3, <1>4, <1>5
<1>6. CASE Front(c) = Top.dir
  <2>1. Len(c) = Len(stack)
    BY <1>1, <1>2, <1>4, <1>6, FrontIsPlace
  <2> QED  BY <1>2, <1>3, <2>1
<1> QED  BY <1>5, <1>6 DEF Here

\* What is linked does not get between the files whose sizes were taken.
LEMMA BeforeSame ==
    ASSUME WalkInv, Ordered, Linking, NEW p \in Sized, NEW q \in Sized
    PROVE  Before(p, q)' <=> Before(p, q)
<1>0. Typed /\ p \in Places /\ q \in Places
  BY DEF WalkInv, Sized
<1>1. Before(p, q) => Before(p, q)'
  BY <1>0, BeforeStays
<1>2. CASE kids' = kids
  BY <1>0, <1>2, KidsSame
<1>3. ASSUME NEW c, Here(c), Link(c), Before(p, q)' PROVE Before(p, q)
  <2>0. c \in Places \ {Root}
    BY <1>3 DEF Here
  <2>1. PICK x \in Above(p), y \in Above(q) : Ahead(x, y)'
    BY <1>3 DEF Before
  <2>2. x \in Places \ {Root} /\ y \in Places \ {Root}
    BY <1>0, <2>1, AboveFacts
  <2>3. Ahead(x, y) \/ (Front(y) = Front(c) /\ y # c /\ ~ Linked(y))
    BY <1>0, <1>3, <2>0, <2>1, <2>2, AheadLink
  <2>4. Linked(y) \/ OnWay(y)
    BY <2>1 DEF Ordered, SizedOK
  <2>5. Ahead(x, y)
    BY <1>3, <2>2, <2>3, <2>4, HereIs
  <2> QED  BY <2>1, <2>5 DEF Before
<1> QED  BY <1>1, <1>2, <1>3 DEF Linking

\* What the innermost activation is at comes after all files whose sizes were taken.
LEMMA AllBefore ==
    ASSUME WalkInv, Ordered, NEW p \in Places \ {Root}, Front(p) = Top.dir, ~ Linked(p),
           NEW q \in Sized
    PROVE  Before(q, p)
<1>1. /\ Typed /\ q \in Places /\ q # Root /\ Linked(q) /\ Top.dir \in Places
  BY TopFacts DEF WalkInv, Ordered, SizedOK, Sized
<1>2. OnWay(Top.dir) /\ Len(stack) \in Nat /\ Len(Top.dir) = Len(stack) - 1
  BY TopWay
<1>3. Top.dir \in Prefixes(q) \/ Before(q, Top.dir)
  BY <1>1, <1>2 DEF Ordered, Passed
<1>4. CASE Before(q, Top.dir)
  <2>1. Top.dir \in Prefixes(p)
    BY <1>1, AboveChild, AboveFacts
  <2> QED  BY <1>1, <1>4, <2>1, BeforeFacts
<1>5. CASE Top.dir \in Prefixes(q)
  <2>1. Top.dir # q
    BY <1>1, <1>2 DEF Ordered, WayOK
  <2>2. PICK n \in Names : Append(Top.dir, n) \in Above(q)
    BY <1>1, <1>5, <2>1, StepTowards
  <2>3. PICK c : c = Append(Top.dir, n)
    OBVIOUS
  <2>4. /\ c \in Above(q) /\ c \in Places \ {Root} /\ Front(c) = Top.dir
        /\ Len(c) = Len(Top.dir) + 1
    BY <1>1, <2>2, <2>3, AppendIsPlace, AboveFacts
  <2>5. ~ OnWay(c)
    BY <1>2, <2>4, WayIs
  <2>6. Linked(c)
    BY <2>4, <2>5 DEF Ordered, SizedOK
  <2>7. Ahead(c, p)
    <3>1. PICK i \in DOMAIN kids[Top.dir] : kids[Top.dir][i] = c
      BY <2>4, <2>6 DEF Linked, ToSet
    <3>2. i \in Nat /\ \A j \in 1 .. i : j \in DOMAIN kids[Top.dir]
      <4>1. kids[Top.dir] \in Seq(Places \ {Root})
        BY <1>1 DEF Typed
      <4> QED  BY <3>1, <4>1, LenProperties
    <3>3. \A j \in 1 .. i : kids[Top.dir][j] # p
      BY <3>2 DEF Linked, ToSet
    <3> QED  BY <2>4, <3>1, <3>3 DEF Ahead
  <2>8. p \in Above(p)
    BY AboveFacts
  <2> QED  BY <2>4, <2>7, <2>8 DEF Before
<1> QED  BY <1>3, <1>4, <1>5

\* A step in which no size is taken.
NoSize ==
    /\ Linking
    /\ data_size' = data_size
    /\ \A x \in Places :
         /\ entry'[x].start = entry[x].start /\ entry'[x].size = entry[x].size
         /\ Made(x) => entry'[x].type = entry[x].type
    /\ \A x \in Places \ {Root} :
         /\ Linked(x) \/ OnWay(x) => Linked(x)' \/ OnWay(x)'
         /\ Linked(x) => Linked(x)'
         /\ Linked(x)' /\ entry'[x].type = "file" => Linked(x) /\ entry[x].type = "file"
    /\ \A x \in Places : OnWay(x)' =>
         OnWay(x) \/ (x # Root /\ Front(x) = Top.dir /\ ~ Linked(x))
    /\ WayOK'
    /\ pc' = "done" => Len(stack') = 1

LEMMA StartsKept ==
    ASSUME WalkInv, Ordered, NoSize
    PROVE  StartsOK' /\ Sized' = Sized
<1>1. Sized' = Sized
  BY DEF NoSize, Sized
<1>2. \A p \in Sized : FilesBefore(p)' = FilesBefore(p)
  <2>1. \A p, q \in Sized : Before(p, q)' <=> Before(p, q)
    BY BeforeSame DEF NoSize
  <2> QED  BY <1>1, <2>1 DEF FilesBefore
<1>3. SizeOf' = SizeOf
  BY DEF NoSize, SizeOf
<1>4. \A p \in Sized : entry'[p].start = entry[p].start
  BY DEF NoSize, Sized
<1> QED  BY <1>1, <1>2, <1>3, <1>4 DEF StartsOK, Ordered, NoSize

LEMMA OrderKept ==
    ASSUME WalkInv, Ordered, NoSize
    PROVE  Ordered'
<1>1. StartsOK' /\ Sized' = Sized
  BY StartsKept
<1>2. Typed /\ \A p \in Sized : p \in Places
  BY DEF WalkInv, Sized
<1>3. SizedOK'
  <2>1. IsFiniteSet(Sized')
    BY <1>1 DEF Ordered, SizedOK
  <2>2. ASSUME NEW p \in Sized
        PROVE  p # Root /\ entry'[p].type = "file" /\ Linked(p)'
    BY <1>2 DEF Ordered, SizedOK, NoSize, Made
  <2>3. ASSUME NEW p \in Sized, NEW x \in Above(p) PROVE Linked(x)' \/ OnWay(x)'
    <3>1. x \in Places \ {Root} /\ (Linked(x) \/ OnWay(x))
      BY <1>2, AboveFacts DEF Ordered, SizedOK
    <3> QED  BY <3>1 DEF NoSize
  <2>4. \A p \in Places \ {Root} : Linked(p)' /\ entry'[p].type = "file" => p \in Sized
    BY DEF Ordered, SizedOK, NoSize
  <2> QED  BY <1>1, <2>1, <2>2, <2>3, <2>4 DEF SizedOK
<1>4. Passed'
  <2> SUFFICES ASSUME NEW q \in Sized, NEW x \in Places, OnWay(x)', x \notin Prefixes(q)
               PROVE  Before(q, x)'
    BY <1>1 DEF Passed
  <2>1. CASE OnWay(x)
    <3>1. Before(q, x)
      BY <2>1 DEF Ordered, Passed
    <3> QED  BY <1>2, <3>1, BeforeStays DEF NoSize
  <2>2. CASE x # Root /\ Front(x) = Top.dir /\ ~ Linked(x)
    <3>1. Before(q, x)
      BY <2>2, AllBefore
    <3> QED  BY <1>2, <3>1, BeforeStays DEF NoSize
  <2> QED  BY <2>1, <2>2 DEF NoSize
<1> QED  BY <1>1, <1>3, <1>4 DEF Ordered, NoSize

LEMMA OrderInit == Init /\ WalkInv => Ordered
<1> SUFFICES ASSUME Init, WalkInv PROVE Ordered
  OBVIOUS
<1>1. /\ Len(stack) = 1 /\ stack[1] = Activation(Root) /\ pc = "opendir" /\ data_size = 0
      /\ entry = [p \in Places |-> NoEntry] /\ kids = [p \in Places |-> <<>>]
  BY DEF Init
<1>2. Activation(Root).dir = Root /\ Root \in Places
  BY RootIsPlace, FirstActivation
<1>3. \A x \in Places : OnWay(x) => x = Root
  BY <1>1, <1>2 DEF OnWay
<1>4. WayOK
  BY <1>3, NothingAboveRoot DEF WayOK
<1>5. Sized = {} /\ IsFiniteSet(Sized)
  <2>1. Sized = {}
    BY <1>1 DEF Sized, NoEntry
  <2> QED  BY <2>1, FS_EmptySet
<1>6. SizedOK
  <2>1. \A p \in Places : entry[p].type # "file"
    BY <1>1 DEF NoEntry
  <2> QED  BY <1>5, <2>1 DEF SizedOK
<1>7. Passed
  BY <1>5 DEF Passed
<1>8. StartsOK
  BY <1>1, <1>5, SumNone DEF StartsOK
<1> QED  BY <1>1, <1>4, <1>6, <1>7, <1>8 DEF Ordered

LEMMA OrderOnReturn ==
    ASSUME WalkInv, Ordered, Return, UNCHANGED <<entry, data_size>>
    PROVE  Ordered'
<1>1. /\ Len(stack') <= Len(stack)
      /\ \A i \in 1 .. Len(stack') : stack'[i] = stack[i]
      /\ \A p \in Places \ {Root} :
           Linked(p)' <=> Linked(p) \/ (Len(stack) > 1 /\ p = Top.dir)
      /\ IF Len(stack) = 1 THEN pc' = "done" /\ stack' = stack
         ELSE pc' = "readdir" /\ Len(stack') = Len(stack) - 1
  BY ReturnStep
<1>2. /\ Len(stack) \in Nat /\ Len(stack) >= 1 /\ Top = stack[Len(stack)]
      /\ Top.dir \in Places /\ OnWay(Top.dir) /\ Len(Top.dir) = Len(stack) - 1
  BY TopWay, TopFacts DEF WalkInv
<1>3. CASE Len(stack) = 1
  <2>1. stack' = stack /\ pc' = "done" /\ kids' = kids
    BY <1>1, <1>3 DEF Return
  <2>2. /\ Linking
        /\ \A x \in Places : (Linked(x)' <=> Linked(x)) /\ (OnWay(x)' <=> OnWay(x))
    BY <2>1, KidsSame DEF Linking, OnWay
  <2>3. WayOK'
    <3>1. \A x \in Places : \A y \in Above(x) : y \in Places
      BY AboveFacts
    <3> QED  BY <2>2, <3>1 DEF Ordered, WayOK
  <2> QED  BY <1>3, <2>1, <2>2, <2>3, OrderKept DEF NoSize
<1>4. CASE Len(stack) # 1
  <2>1. Len(stack') = Len(stack) - 1 /\ pc' = "readdir" /\ Len(stack) > 1 /\ Link(Top.dir)
    BY <1>1, <1>2, <1>4 DEF Return
  <2>2. Top.dir # Root /\ Here(Top.dir)
    BY <1>2, <2>1, TopIsDeep DEF Here
  <2>3. Linking
    BY <2>1, <2>2 DEF Linking
  <2>4. ASSUME NEW x \in Places PROVE OnWay(x)' <=> OnWay(x) /\ x # Top.dir
    <3>1. ASSUME OnWay(x)' PROVE OnWay(x) /\ x # Top.dir
      <4>1. PICK i \in 1 .. Len(stack') : stack'[i].dir = x
        BY <3>1 DEF OnWay
      <4>2. i \in 1 .. Len(stack) /\ i < Len(stack) /\ stack[i].dir = x
        BY <1>1, <1>2, <2>1, <4>1
      <4>3. Len(x) = i - 1
        BY <4>2 DEF WalkInv, Chained, Deep
      <4>4. Len(x) # Len(Top.dir)
        BY <1>2, <4>2, <4>3
      <4> QED  BY <4>2, <4>4 DEF OnWay
    <3>2. ASSUME OnWay(x), x # Top.dir PROVE OnWay(x)'
      <4>1. PICK i \in 1 .. Len(stack) : stack[i].dir = x
        BY <3>2 DEF OnWay
      <4>2. i \in 1 .. Len(stack') /\ stack'[i].dir = x
        BY <1>1, <1>2, <2>1, <3>2, <4>1
      <4> QED  BY <4>2 DEF OnWay
    <3> QED  BY <3>1, <3>2
  <2>5. WayOK'
    <3> SUFFICES ASSUME NEW x \in Places, OnWay(x)'
                 PROVE  /\ x = Root \/ (~ Linked(x)' /\ entry'[x].type = "dir")
                        /\ \A y \in Above(x) : OnWay(y)'
      BY DEF WayOK
    <3>1. OnWay(x) /\ x # Top.dir
      BY <2>4
    <3>2. x = Root \/ (~ Linked(x)' /\ entry'[x].type = "dir")
      BY <1>1, <3>1 DEF Ordered, WayOK
    <3>3. ASSUME NEW y \in Above(x) PROVE OnWay(y)'
      <4>1. y \in Places /\ OnWay(y) /\ Len(y) <= Len(x) /\ (Len(y) = Len(x) => y = x)
        BY <3>1, AboveFacts DEF Ordered, WayOK
      <4>2. y # Top.dir
        <5>1. Len(x) < Len(stack) /\ (Len(x) = Len(stack) - 1 => x = Top.dir)
          BY <3>1, WayIs
        <5>2. Len(x) \in Nat /\ Len(y) \in Nat
          BY <4>1, PlaceSeq
        <5> QED  BY <1>2, <3>1, <4>1, <5>1, <5>2
      <4> QED  BY <2>4, <4>1, <4>2
    <3> QED  BY <3>2, <3>3
  <2>6. entry[Top.dir].type # "file"
    BY <1>2, <2>2 DEF Ordered, WayOK
  <2>7. \A x \in Places \ {Root} :
          /\ Linked(x) \/ OnWay(x) => Linked(x)' \/ OnWay(x)'
          /\ Linked(x) => Linked(x)'
          /\ Linked(x)' /\ entry'[x].type = "file" => Linked(x) /\ entry[x].type = "file"
    BY <1>1, <2>1, <2>4, <2>6
  <2> QED  BY <2>1, <2>3, <2>4, <2>5, <2>7, OrderKept DEF NoSize
<1> QED  BY <1>3, <1>4

LEMMA OrderOnChange ==
    ASSUME Ordered, UNCHANGED <<stack, pc, made>>
    PROVE  Ordered'
BY DEF Ordered, WayOK, SizedOK, Passed, StartsOK, FilesBefore, Sized, SizeOf, OnWay, Linked,
       Before, Ahead, made

\* The innermost activation reads on; what it links has no type.
LEMMA OrderOnReading ==
    ASSUME WalkInv, Ordered, NEW f \in Frames, f.dir = Top.dir, Reading(f),
           kids' = kids \/ (\E c : Here(c) /\ Link(c) /\ entry'[c].type = "untyped" /\ ~ OnWay(c)),
           data_size' = data_size, pc' # "done",
           \A x \in Places :
             /\ entry'[x].start = entry[x].start /\ entry'[x].size = entry[x].size
             /\ Made(x) => entry'[x].type = entry[x].type
    PROVE  Ordered'
<1>1. /\ Typed /\ Len(stack) \in Nat /\ Len(stack) >= 1 /\ Top = stack[Len(stack)]
  BY TopFacts DEF WalkInv, Typed
<1>2. /\ Len(stack') = Len(stack) /\ stack'[Len(stack)] = f
      /\ \A i \in 1 .. Len(stack) - 1 : stack'[i] = stack[i]
  BY <1>1, ReadingStep
<1>3. \A i \in 1 .. Len(stack) : stack'[i].dir = stack[i].dir
  BY <1>1, <1>2
<1>4. \A x \in Places : OnWay(x)' <=> OnWay(x)
  BY <1>2, <1>3 DEF OnWay
<1>5. Linking
  BY DEF Linking
<1>6. ASSUME NEW x \in Places \ {Root}
      PROVE  /\ Linked(x) => Linked(x)'
             /\ Linked(x)' => Linked(x) \/ (entry'[x].type = "untyped" /\ ~ OnWay(x))
  <2>1. CASE kids' = kids
    BY <2>1, KidsSame
  <2>2. ASSUME NEW c, Here(c), Link(c), entry'[c].type = "untyped", ~ OnWay(c)
        PROVE  /\ Linked(x) => Linked(x)'
               /\ Linked(x)' => Linked(x) \/ (entry'[x].type = "untyped" /\ ~ OnWay(x))
    <3>1. c \in Places \ {Root}
      BY <2>2 DEF Here
    <3>2. Linked(x)' <=> Linked(x) \/ x = c
      BY <1>1, <2>2, <3>1, LinkStep
    <3> QED  BY <2>2, <3>2
  <2> QED  BY <2>1, <2>2
<1>7. \A x \in Places \ {Root} : Linked(x) => Made(x)
  BY DEF WalkInv, Chained, EntriesOK
<1>8. WayOK'
  <2> SUFFICES ASSUME NEW x \in Places, OnWay(x)'
               PROVE  /\ x = Root \/ (~ Linked(x)' /\ entry'[x].type = "dir")
                      /\ \A y \in Above(x) : OnWay(y)'
    BY DEF WayOK
  <2>1. /\ x = Root \/ (~ Linked(x) /\ entry[x].type = "dir")
        /\ \A y \in Above(x) : OnWay(y)
    BY <1>4 DEF Ordered, WayOK
  <2>2. x = Root \/ (~ Linked(x)' /\ entry'[x].type = "dir")
    BY <1>4, <1>6, <2>1 DEF Made
  <2>3. \A y \in Above(x) : OnWay(y)'
    BY <1>4, <2>1, AboveFacts
  <2> QED  BY <2>2, <2>3
<1>9. \A x \in Places \ {Root} :
        Linked(x)' /\ entry'[x].type = "file" => Linked(x) /\ entry[x].type = "file"
  BY <1>6, <1>7
<1> QED  BY <1>4, <1>5, <1>6, <1>8, <1>9, OrderKept DEF NoSize

LEMMA OrderOnOpen ==
    ASSUME WalkInv, Ordered, opendir
    PROVE  Ordered'
<1>1. pc = "opendir" /\ entry' = entry /\ data_size' = data_size
  BY DEF opendir
<1>2. CASE disk[Top.dir].kind # "dir"
  BY <1>1, <1>2, OrderOnReturn DEF opendir, Error
<1>3. CASE disk[Top.dir].kind = "dir"
  <2> DEFINE f == [Top EXCEPT !.left = Listing(Top.dir)]
  <2>1. pc' = "readdir" /\ Reading(f) /\ kids' = kids
    BY <1>3 DEF opendir
  <2>2. Typed /\ Top \in Frames /\ Top.dir \in Places
    BY TopFacts DEF WalkInv
  <2>3. f \in Frames /\ f.dir = Top.dir
    BY <2>2, ListingFacts DEF Frames
  <2> HIDE DEF f
  <2> QED  BY <1>1, <2>1, <2>3, OrderOnReading
<1> QED  BY <1>2, <1>3

LEMMA OrderOnName ==
    ASSUME WalkInv, Ordered, NEW n \in Names, readdir_r(n)
    PROVE  Ordered'
<1>0. PICK p, f, t :
        /\ p = Append(Top.dir, n)
        /\ f = [Top EXCEPT !.left = Without(@, n), !.at = p]
        /\ t = IF Top.left[n] \in {"file", "dir"} THEN Top.left[n] ELSE "untyped"
  OBVIOUS
<1>1. /\ pc = "readdir" /\ n \in DOMAIN Top.left /\ Reading(f)
      /\ entry' = [entry EXCEPT ![p].type = t]
      /\ data_size' = data_size
  BY <1>0 DEF readdir_r
<1>2. /\ p \in Places \ {Root} /\ Front(p) = Top.dir /\ ~ Made(p) /\ entry[p] = NoEntry
      /\ f \in Frames /\ f.dir = Top.dir
  <2>1. NextIs(n, p, f)
    BY <1>0, <1>1, NextName
  <2> QED  BY <2>1 DEF NextIs
<1>3. \/ pc' = "stat" /\ kids' = kids
      \/ t = "untyped" /\ pc' = pc /\ Link(p)
  BY <1>0 DEF readdir_r
<1>4. /\ entry'[p] = [NoEntry EXCEPT !.type = t]
      /\ \A q \in Places \ {p} : entry'[q] = entry[q]
  BY <1>1, <1>2 DEF WalkInv, Typed, NoEntry
<1>5. \A x \in Places :
        /\ entry'[x].start = entry[x].start /\ entry'[x].size = entry[x].size
        /\ Made(x) => entry'[x].type = entry[x].type
  <2>1. entry'[p].start = entry[p].start /\ entry'[p].size = entry[p].size
    BY <1>2, <1>4 DEF NoEntry
  <2> QED  BY <1>2, <1>4, <2>1
<1>6. kids' = kids \/ (\E c : Here(c) /\ Link(c) /\ entry'[c].type = "untyped" /\ ~ OnWay(c))
  <2>1. Here(p)
    BY <1>2 DEF Here
  <2>2. entry'[p].type = t
    BY <1>4 DEF NoEntry
  <2>3. ~ OnWay(p)
    BY <1>2 DEF Ordered, WayOK, Made
  <2> QED  BY <1>3, <2>1, <2>2, <2>3
<1>7. pc' # "done"
  BY <1>1, <1>3
<1> QED  BY <1>1, <1>2, <1>5, <1>6, <1>7, OrderOnReading

LEMMA OrderOnClose ==
    ASSUME WalkInv, Ordered, closedir
    PROVE  Ordered'
BY OrderOnReturn DEF closedir

LEMMA OrderOnMetadata ==
    ASSUME WalkInv, Ordered, ba_get_metadata
    PROVE  Ordered'
<1>0. PICK p : p = Top.at
  OBVIOUS
<1>1. /\ pc = "stat" /\ entry' = [entry EXCEPT ![p].meta = Metadata(p)]
      /\ kids' = kids /\ data_size' = data_size
  BY <1>0 DEF ba_get_metadata
<1>2. Typed /\ p \in Places /\ Len(stack) \in Nat /\ stack \in Seq(Frames)
  BY <1>0, TopFacts DEF WalkInv, Typed
<1>3. p # Root /\ Front(p) = Top.dir /\ ~ Linked(p) /\ entry[p].type \in {"file", "dir"}
  BY <1>0, <1>1 DEF WalkInv, Chained, AtEntry
<1>4. \A x \in Places : /\ entry'[x].start = entry[x].start /\ entry'[x].size = entry[x].size
                        /\ entry'[x].type = entry[x].type
  <2>1. /\ entry'[p] = [entry[p] EXCEPT !.meta = Metadata(p)] /\ entry[p] \in Entries
        /\ \A q \in Places \ {p} : entry'[q] = entry[q]
    BY <1>1, <1>2 DEF Typed
  <2>2. /\ entry'[p].start = entry[p].start /\ entry'[p].size = entry[p].size
        /\ entry'[p].type = entry[p].type
    BY <2>1 DEF Entries
  <2> QED  BY <2>1, <2>2
<1>5. Linking /\ \A x \in Places : Linked(x)' <=> Linked(x)
  BY <1>1, KidsSame DEF Linking
<1>6. \A x \in Places \ {Root} :
        Linked(x)' /\ entry'[x].type = "file" => Linked(x) /\ entry[x].type = "file"
  BY <1>4, <1>5
<1>7. CASE entry[p].type = "file"
  <2>1. pc' = "fsize" /\ stack' = stack
    BY <1>0, <1>7 DEF ba_get_metadata
  <2>2. \A x : OnWay(x)' <=> OnWay(x)
    BY <2>1 DEF OnWay
  <2>3. WayOK'
    BY <1>4, <1>5, <2>2 DEF Ordered, WayOK
  <2> QED  BY <1>1, <1>4, <1>5, <1>6, <2>1, <2>2, <2>3, OrderKept DEF NoSize
<1>8. CASE entry[p].type = "dir"
  <2>1. pc' = "opendir" /\ stack' = Append(stack, Activation(p))
    BY <1>0, <1>8 DEF ba_get_metadata
  <2>2. Activation(p) \in Frames /\ Activation(p).dir = p
    BY <1>2, FirstActivation
  <2>3. /\ Len(stack') = Len(stack) + 1 /\ stack'[Len(stack) + 1] = Activation(p)
        /\ \A j \in 1 .. Len(stack) : stack'[j] = stack[j]
    BY <1>2, <2>1, <2>2, AppendProperties
  <2>4. \A x : OnWay(x)' <=> OnWay(x) \/ x = p
    BY <1>2, <2>2, <2>3 DEF OnWay
  <2>5. Above(p) = Above(Top.dir) \cup {p} /\ OnWay(Top.dir) /\ Top.dir \in Places
    BY <1>2, <1>3, AboveChild, TopWay
  <2>6. WayOK'
    <3> SUFFICES ASSUME NEW x \in Places, OnWay(x)'
                 PROVE  /\ x = Root \/ (~ Linked(x)' /\ entry'[x].type = "dir")
                        /\ \A y \in Above(x) : OnWay(y)'
      BY DEF WayOK
    <3>1. CASE x = p
      BY <1>2, <1>3, <1>4, <1>5, <1>8, <2>4, <2>5, <3>1 DEF Ordered, WayOK
    <3>2. CASE OnWay(x)
      BY <1>4, <1>5, <2>4, <3>2 DEF Ordered, WayOK
    <3> QED  BY <2>4, <3>1, <3>2
  <2> QED  BY <1>1, <1>2, <1>3, <1>4, <1>5, <1>6, <2>1, <2>4, <2>6, OrderKept DEF NoSize
<1> QED  BY <1>3, <1>7, <1>8

\* The file whose size is taken is the last one.
LEMMA OrderOnSize ==
    ASSUME WalkInv, Ordered, ba_fsize
    PROVE  Ordered'
<1>0. PICK p : p = Top.at
  OBVIOUS
<1>1. pc = "fsize"
  BY DEF ba_fsize
<1>2. /\ Typed /\ p \in Places /\ Len(stack) \in Nat /\ Top.dir \in Places
  BY <1>0, TopFacts DEF WalkInv
<1>3. p # Root /\ Front(p) = Top.dir /\ ~ Linked(p) /\ entry[p].type = "file"
  BY <1>0, <1>1 DEF WalkInv, Chained, AtEntry
<1>4. CASE ~ DataSize
  <2>1. pc' = "crash" /\ stack' = stack /\ UNCHANGED made
    BY <1>4 DEF ba_fsize
  <2>2. \A x \in Places : (Linked(x)' <=> Linked(x)) /\ (OnWay(x)' <=> OnWay(x))
    BY <2>1 DEF made, Linked, OnWay
  <2> QED  BY <2>1 DEF Ordered, WayOK, SizedOK, Passed, StartsOK, FilesBefore, Sized, SizeOf,
                       OnWay, Linked, Before, Ahead, made
<1>5. CASE DataSize /\ ~ HasSize(p)
  BY <1>0, <1>5, OrderOnReturn DEF ba_fsize, Error
<1>6. CASE DataSize /\ HasSize(p)
  <2>1. /\ entry' = [entry EXCEPT ![p].size = disk[p].size, ![p].start = data_size]
        /\ data_size' = data_size + disk[p].size
        /\ Link(p) /\ pc' = "readdir" /\ stack' = stack
    BY <1>0, <1>6 DEF ba_fsize, NextStart
  <2>2. entry[p] \in Entries /\ disk[p].size \in Nat /\ data_size \in Nat
    BY <1>2, NodeFacts DEF Typed, Disks
  <2>3. /\ entry'[p] = [entry[p] EXCEPT !.size = disk[p].size, !.start = data_size]
        /\ \A q \in Places \ {p} : entry'[q] = entry[q]
    BY <1>2, <2>1 DEF Typed
  <2>4. /\ entry'[p].size = disk[p].size /\ entry'[p].start = data_size
        /\ \A q \in Places : entry'[q].type = entry[q].type
    BY <2>2, <2>3 DEF Entries
  <2>5. Here(p) /\ Linking
    BY <1>2, <1>3, <2>1 DEF Here, Linking
  <2>6. \A q \in Places \ {Root} : Linked(q)' <=> Linked(q) \/ q = p
    BY <1>2, <1>3, <2>1, LinkStep
  <2>7. \A x : OnWay(x)' <=> OnWay(x)
    BY <2>1 DEF OnWay
  <2>8. p \notin Sized /\ IsFiniteSet(Sized)
    BY <1>3 DEF Ordered, SizedOK
  <2>9. Sized' = Sized \cup {p}
    <3>1. entry'[p].start # -1
      BY <2>2, <2>4
    <3> QED  BY <1>2, <2>3, <3>1 DEF Sized
  <2>10. WayOK'
    <3> SUFFICES ASSUME NEW x \in Places, OnWay(x)
                 PROVE  /\ x = Root \/ (~ Linked(x)' /\ entry'[x].type = "dir")
                        /\ \A y \in Above(x) : OnWay(y)'
      BY <2>7 DEF WayOK
    <3>1. x = Root \/ (~ Linked(x) /\ entry[x].type = "dir")
      BY DEF Ordered, WayOK
    <3> QED  BY <1>3, <2>4, <2>6, <2>7, <3>1 DEF Ordered, WayOK
  <2>11. \A x \in Above(p) : x = p \/ OnWay(x)
    <3>1. Above(p) = Above(Top.dir) \cup {p} /\ OnWay(Top.dir)
      BY <1>2, <1>3, AboveChild, TopWay
    <3> QED  BY <1>2, <3>1 DEF Ordered, WayOK
  <2>12. SizedOK'
    <3>1. IsFiniteSet(Sized')
      BY <2>8, <2>9, FS_AddElement
    <3>2. ASSUME NEW q \in Sized'
          PROVE  /\ q # Root /\ entry'[q].type = "file" /\ Linked(q)'
                 /\ \A x \in Above(q) : Linked(x)' \/ OnWay(x)'
      <4>1. CASE q = p
        BY <1>2, <1>3, <2>4, <2>6, <2>7, <2>11, <4>1
      <4>2. CASE q \in Sized
        <5>1. q \in Places /\ Above(q) \subseteq Places \ {Root}
          BY <4>2, AboveFacts DEF Sized
        <5> QED  BY <2>4, <2>6, <2>7, <4>2, <5>1 DEF Ordered, SizedOK
      <4> QED  BY <2>9, <4>1, <4>2
    <3>3. \A q \in Places \ {Root} : Linked(q)' /\ entry'[q].type = "file" => q \in Sized'
      BY <2>4, <2>6, <2>9 DEF Ordered, SizedOK
    <3> QED  BY <3>1, <3>2, <3>3 DEF SizedOK
  <2>13. \A q \in Sized : q \in Places /\ Before(q, p) /\ Before(q, p)'
    <3>1. \A q \in Sized : q \in Places /\ Before(q, p)
      BY <1>2, <1>3, AllBefore DEF Sized
    <3> QED  BY <1>2, <2>5, <3>1, BeforeStays
  <2>14. ASSUME NEW x \in Places, OnWay(x) PROVE x \in Prefixes(p)
    BY <1>2, <1>3, <2>14, WayToTop, AboveChild, AboveFacts
  <2>15. Passed'
    <3> SUFFICES ASSUME NEW q \in Sized', NEW x \in Places, OnWay(x)
                 PROVE  x \in Prefixes(q) \/ Before(q, x)'
      BY <2>7 DEF Passed
    <3>1. CASE q = p
      BY <2>14, <3>1
    <3>2. CASE q \in Sized
      <4>1. x \in Prefixes(q) \/ Before(q, x)
        BY <3>2 DEF Ordered, Passed
      <4> QED  BY <1>2, <2>5, <2>13, <3>2, <4>1, BeforeStays
    <3> QED  BY <2>9, <3>1, <3>2
  <2>16. ASSUME NEW q \in Sized PROVE ~ Before(p, q)'
    <3> SUFFICES ASSUME NEW x \in Above(p), NEW y \in Above(q), Ahead(x, y)' PROVE FALSE
      BY DEF Before
    <3>1. x \in Places \ {Root} /\ y \in Places \ {Root}
      BY <1>2, <2>13, AboveFacts
    <3>2. Ahead(x, y) \/ (x = p /\ Front(y) = Front(p) /\ y # p /\ ~ Linked(y))
      BY <1>2, <1>3, <2>1, <3>1, AheadLink
    <3>3. ~ Ahead(x, y)
      <4>1. ~ Linked(x)
        BY <1>3, <2>11, <3>1 DEF Ordered, WayOK
      <4> QED  BY <4>1 DEF Ahead, Linked, ToSet
    <3>4. OnWay(y)
      BY <3>2, <3>3 DEF Ordered, SizedOK
    <3> QED  BY <2>5, <3>1, <3>2, <3>3, <3>4, HereIs
  <2>17. ~ Before(p, p)'
    <3> SUFFICES ASSUME NEW x \in Above(p), NEW y \in Above(p), Ahead(x, y)' PROVE FALSE
      BY DEF Before
    <3>1. x \in Places \ {Root} /\ y \in Places \ {Root}
      BY <1>2, AboveFacts
    <3>2. Ahead(x, y) \/ (x = p /\ Front(y) = Front(p) /\ y # p)
      BY <1>2, <1>3, <2>1, <3>1, AheadLink
    <3>3. ~ Ahead(x, y)
      BY <1>2, BeforeFacts DEF Before
    <3> QED  BY <1>2, <3>2, <3>3, OneInEach
  <2>18. /\ \A q \in Sized : SizeOf'[q] = SizeOf[q] /\ SizeOf[q] \in Nat /\ q # p
         /\ SizeOf'[p] = disk[p].size
    <3>1. \A q \in Sized : q \in Places \ {p}
      BY <2>8, <2>13
    <3>2. \A q \in Places : entry[q].size \in Nat
      BY <1>2 DEF Typed, Entries
    <3> QED  BY <1>2, <2>3, <2>4, <3>1, <3>2 DEF SizeOf
  <2>19. SizeSum(SizeOf', Sized) = data_size
    <3>1. data_size = SizeSum(SizeOf, Sized)
      BY DEF Ordered, StartsOK
    <3> QED  BY <2>18, <3>1, SumSame
  <2>20. data_size' = SizeSum(SizeOf', Sized')
    <3>1. Sizeable(SizeOf', Sized)
      BY <2>8, <2>18 DEF Sizeable
    <3>2. SizeSum(SizeOf', Sized \cup {p}) = SizeSum(SizeOf', Sized) + disk[p].size
      BY <2>2, <2>8, <2>18, <3>1, SumMore
    <3> QED  BY <2>1, <2>9, <2>19, <3>2
  <2>21. ASSUME NEW q \in Sized'
         PROVE  entry'[q].start = SizeSum(SizeOf', FilesBefore(q)')
    <3>1. CASE q = p
      <4>1. FilesBefore(p)' = Sized
        BY <2>9, <2>13, <2>17 DEF FilesBefore
      <4> QED  BY <2>4, <2>19, <3>1, <4>1
    <3>2. CASE q \in Sized
      <4>1. \A r \in Sized : Before(r, q)' <=> Before(r, q)
        BY <2>5, <3>2, BeforeSame
      <4>2. FilesBefore(q)' = FilesBefore(q)
        BY <2>9, <2>16, <3>2, <4>1 DEF FilesBefore
      <4>3. SizeSum(SizeOf', FilesBefore(q)) = SizeSum(SizeOf, FilesBefore(q))
        <5>1. \A r \in FilesBefore(q) : SizeOf'[r] = SizeOf[r]
          BY <2>18 DEF FilesBefore
        <5> QED  BY <5>1, SumSame
      <4>4. entry'[q] = entry[q]
        BY <2>3, <2>13, <2>18, <3>2
      <4> QED  BY <3>2, <4>2, <4>3, <4>4 DEF Ordered, StartsOK
    <3> QED  BY <2>9, <3>1, <3>2
  <2>22. StartsOK'
    BY <2>20, <2>21 DEF StartsOK
  <2> QED  BY <2>1, <2>10, <2>12, <2>15, <2>22 DEF Ordered
<1> QED  BY <1>4, <1>5, <1>6

LEMMA OrderStep ==
    ASSUME WalkInv, Ordered, [Next]_vars
    PROVE  Ordered'
<1>1. CASE UNCHANGED vars
  BY <1>1, OrderOnChange DEF vars
<1>2. CASE Walk
  BY <1>2, OrderOnOpen, OrderOnName, OrderOnClose, OrderOnMetadata, OrderOnSize DEF Walk
<1>3. CASE Running /\ \E p \in Places \ {Root} : Change(p)
  BY <1>3, OrderOnChange DEF Change
<1> QED  BY <1>1, <1>2, <1>3 DEF Next

LEMMA OrderedAtEnd == WalkInv /\ Ordered => StartsInWalkOrder
<1> SUFFICES ASSUME WalkInv, Ordered, pc = "done" PROVE StartsInWalkOrder
  BY DEF StartsInWalkOrder
<1> DEFINE files == {p \in Loaded : entry[p].type = "file"}
           size  == [p \in files |-> entry[p].size]
<1>1. \A x \in Places : OnWay(x) => x = Root
  <2>1. ASSUME NEW x \in Places, OnWay(x) PROVE x = Root
    <3>1. Len(x) < 1 /\ Len(x) \in Nat
      BY <2>1, WayIs, PlaceSeq DEF Ordered
    <3> QED  BY <3>1, FrontIsPlace
  <2> QED  BY <2>1
<1>2. files = Sized
  <2>1. ASSUME NEW p \in files PROVE p \in Sized
    <3>1. p \in Places \ {Root} /\ Linked(p)
      BY AboveFacts DEF Loaded
    <3> QED  BY <3>1 DEF Ordered, SizedOK
  <2>2. ASSUME NEW p \in Sized PROVE p \in files
    <3>1. p \in Places \ {Root} /\ entry[p].type = "file"
      BY DEF Ordered, SizedOK, Sized
    <3>2. \A x \in Above(p) : x \in Places \ {Root} /\ (Linked(x) \/ OnWay(x))
      BY <3>1, AboveFacts DEF Ordered, SizedOK
    <3> QED  BY <1>1, <3>1, <3>2 DEF Loaded
  <2> QED  BY <2>1, <2>2
<1>3. \A p \in files : size[p] = SizeOf[p]
  BY <1>2 DEF SizeOf, Sized
<1> HIDE DEF files, size
<1>4. \A F \in SUBSET files : SizeSum(size, F) = SizeSum(SizeOf, F)
  BY <1>3, SumSame
<1>5. data_size = SizeSum(size, files)
  BY <1>2, <1>4 DEF Ordered, StartsOK
<1>6. ASSUME NEW p \in files PROVE entry[p].start = SizeSum(size, {q \in files : Before(q, p)})
  <2>1. entry[p].start = SizeSum(SizeOf, {q \in files : Before(q, p)})
    BY <1>2 DEF Ordered, StartsOK, FilesBefore
  <2> QED  BY <1>4, <2>1
<1> QED  BY <1>5, <1>6 DEF StartsInWalkOrder, files, size

\* Once ba_load_fs_tree() is done, the offset of every file that was loaded is the size in
\* all of those the walks that save them come to before it, and data_size that of all of
\* them, whatever was left out or changed on the disk meanwhile.
THEOREM StartsInOrder == Spec => []StartsInWalkOrder
<1>1. Init => WalkInv /\ Ordered
  BY WalkInit, OrderInit
<1>2. WalkInv /\ Ordered /\ [Next]_vars => (WalkInv /\ Ordered)'
  BY WalkStep, OrderStep
<1> QED  BY <1>1, <1>2, OrderedAtEnd, PTL DEF Spec
===============================================================================
