------------------------------ MODULE EntryList ------------------------------
(***************************************************************************)
(* The singly linked lists of ba_Entry structs (entrylist.c).              *)
(*                                                                         *)
(* An entry is an address out of Entries; NULL is the null pointer.  The   *)
(* pointers of all lists are one record:                                   *)
(*   head[d]  what a directory d's ->child_entries points to, and, as      *)
(*            head[NULL], what arch->entry_tree points to: the code picks  *)
(*            the same slot with parent_dir = NULL for the root;           *)
(*   next[e]  the ->next pointer of entry e.                               *)
(* The operators below are the functions of entrylist.c on that record.    *)
(* Loops over a list are described by the set of entries they visit, the   *)
(* least set closed under ->next, so that nothing here is recursive.       *)
(***************************************************************************)
EXTENDS FiniteSets, Naturals

CONSTANTS Entries, NULL

ASSUME NullAssumption == NULL \notin Entries

Pointer == Entries \cup {NULL}
Links   == [head : [Pointer -> Pointer], next : [Entries -> Pointer]]

NoLinks == [head |-> [d \in Pointer |-> NULL], next |-> [e \in Entries |-> NULL]]

(***************************************************************************)
(* What a walk visits.                                                     *)
(***************************************************************************)
\* The sets of entries that hold first and, with each entry, the entry that the
\* pointers link lead to.
ClosedSets(link, first) ==
    {S \in SUBSET Entries : first \in S \cup {NULL} /\ \A e \in S : link[e] \in S \cup {NULL}}

\* The entries visited by  while (current) current = current->next;
Chain(next, first) ==
    LET closed == ClosedSets(next, first)
    IN  {e \in Entries : \A S \in closed : e \in S}

\* Mutant of Reach: the recursion into ->child_entries is forgotten.
Reach_one_list(l, first) == Chain(l.next, first)

\* The entries visited by a recursive walk over ->next and ->child_entries.
Reach(l, first) ==
    LET closed == ClosedSets(l.next, first) \cap ClosedSets(l.head, first)
    IN  {e \in Entries : \A S \in closed : e \in S}

\* A walk along ->next from first comes to a null pointer.
Terminates(next, first) ==
    first = NULL \/ \E e \in Chain(next, first) : next[e] = NULL

\* The entries of directory dir (of the root for NULL).
Listed(l, dir) == Chain(l.next, l.head[dir])

\* No two pointers out of the entries S, and the slots D, are equal.
Unshared(l, S, D) ==
    /\ \A p, q \in S : l.next[p] = l.next[q] => p = q \/ l.next[p] = NULL
    /\ \A c, d \in D : l.head[c] = l.head[d] => c = d \/ l.head[c] = NULL
    /\ \A p \in S, d \in D : l.next[p] = l.head[d] => l.next[p] = NULL

\* A recursive walk from first comes to every entry once: no two pointers on
\* the way lead to the same entry, and none leads back to first.
IsTree(l, first) ==
    LET R == Reach(l, first)
    IN  /\ Unshared(l, R, R)
        /\ \A p \in R : first \notin {l.next[p], l.head[p]}

(***************************************************************************)
(* The functions of entrylist.c.                                           *)
(***************************************************************************)
\* __bael_getlast
getlast(next, first) == CHOOSE e \in Chain(next, first) : next[e] = NULL

\* The entries __bael_getprev visits while it looks for e: it goes no further.
ChainTo(next, first, e) == Chain([next EXCEPT ![e] = NULL], first)

\* __bael_getprev, called when e is not the first entry: the entry before e or,
\* when e is not in the list, the last one.
getprev(next, first, e) ==
    LET visited == ChainTo(next, first, e)
    IN  CHOOSE p \in visited \ {e} :
          IF e \in visited THEN next[p] = e ELSE next[p] = NULL

\* Mutants of bael_add: the new entry takes the place of the whole list; the
\* ->next that malloc() returned is not cleared.
bael_add_overwrites(l, dir, e) ==
    [head |-> [l.head EXCEPT ![dir] = e], next |-> [l.next EXCEPT ![e] = NULL]]

bael_add_next_unset(l, dir, e) ==
    IF l.head[dir] = NULL
    THEN [head |-> [l.head EXCEPT ![dir] = e], next |-> [l.next EXCEPT ![e] = "unset"]]
    ELSE [head |-> l.head, next |-> [l.next EXCEPT ![getlast(l.next, l.head[dir])] = e,
                                                   ![e] = "unset"]]

\* bael_add: e becomes the last entry of dir, its own ->next is cleared first.
bael_add(l, dir, e) ==
    LET cleared == [l.next EXCEPT ![e] = NULL]
    IN  IF l.head[dir] = NULL
        THEN [head |-> [l.head EXCEPT ![dir] = e], next |-> cleared]
        ELSE [head |-> l.head,
              next |-> [cleared EXCEPT ![getlast(cleared, l.head[dir])] = e]]

\* Mutants of bael_remove: nothing is unlinked; only a first entry is unlinked;
\* what follows the entry is cut off.
bael_remove_nothing(l, dir, e) == l

bael_remove_first_only(l, dir, e) ==
    [head |-> IF l.head[dir] = e THEN [l.head EXCEPT ![dir] = l.next[e]] ELSE l.head,
     next |-> [l.next EXCEPT ![e] = NULL]]

bael_remove_truncates(l, dir, e) ==
    IF l.head[dir] = e THEN bael_remove_first_only(l, dir, e)
    ELSE [head |-> l.head,
          next |-> [l.next EXCEPT ![getprev(l.next, l.head[dir], e)] = NULL, ![e] = NULL]]

\* bael_remove: dir is rm_entry->parent_dir.  When that list is empty
\* __bael_getprev returns NULL and the function gives up before it touches e.
bael_remove(l, dir, e) ==
    CASE l.head[dir] = e ->
           [head |-> [l.head EXCEPT ![dir] = l.next[e]],
            next |-> [l.next EXCEPT ![e] = NULL]]
      [] l.head[dir] = NULL -> l
      [] OTHER ->
           [head |-> l.head,
            next |-> [l.next EXCEPT ![getprev(l.next, l.head[dir], e)] = l.next[e],
                                    ![e] = NULL]]

\* Freed entries keep no pointers (their addresses may be handed out again).
Forget(l, S) ==
    [head |-> [d \in Pointer |-> IF d \in S THEN NULL ELSE l.head[d]],
     next |-> [e \in Entries |-> IF e \in S THEN NULL ELSE l.next[e]]]
=============================================================================
