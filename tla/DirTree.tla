------------------------------- MODULE DirTree -------------------------------
(***************************************************************************)
(* What the entry tree of an archive promises: every entry of the archive  *)
(* lies in exactly one place, a directory of the archive or the root.      *)
(* where maps each entry to that place; NULL is the root.                  *)
(***************************************************************************)
CONSTANTS Entries, NULL

VARIABLE where

Present == DOMAIN where

\* The entries in and below e in the map w, e included.
Under(w, e) ==
    LET closed == {S \in SUBSET DOMAIN w :
                      e \in S /\ \A x \in DOMAIN w : w[x] \in S => x \in S}
    IN  {x \in DOMAIN w : \A S \in closed : x \in S}

Without(w, S) == [x \in DOMAIN w \ S |-> w[x]]

\* The map w with e in d.
Placed(w, e, d) == [x \in DOMAIN w \cup {e} |-> IF x = e THEN d ELSE w[x]]

Init == where = [x \in {} |-> NULL]

Add(e, d) ==
    /\ e \notin Present
    /\ where' = Placed(where, e, d)

\* An entry goes together with everything below it.
Remove(e) == where' = Without(where, Under(where, e))

\* An entry never goes below itself.
Move(e, d) ==
    /\ d \notin Under(where, e)
    /\ where' = Placed(where, e, d)

\* e takes the place of the file f, which is gone.
Replace(e, f) ==
    /\ f \notin Under(where, e)
    /\ where' = Without(Placed(where, e, where[f]), {f})

Close == where' = [x \in {} |-> NULL]

Next ==
    \/ \E e \in Entries, d \in Present \cup {NULL} : Add(e, d)
    \/ \E e \in Present : Remove(e)
    \/ \E e \in Present, d \in Present : Move(e, d) \/ Replace(e, d)
    \/ Close

Spec == Init /\ [][Next]_where
=============================================================================
