---------------------------- MODULE ArchiveStore ----------------------------
(***************************************************************************)
(* What saving and opening archives promises.  An open archive is a map    *)
(* from names to contents.  Saving gives up what the target path held and  *)
(* puts the whole map there, at some moment not later than the close; a    *)
(* crash may prevent that, but touches no other archive.                   *)
(***************************************************************************)
CONSTANTS Names, Contents, Paths, NULL

VARIABLES
    contents,   \* the open archive: a map from names to contents, or NULL
    target,     \* what is being saved and where: [path, map], or NULL
    stored      \* the map each path holds, or NULL

vars == <<contents, target, stored>>

Init ==
    /\ contents = NULL
    /\ target = NULL
    /\ stored = [p \in Paths |-> NULL]

New ==
    /\ contents = NULL
    /\ contents' = [n \in {} |-> NULL]
    /\ UNCHANGED <<target, stored>>

Open(p) ==
    /\ contents = NULL
    /\ stored[p] # NULL
    /\ contents' = stored[p]
    /\ UNCHANGED <<target, stored>>

Put(n) ==
    /\ contents # NULL
    /\ target = NULL
    /\ contents' # NULL
    /\ DOMAIN contents' = DOMAIN contents \cup {n}
    /\ contents'[n] \in Contents
    /\ \A m \in DOMAIN contents \ {n} : contents'[m] = contents[m]
    /\ UNCHANGED <<target, stored>>

Remove(n) ==
    /\ contents # NULL
    /\ target = NULL
    /\ contents' = [m \in DOMAIN contents \ {n} |-> contents[m]]
    /\ UNCHANGED <<target, stored>>

Save(p) ==
    /\ contents # NULL
    /\ target = NULL
    /\ target' = [path |-> p, map |-> contents]
    /\ \E m \in {NULL, contents} : stored' = [stored EXCEPT ![p] = m]
    /\ UNCHANGED contents

Landed == IF target = NULL THEN stored ELSE [stored EXCEPT ![target.path] = target.map]

Land == stored' = Landed /\ UNCHANGED <<contents, target>>

Close ==
    /\ contents # NULL
    /\ stored' = Landed
    /\ contents' = NULL
    /\ target' = NULL

Crash ==
    /\ contents' = NULL
    /\ target' = NULL
    /\ UNCHANGED stored

Next ==
    \/ New
    \/ \E p \in Paths : Open(p) \/ Save(p)
    \/ \E n \in Names : Put(n) \/ Remove(n)
    \/ Land
    \/ Close
    \/ Crash

Spec == Init /\ [][Next]_vars
=============================================================================
