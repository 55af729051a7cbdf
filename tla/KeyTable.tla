------------------------------ MODULE KeyTable ------------------------------
(***************************************************************************)
(* What the key management promises its callers: a table from ids to key   *)
(* material.  An id that is free can be given to a new key, a key can go   *)
(* away, and a use of an id reads the key that the table holds for it.     *)
(***************************************************************************)
CONSTANTS Ids, Materials, None, NullId

VARIABLES
    table,      \* table[k]: the material of key k, or None
    answer      \* the last use of a key, and the material it got

(* Keys may have been saved before.                                        *)
TableInit ==
    /\ table \in [Ids -> Materials \cup {None}]
    /\ answer = [id |-> NullId, material |-> None]

Add(k, m) ==
    /\ table[k] = None
    /\ table' = [table EXCEPT ![k] = m]
    /\ UNCHANGED answer

Remove(S) ==
    /\ table' = [k \in Ids |-> IF k \in S THEN None ELSE table[k]]
    /\ UNCHANGED answer

Read(k) ==
    /\ table[k] # None
    /\ answer' = [id |-> k, material |-> table[k]]
    /\ UNCHANGED table

TableNext ==
    \/ \E k \in Ids : Read(k) \/ \E m \in Materials : Add(k, m)
    \/ \E S \in SUBSET Ids : Remove(S)

TableSpec == TableInit /\ [][TableNext]_<<table, answer>>
=============================================================================
