---------------------------- MODULE AtomicStore ----------------------------
(***************************************************************************)
(* What storage that writes a file aside and then renames it promises: a   *)
(* call changes the place of its uid in one step, to a whole value; a call *)
(* that answers with an error has changed nothing.  Only a place changed   *)
(* since the disk was last brought up to date can suffer from a power      *)
(* failure.                                                                *)
(***************************************************************************)
CONSTANTS Places, Contents

Absent == "absent"
Torn == "torn"

VARIABLES
    entry,      \* entry[u]: Absent, Torn, or the value a reader finds
    settled,    \* the entries a power failure cannot undo
    task,       \* the call under way
    done,       \* whether it has taken effect
    answer      \* what the last call answered

storeVars == <<entry, settled, task, done, answer>>

NoTask == [op |-> "none"]
Tasks == [op : {"set"}, place : Places, content : Contents]
         \cup [op : {"remove"}, place : Places]

StoreInit ==
    /\ entry = [u \in Places |-> Absent]
    /\ settled = entry
    /\ task = NoTask
    /\ done = FALSE
    /\ answer = "none"

Start ==
    /\ task = NoTask
    /\ task' \in Tasks
    /\ answer' = "none"
    /\ UNCHANGED <<entry, settled, done>>

Refuse ==
    /\ task = NoTask
    /\ answer' = "error"
    /\ UNCHANGED <<entry, settled, task, done>>

(* The one step by which a call takes effect.                              *)
Effect ==
    entry' = [entry EXCEPT ![task.place] =
                IF task.op = "set" THEN task.content ELSE Absent]

Apply ==
    /\ task # NoTask
    /\ ~ done
    /\ Effect
    /\ done' = TRUE
    /\ UNCHANGED <<settled, task, answer>>

Finish ==
    /\ task # NoTask
    /\ task' = NoTask
    /\ done' = FALSE
    /\ \/ answer' = "ok" /\ (IF done THEN UNCHANGED entry ELSE Effect)
       \/ answer' = "error" /\ ~ done /\ UNCHANGED entry
    /\ UNCHANGED settled

(* The operating system brings the place of u on the disk up to date.      *)
Settle(u) ==
    /\ settled' = [settled EXCEPT ![u] = entry[u]]
    /\ UNCHANGED <<entry, task, done, answer>>

(* The program dies.                                                       *)
Die ==
    /\ task' = NoTask
    /\ done' = FALSE
    /\ answer' = "none"
    /\ UNCHANGED <<entry, settled>>

(* The power fails as well: a place that was not settled has the old       *)
(* content, the new one, or one that cannot be read.                       *)
Outcomes(u) ==
    IF entry[u] = settled[u] THEN {entry[u]}
                             ELSE {entry[u], settled[u], Torn}

PowerCut ==
    /\ task' = NoTask
    /\ done' = FALSE
    /\ answer' = "none"
    /\ entry' \in [Places -> Contents \cup {Absent, Torn}]
    /\ \A u \in Places : entry'[u] \in Outcomes(u)
    /\ settled' = entry'

StoreNext ==
    \/ Start \/ Refuse \/ Apply \/ Finish \/ Die \/ PowerCut
    \/ \E u \in Places : Settle(u)

StoreSpec == StoreInit /\ [][StoreNext]_storeVars
=============================================================================
