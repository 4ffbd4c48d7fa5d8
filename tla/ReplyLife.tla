------------------------------ MODULE ReplyLife ------------------------------
(***************************************************************************)
(* What the message store promises about a row, whatever the order in      *)
(* which sockets, delivery tasks and webhooks reach it (the states and     *)
(* their order are those of MessageStatus in src/model.rs):                *)
(*                                                                         *)
(*   - a row is "new" first; only a row the provider holds becomes         *)
(*     "delivered"; "read" and "failed" are final;                         *)
(*   - reads take whole sets of rows at once, and never a failed row;      *)
(*   - a row somebody wrote through this program is never dropped; a row   *)
(*     without an author may be, and never comes back.                     *)
(***************************************************************************)
CONSTANT Rows

VARIABLES shown,   \* what the history shows of each row
          taken,   \* the rows the provider holds
          written  \* the rows that have an author

vars == <<shown, taken, written>>

States == {"absent", "new", "delivered", "read", "failed", "dropped"}

Init ==
    /\ shown = [r \in Rows |-> "absent"]
    /\ taken = {}
    /\ written = {}

Store(r) ==
    /\ shown[r] = "absent"
    /\ shown' = [shown EXCEPT ![r] = "new"]
    /\ written' \in {written, written \cup {r}}
    /\ UNCHANGED taken

Take(r) ==
    /\ shown[r] \in {"new", "read"}
    /\ taken' = taken \cup {r}
    /\ UNCHANGED <<shown, written>>

Tick(r) ==
    /\ shown[r] = "new"
    /\ r \in taken
    /\ shown' = [shown EXCEPT ![r] = "delivered"]
    /\ UNCHANGED <<taken, written>>

Fail(r) ==
    /\ shown[r] = "new"
    /\ shown' = [shown EXCEPT ![r] = "failed"]
    /\ UNCHANGED <<taken, written>>

Read(R) ==
    /\ \A r \in R : shown[r] \in {"new", "delivered"}
    /\ shown' = [r \in Rows |-> IF r \in R THEN "read" ELSE shown[r]]
    /\ UNCHANGED <<taken, written>>

Drop(r) ==
    /\ shown[r] \in {"new", "read"}
    /\ r \notin written
    /\ shown' = [shown EXCEPT ![r] = "dropped"]
    /\ UNCHANGED <<taken, written>>

Next ==
    \/ \E r \in Rows : Store(r) \/ Take(r) \/ Tick(r) \/ Fail(r) \/ Drop(r)
    \/ \E R \in SUBSET Rows : Read(R)

Spec == Init /\ [][Next]_vars
=============================================================================
