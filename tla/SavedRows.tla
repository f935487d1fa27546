----------------------------- MODULE SavedRows -----------------------------
(***************************************************************************)
(* What TypeORM's Repository.save does to one row of a table, as the       *)
(* services rely on it: the row is reloaded (base), the columns in which   *)
(* the entity differs from base are written, the others are left alone.    *)
(***************************************************************************)

(* No row.  It has a status, so that a row can be asked for one.           *)
Absent == [status |-> "ABSENT"]

(* Seeded fault: only the columns left out of the forgotten set are written*)
MergeForgetsTime(current, base, entity) ==
    [c \in DOMAIN current |->
        IF entity[c] # base[c] /\ c # "processed" THEN entity[c] ELSE current[c]]

(* The UPDATE statement, on the row as it is when the statement runs.      *)
Merge(current, base, entity) ==
    [c \in DOMAIN current |->
        IF entity[c] # base[c] THEN entity[c] ELSE current[c]]

(* The reload found no row, but there is one now: the INSERT fails.        *)
Conflict(current, base) == base = Absent /\ current # Absent

(* The row after save's statement: an INSERT when the reload found none,   *)
(* an UPDATE otherwise, which touches nothing when the row has gone.       *)
Saved(current, base, entity) ==
    IF base = Absent THEN entity
    ELSE IF current = Absent THEN Absent
    ELSE Merge(current, base, entity)
=============================================================================
