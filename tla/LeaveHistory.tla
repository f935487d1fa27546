---------------------------- MODULE LeaveHistory ----------------------------
(***************************************************************************)
(* LeavePipeline with a memory of every row: what the pipeline still owes  *)
(* to requests that administrators patch or delete while it works on them. *)
(***************************************************************************)
EXTENDS LeavePipeline

VARIABLES
    had,        \* the days each row has claimed, in its life so far
    given       \* the statuses that administrators have given each row

(* What a row claims: its dates, if its status counts as leave.            *)
Claim(x) ==
    IF x.status \in Active THEN {[from |-> x.from, to |-> x.to, live |-> TRUE]}
    ELSE {[from |-> 0, to |-> 0, live |-> FALSE]}

(* The calls that assign r another status than the one they have just read.*)
GivenBy(r) ==
    {a \in Admins : /\ adm[a] = NoAdm
                    /\ adm'[a].pc = "loaded"
                    /\ adm'[a].req = r
                    /\ adm'[a].entity.status # row[r].status}

(* A claim that is given up, by a DELETE or a REJECTED, is remembered too. *)
Remember ==
    /\ had' = [r \in Requests |->
                  IF had[r] = {} /\ row'[r] = Absent THEN {}
                  ELSE had[r] \cup Claim(row'[r])]
    /\ given' = [r \in Requests |->
                    given[r] \cup {adm'[a].entity.status : a \in GivenBy(r)}]

varsH == <<vars, had, given>>

InitH ==
    /\ Init
    /\ had = [r \in Requests |-> {}]
    /\ given = [r \in Requests |-> {}]
NextH == Next /\ Remember
SpecH == InitH /\ [][NextH]_varsH

-----------------------------------------------------------------------------
(* Properties.                                                             *)

(* PATCH races the worker: the worker may decide dates that a PATCH has    *)
(* replaced meanwhile, and a PATCH may carry an old status or old dates    *)
(* back.  Still no status is made up: every row is PENDING, shows a status *)
(* that an administrator gave this very row, or the verdict of dates it has*)
(* really had at once.                                                     *)
VerdictOfHeldDates ==
    \A r \in Requests : Present(r) =>
        \/ row[r].status \in given[r] \cup {"PENDING"}
        \/ \E d \in had[r] : d.live /\ row[r].status = Verdict(d.from, d.to)

(* PATCH runs no overlap check.  That costs the check only the requests    *)
(* whose claim a PATCH or DELETE has really moved, given up or taken up    *)
(* again: two live requests overlap only when one of them has changed its  *)
(* claim, or each was missed by the overlap query of the other.            *)
Steady(r) == \A c, d \in had[r] : c = d
OverlapOnlyByMoveOrRace ==
    \A r, q \in Requests :
        /\ r # q
        /\ Steady(r)
        /\ Steady(q)
        /\ Owner[r] = Owner[q]
        /\ row[r].status \in Active
        /\ row[q].status \in Active
        /\ Overlaps(row[r], row[q])
        => MissedBy(r, q) /\ MissedBy(q, r)
=============================================================================
