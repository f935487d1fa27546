---------------------------- MODULE LeaveLedger ----------------------------
(***************************************************************************)
(* What the leave pipeline owes to a request, with no queue, handler or    *)
(* database in sight: it is booked once, on dates that then stay, waits    *)
(* for one verdict that follows from those dates, and keeps it.  On the    *)
(* way its event may be parked in the dead-letter queue or swallowed by an *)
(* outage.  The rules end where an administrator takes a request over.     *)
(***************************************************************************)
EXTENDS LeaveDates

CONSTANTS Requests, Days

VARIABLE ledger     \* what is known of each request

Unbooked == [stage |-> "unbooked"]
Theirs == [stage |-> "theirs"]
Open(stage, from, to) == [stage |-> stage, from |-> from, to |-> to]
Closed(from, to, status) ==
    [stage |-> "decided", from |-> from, to |-> to, status |-> status]

Stage(r) == ledger[r].stage

(* The dates are in order; west of Greenwich they may miss it by one day.  *)
Book(r, from, to) ==
    /\ Stage(r) = "unbooked"
    /\ to + 1 >= from
    /\ ledger'[r] = Open("booked", from, to)

(* Its event has failed too often; or an outage has taken it.              *)
Park(r) ==
    /\ Stage(r) = "booked"
    /\ ledger'[r] = [ledger[r] EXCEPT !.stage = "parked"]
Lose(r) ==
    /\ Stage(r) \in {"booked", "parked"}
    /\ ledger'[r] = [ledger[r] EXCEPT !.stage = "lost"]

(* A handler that is still at work may decide a parked or a lost request.  *)
Settle(r) ==
    LET from == ledger[r].from
        to == ledger[r].to IN
    /\ Stage(r) \in {"booked", "parked", "lost"}
    /\ ledger'[r] = Closed(from, to, Verdict(from, to))

TakeOver(r) ==
    /\ Stage(r) # "unbooked"
    /\ ledger'[r] = Theirs

Move(r) ==
    \/ \E from, to \in Days : Book(r, from, to)
    \/ Park(r) \/ Lose(r) \/ Settle(r) \/ TakeOver(r)

Init == ledger = [r \in Requests |-> Unbooked]

(* One step of the pipeline may move several requests, as a broker that    *)
(* restarts does, but each of them by one move.                            *)
Next == \A r \in Requests : Move(r) \/ ledger'[r] = ledger[r]

Spec == Init /\ [][Next]_ledger
=============================================================================
