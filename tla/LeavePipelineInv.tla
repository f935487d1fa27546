-------------------------- MODULE LeavePipelineInv --------------------------
(***************************************************************************)
(* The inductive invariant behind the safety properties of LeavePipeline.  *)
(***************************************************************************)
EXTENDS LeavePipeline

SameDates(x, y) == x.from = y.from /\ x.to = y.to

(* A row or a snapshot is untouched, or carries the verdict of its dates.  *)
WellDecided(x) ==
    \/ x.status = "PENDING" /\ x.processed = Null
    \/ x.status = Verdict(x.from, x.to) /\ x.processed # Null

(* A message of r exists, or a handler still works on one.                 *)
Known(r) ==
    \/ Queued(r)
    \/ Parked(r)
    \/ \E h \in Handlers : Busy(h) /\ hnd[h].event.req = r

(* An administrative call is working on r.                                 *)
Edits(a, r) == adm[a].pc \in {"loaded", "write", "remove"} /\ adm[a].req = r

(* Until its row is inserted, nobody but its own call knows a request.     *)
QuietBeforeInsert ==
    \A r \in Requests : call[r].pc \in {"idle", "check", "insert"} =>
        /\ row[r] = Absent
        /\ r \notin edited
        /\ ~Known(r)
        /\ \A a \in Admins : ~Edits(a, r)

(* Only an administrator can make the row of a known request disappear.    *)
RowStays ==
    \A r \in Requests \ edited :
        Known(r) \/ call[r].pc \in {"emit", "confirm"} => Present(r)

(* What a handler remembers of an unedited row: its dates, which have not  *)
(* changed, and a status that can only have moved on from PENDING since.   *)
Snapshot(h) ==
    LET r == hnd[h].event.req IN
    /\ hnd[h].pc = "found" =>
          /\ hnd[h].entity \in Row
          /\ SameDates(hnd[h].entity, row[r])
          /\ WellDecided(hnd[h].entity)
          /\ hnd[h].entity.status # "PENDING" => row[r].status # "PENDING"
    /\ hnd[h].pc = "write" =>
          /\ hnd[h].base \in Row
          /\ SameDates(hnd[h].base, row[r])
          /\ WellDecided(hnd[h].base)
          /\ hnd[h].base.status # "PENDING" => row[r].status # "PENDING"
          /\ SameDates(hnd[h].entity, row[r])
          /\ hnd[h].entity.status = Verdict(row[r].from, row[r].to)
          /\ hnd[h].entity.processed \in Times
    /\ hnd[h].pc = "saved" => row[r].status # "PENDING"

Snapshots ==
    \A h \in Handlers :
        Busy(h) /\ hnd[h].event.req \notin edited => Snapshot(h)

(* A copy is published only within the retry budget.                       *)
BackoffAllowed ==
    \A h \in Handlers :
        hnd[h].pc = "backoff" => ShouldRetry(hnd[h].event.retries + 1)

(* The broker keeps, or a handler holds, a copy retried at least k times.  *)
Copy(r, k) ==
    \E e \in Event :
        /\ e.req = r
        /\ e.retries >= k
        /\ ready[e] > 0 \/ dlq[e] > 0 \/ \E h \in Handlers : Holds(h, e)

(* A PENDING request has its event; and behind a handler that has published*)
(* a copy and is about to ack there is a copy retried more often than the  *)
(* one it acks.  The order on retries is what keeps two such handlers from *)
(* each relying on the message of the other.                               *)
Waiting(r) == r \notin edited \cup stranded /\ row[r].status = "PENDING"

EventKept ==
    \A r \in Requests : Waiting(r) => call[r].pc = "emit" \/ Copy(r, 0)
CopyAhead ==
    \A h \in Handlers :
        hnd[h].pc = "republished" /\ Waiting(hnd[h].event.req)
        => Copy(hnd[h].event.req, hnd[h].event.retries + 1)

(* Every retry of a message has been paid for by a fault, and the handler  *)
(* that is about to retry it, or has lost it, by one more.                 *)
Failing(h) ==
    ~hnd[h].held \/ hnd[h].pc \in {"caught", "backoff", "republished"}
Paid(e) ==
    /\ ready[e] > 0 => faults >= e.retries
    /\ dlq[e] > 0 => e.retries + 1 = MaxAttempts /\ faults >= MaxAttempts
    /\ \A h \in Handlers : Busy(h) /\ hnd[h].event = e =>
          /\ faults >= e.retries
          /\ Failing(h) => faults >= e.retries + 1
RetriesPaid == \A e \in Event : e.req \notin edited => Paid(e)

(* On one channel at most one retry is published and not yet acked, so that*)
(* losing the channel leaves at most one copy too many.                    *)
OneDoubled ==
    \A g, h \in Handlers :
        /\ g \in Unacked(Home[h]) /\ hnd[g].pc = "republished"
        /\ h \in Unacked(Home[h]) /\ hnd[h].pc = "republished"
        => g = h

(* The copies of an event, with the one that its call is about to emit, and*)
(* the retries any of them has seen are owed to faults of their own; so is *)
(* the retry that a handler which has failed is about to publish.          *)
AboutToEmit(r) == IF call[r].pc = "emit" THEN 1 ELSE 0
Load(r) == Copies(r) + AboutToEmit(r)
Excuse(r) == faults + Cardinality(Doubled(r))
Owed(e, retries) == Load(e.req) + retries <= 1 + Excuse(e.req)
CopiesOwed ==
    \A e \in Event : e.req \notin edited =>
        /\ ready[e] + dlq[e] > 0 => Owed(e, e.retries)
        /\ \A h \in Handlers : Holds(h, e) =>
              /\ Owed(e, e.retries)
              /\ hnd[h].pc \in {"caught", "backoff"} => Owed(e, e.retries + 1)

(* As long as no fault has happened, an event that is still to be decided  *)
(* is the only one of its request.                                         *)
Undecided(h) == hnd[h].pc \in {"find", "found", "write"}
Untried(r) ==
    \/ call[r].pc = "emit"
    \/ \E e \in Event : e.req = r /\ ready[e] > 0
    \/ \E h \in Handlers : Undecided(h) /\ hnd[h].event.req = r
FirstHandling ==
    faults = 0 => \A r \in Requests \ edited :
                     Untried(r) => row[r].status = "PENDING"

(* An unedited request does not overlap the unedited rows its overlap query*)
(* saw, neither before nor after it is inserted, unless its start carries a*)
(* time of day and it begins on the day on which the other ends.           *)
Apart(x, y, timed) == Overlaps(x, y) => timed /\ x.to = y.from
ClearOf(q, r, x) ==
    Present(q) /\ (Owner[q] = Owner[r] => Apart(row[q], x, seen[r].timed))
SeenClear ==
    \A r \in Requests : \A q \in seen[r].rows \ edited :
        /\ call[r].pc = "insert" => ClearOf(q, r, Booked(call[r].from, call[r].to))
        /\ r \notin edited /\ Present(r) => ClearOf(q, r, row[r])

(* What the ledger of a request rests on beside its row: the days of a call*)
(* are in order, or a zone has put them one day out of it; no outage takes *)
(* an event before its row is there, and administrators work on rows they  *)
(* have found.                                                             *)
OrderedCalls ==
    \A r \in Requests : call[r].pc \in {"check", "insert"} =>
        DayOf(call[r].to.read) + 1 >= DayOf(call[r].from.read)
StrandedBooked ==
    \A r \in stranded : call[r].pc \notin {"idle", "check", "insert"}
EditsPresent ==
    \A a \in Admins, r \in Requests \ edited : Edits(a, r) => Present(r)

RowInv ==
    /\ TypeOK
    /\ QuietBeforeInsert
    /\ RowStays
    /\ Snapshots
    /\ VerdictFollowsDates
StallInv == RowInv /\ BackoffAllowed /\ EventKept /\ CopyAhead
BookingInv == RowInv /\ SeenClear
RetryInv == RowInv /\ RetriesPaid
CopiesInv == RowInv /\ BackoffAllowed /\ OneDoubled /\ CopiesOwed
LedgerInv == RowInv /\ OrderedCalls /\ StrandedBooked /\ EditsPresent
=============================================================================
