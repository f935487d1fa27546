---------------------------- MODULE LeavePipeline ----------------------------
(***************************************************************************)
(* The life of a leave request: the HTTP handler that books it, the event  *)
(* it emits, the RabbitMQ queue that carries the event, the consumer that  *)
(* decides the request, the retries and the dead-letter queue, and the     *)
(* administrative PATCH and DELETE handlers that work on the same rows.    *)
(* Several instances of the application run all of these side by side.     *)
(*                                                                         *)
(* A handler is cut where the code awaits: one action is what runs between *)
(* two awaits, so every interleaving the event loops and the replicas can  *)
(* produce is a behaviour.                                                 *)
(***************************************************************************)
EXTENDS LeaveDates, SavedRows, FiniteSets

CONSTANTS
    Requests,       \* the leave requests clients may submit, one call each
    Employees,      \* the employees on file
    Owner,          \* the employee id each request is made for
    Dates,          \* the dates a POST may carry: [read, instant] records
    Times,          \* the instants a handler may record as processedAt
    Null,           \* the NULL of a column
    Instances,      \* the replicas, each an HTTP server and a consumer
    Handlers,       \* the message handlers that may be running
    Home,           \* the instance a handler runs on
    Prefetch,       \* RABBITMQ_PREFETCH_COUNT
    MaxAttempts,    \* executions a message is worth before it is parked
    Admins,         \* the administrative calls, one PATCH or DELETE each
    PatchDates,     \* the dates a PATCH may assign
    PatchStatuses,  \* the statuses a PATCH may assign
    MaxFaults       \* how many faults the environment may inject

Status == {"PENDING", "APPROVED", "REJECTED", "PENDING_APPROVAL"}

(* The days that a "date" column may come to hold.                         *)
Days == {DayOf(d.read) : d \in Dates \cup PatchDates}

(* What the two readers of a date make of a string differs by an offset of *)
(* the server's or of the database's zone: less than a day, between any two*)
(* strings.                                                                *)
ASSUME DatesAssumption ==
    /\ Dates \cup PatchDates \subseteq [read : Int, instant : Int]
    /\ \A c, d \in Dates : (c.read - c.instant) - (d.read - d.instant) < MinutesPerDay
ASSUME NullAssumption == Null \notin Times \cup Days
ASSUME HomeAssumption == Home \in [Handlers -> Instances]
ASSUME HandlersAssumption == IsFiniteSet(Handlers)
ASSUME CallsAssumption == IsFiniteSet(Requests) /\ IsFiniteSet(Admins)
ASSUME PrefetchAssumption == Prefetch \in Nat \ {0}
ASSUME AttemptsAssumption == MaxAttempts \in Nat \ {0}
ASSUME FaultsAssumption == MaxFaults \in Nat
ASSUME PatchAssumption == PatchStatuses \subseteq Status

VARIABLES
    row,        \* the leave_requests table: a row or Absent per request
    call,       \* POST /leave-requests, per request
    ready,      \* leave_requests_queue: copies of each event not delivered
    dlq,        \* leave_requests_dlq: copies of each event parked
    hnd,        \* the running message handlers
    adm,        \* PATCH and DELETE /leave-requests/:id in flight
    edited,     \* requests whose row an administrator wrote or deleted
    stranded,   \* requests whose event an outage swallowed
    seen,       \* the request's overlap query: the rows committed when it
                \* ran, and whether its start carried a time of day
    faults      \* faults injected so far

vars == <<row, call, ready, dlq, hnd, adm, edited, stranded, seen, faults>>

-----------------------------------------------------------------------------
(* Data.                                                                   *)

Row == [from : Days, to : Days, status : Status, processed : Times \cup {Null}]

(* An event is the payload's leaveRequestId and its x-retry-count header.  *)
Event == [req : Requests, retries : 0 .. MaxAttempts - 1]

NoCall == [pc |-> "idle"]
CallEnded == [pc |-> "ended"]
Idle == [pc |-> "idle"]
NoAdm == [pc |-> "idle"]
AdmDone == [pc |-> "done"]

(* Statuses the overlap query counts.                                      *)
Active == {"PENDING", "APPROVED", "PENDING_APPROVAL"}

Present(r) == row[r] # Absent
Busy(h) == hnd[h].pc # "idle"
Holds(h, e) == Busy(h) /\ hnd[h].held /\ hnd[h].event = e

(* Some copy of an event of r is queued, being handled, or parked.         *)
Queued(r) == \E e \in Event : e.req = r /\ ready[e] > 0
InHand(r) == \E e \in Event : e.req = r /\ \E h \in Handlers : Holds(h, e)
Parked(r) == \E e \in Event : e.req = r /\ dlq[e] > 0

(* The sum of the numbers f[x]: as many tokens <<x, n>> as f[x], for each x.*)
Tokens(f) == UNION {{x} \X (1 .. f[x]) : x \in DOMAIN f}
Total(f) == Cardinality(Tokens(f))

(* How many copies of the events of r the broker keeps, in its queues or   *)
(* unacked, and the handlers that have published a copy and not yet acked  *)
(* the original.                                                           *)
EventsOf(r) == {e \in Event : e.req = r}
Stored(r) == Total([e \in EventsOf(r) |-> ready[e] + dlq[e]])
Carriers(r) == {h \in Handlers : Busy(h) /\ hnd[h].held /\ hnd[h].event.req = r}
Copies(r) == Stored(r) + Cardinality(Carriers(r))
Doubled(r) == {h \in Handlers : hnd[h].pc = "republished" /\ hnd[h].held
                                 /\ hnd[h].event.req = r}

Put(q, e) == [q EXCEPT ![e] = @ + 1]
Take(q, e) == [q EXCEPT ![e] = @ - 1]

(* Every fault the environment injects is charged to one budget.           *)
Fault == faults < MaxFaults /\ faults' = faults + 1

-----------------------------------------------------------------------------
(* POST /leave-requests.                                                   *)

(* Seeded fault: the order of the two dates is not validated.              *)
SubmitUnordered(r, i, from, to) ==
    /\ call[r] = NoCall
    /\ call' = [call EXCEPT ![r] =
                   IF Owner[r] \in Employees
                   THEN [pc |-> "check", inst |-> i, from |-> from, to |-> to]
                   ELSE CallEnded]
    /\ UNCHANGED <<row, ready, dlq, hnd, adm, edited, stranded, seen, faults>>

(* An employee who is not on file is answered with a 404, an inverted range*)
(* with a 400, before the database is asked anything else.                 *)
Submit(r, i, from, to) ==
    /\ call[r] = NoCall
    /\ call' = [call EXCEPT ![r] =
                   IF Owner[r] \in Employees /\ IsEndDateAfterStartDate(from, to)
                   THEN [pc |-> "check", inst |-> i, from |-> from, to |-> to]
                   ELSE CallEnded]
    /\ UNCHANGED <<row, ready, dlq, hnd, adm, edited, stranded, seen, faults>>

(* Seeded fault: strict comparisons, so that a shared boundary day is free.*)
OverlappingStrictly(r) ==
    {q \in Requests : /\ Owner[q] = Owner[r]
                      /\ row[q].status \in Active
                      /\ Midnight(row[q].from) < call[r].to.read
                      /\ Midnight(row[q].to) > call[r].from.read}

(* The rows the overlap query returns for the dates of call r.             *)
Overlapping(r) ==
    {q \in Requests : /\ Owner[q] = Owner[r]
                      /\ row[q].status \in Active
                      /\ Finds(row[q], call[r].from, call[r].to)}

CheckOverlap(r) ==
    /\ call[r].pc = "check"
    /\ call' = [call EXCEPT ![r] = IF Overlapping(r) = {}
                                   THEN [@ EXCEPT !.pc = "insert"]
                                   ELSE CallEnded]
    /\ seen' = [seen EXCEPT ![r] = [rows |-> {q \in Requests : Present(q)},
                                    timed |-> Timed(call[r].from.read)]]
    /\ UNCHANGED <<row, ready, dlq, hnd, adm, edited, stranded, faults>>

(* The row a POST inserts: its columns keep the days of the two dates.     *)
Booked(from, to) == [from |-> DayOf(from.read), to |-> DayOf(to.read),
                     status |-> "PENDING", processed |-> Null]

Insert(r) ==
    /\ call[r].pc = "insert"
    /\ row' = [row EXCEPT ![r] = Booked(call[r].from, call[r].to)]
    /\ call' = [call EXCEPT ![r] = [pc |-> "emit", inst |-> call[r].inst]]
    /\ UNCHANGED <<ready, dlq, hnd, adm, edited, stranded, seen, faults>>

(* client.emit: the broker enqueues the event; the client's channel keeps  *)
(* it until the broker confirms, and publishes it again after a reconnect. *)
(* The caller has its 201 already: nothing waits for the outcome.          *)
Emit(r) ==
    /\ call[r].pc = "emit"
    /\ ready' = Put(ready, [req |-> r, retries |-> 0])
    /\ call' = [call EXCEPT ![r].pc = "confirm"]
    /\ UNCHANGED <<row, dlq, hnd, adm, edited, stranded, seen, faults>>

Confirm(r) ==
    /\ call[r].pc = "confirm"
    /\ call' = [call EXCEPT ![r] = CallEnded]
    /\ UNCHANGED <<row, ready, dlq, hnd, adm, edited, stranded, seen, faults>>

ProducerDrop(r) ==
    /\ call[r].pc = "confirm"
    /\ Fault
    /\ call' = [call EXCEPT ![r].pc = "emit"]
    /\ UNCHANGED <<row, ready, dlq, hnd, adm, edited, stranded, seen>>

(* A query of the handler fails: the client gets a 500, no row is written. *)
CallFails(r) ==
    /\ call[r].pc \in {"check", "insert"}
    /\ Fault
    /\ call' = [call EXCEPT ![r] = CallEnded]
    /\ UNCHANGED <<row, ready, dlq, hnd, adm, edited, stranded, seen>>

(* The row is committed but its event never leaves: the INSERT's reply was *)
(* lost, so emit is not reached, or the broker cannot be reached when emit *)
(* connects and the error goes to an observable nobody subscribed to.      *)
EmitLost(r) ==
    /\ call[r].pc = "emit"
    /\ Fault
    /\ call' = [call EXCEPT ![r] = CallEnded]
    /\ stranded' = stranded \cup {r}
    /\ UNCHANGED <<row, ready, dlq, hnd, adm, edited, seen>>

-----------------------------------------------------------------------------
(* The consumer: handleLeaveRequest, one handler h per message in hand.    *)

Unacked(i) == {h \in Handlers : Home[h] = i /\ Busy(h) /\ hnd[h].held}

(* The frames of one channel arrive in the order in which they were sent:  *)
(* an ack that follows a publish comes before what other handlers send.    *)
InOrder(h) ==
    hnd[h].held => \A g \in Unacked(Home[h]) : hnd[g].pc # "republished"

Deliver(h, e) ==
    /\ hnd[h] = Idle
    /\ ready[e] > 0
    /\ Cardinality(Unacked(Home[h])) < Prefetch
    /\ ready' = Take(ready, e)
    /\ hnd' = [hnd EXCEPT ![h] = [pc |-> "find", event |-> e, held |-> TRUE,
                                  entity |-> Absent, base |-> Absent]]
    /\ UNCHANGED <<row, call, dlq, adm, edited, stranded, seen, faults>>

(* await findOne                                                           *)
Find(h) ==
    /\ hnd[h].pc = "find"
    /\ hnd' = [hnd EXCEPT ![h] =
                  [@ EXCEPT !.pc = "found", !.entity = row[hnd[h].event.req]]]
    /\ UNCHANGED <<row, call, ready, dlq, adm, edited, stranded, seen, faults>>

(* channel.ack inside the try.  On a channel that has closed it throws, or *)
(* is written to a socket whose other end has gone and is never received.  *)
AckInTry(h) ==
    /\ InOrder(h)
    /\ \/ /\ hnd[h].held
          /\ hnd' = [hnd EXCEPT ![h] = Idle]
       \/ /\ ~hnd[h].held
          /\ \/ hnd' = [hnd EXCEPT ![h].pc = "caught"]
             \/ hnd' = [hnd EXCEPT ![h] = Idle]
    /\ UNCHANGED <<row, call, ready, dlq, adm, edited, stranded, seen, faults>>

(* No such request, or a request that is no longer PENDING: ack and return.*)
Skip(h) ==
    /\ hnd[h].pc = "found"
    /\ hnd[h].entity.status # "PENDING"
    /\ AckInTry(h)

(* Seeded fault: a status the enum does not have.                          *)
DecidedOffEnum(entity, now) ==
    [entity EXCEPT !.status = "PROCESSED", !.processed = now]

(* The verdict and the processing time are assigned to the entity that was *)
(* read; save then reloads the row to see which columns changed.           *)
Decided(entity, now) ==
    [entity EXCEPT !.status = Verdict(entity.from, entity.to),
                   !.processed = now]

(* Seeded fault: the message is acked before the save, not after it.       *)
DecideAfterAck(h) ==
    /\ hnd[h].pc = "found"
    /\ hnd[h].entity.status = "PENDING"
    /\ \E now \in Times :
          hnd' = [hnd EXCEPT ![h] =
                     [@ EXCEPT !.pc = "write",
                               !.held = FALSE,
                               !.base = row[hnd[h].event.req],
                               !.entity = Decided(hnd[h].entity, now)]]
    /\ UNCHANGED <<row, call, ready, dlq, adm, edited, stranded, seen, faults>>

(* Seeded fault: the verdict is that of the dates read first and last.     *)
DecideMixing(h) ==
    LET seenFirst == hnd[h].entity
        seenLast == row[hnd[h].event.req] IN
    /\ hnd[h].pc = "found"
    /\ seenFirst.status = "PENDING"
    /\ seenLast # Absent
    /\ \E now \in Times :
          hnd' = [hnd EXCEPT ![h] =
                     [@ EXCEPT !.pc = "write",
                               !.base = seenLast,
                               !.entity = [Decided(seenFirst, now) EXCEPT !.status =
                                             Verdict(seenFirst.from, seenLast.to)]]]
    /\ UNCHANGED <<row, call, ready, dlq, adm, edited, stranded, seen, faults>>

Decide(h) ==
    /\ hnd[h].pc = "found"
    /\ hnd[h].entity.status = "PENDING"
    /\ \E now \in Times :
          hnd' = [hnd EXCEPT ![h] =
                     [@ EXCEPT !.pc = "write",
                               !.base = row[hnd[h].event.req],
                               !.entity = Decided(hnd[h].entity, now)]]
    /\ UNCHANGED <<row, call, ready, dlq, adm, edited, stranded, seen, faults>>

(* The statement of save; an INSERT fails on a row that is there again.    *)
Write(h) ==
    LET r == hnd[h].event.req IN
    /\ hnd[h].pc = "write"
    /\ IF Conflict(row[r], hnd[h].base)
       THEN /\ hnd' = [hnd EXCEPT ![h].pc = "caught"]
            /\ UNCHANGED row
       ELSE /\ hnd' = [hnd EXCEPT ![h].pc = "saved"]
            /\ row' = [row EXCEPT ![r] =
                          Saved(@, hnd[h].base, hnd[h].entity)]
    /\ UNCHANGED <<call, ready, dlq, adm, edited, stranded, seen, faults>>

AckSaved(h) ==
    /\ hnd[h].pc = "saved"
    /\ AckInTry(h)

(* findOne or save rejects: at the SELECT, at the reload, at the statement *)
(* or, once it has been committed, because its reply is lost.              *)
DbFails(h) ==
    /\ \/ hnd[h].pc \in {"find", "write", "saved"}
       \/ hnd[h].pc = "found" /\ hnd[h].entity.status = "PENDING"
    /\ Fault
    /\ hnd' = [hnd EXCEPT ![h].pc = "caught"]
    /\ UNCHANGED <<row, call, ready, dlq, adm, edited, stranded, seen>>

(* Seeded fault: one retry less.                                           *)
ShouldRetryOnceLess(attempt) == attempt < MaxAttempts - 1

(* ExponentialBackoffRetryStrategy.shouldRetry                             *)
ShouldRetry(attempt) == attempt < MaxAttempts

(* Seeded fault: the catch block sets the row back to PENDING, so that the *)
(* retry passes the idempotency check.                                     *)
CatchReopens(h) ==
    LET r == hnd[h].event.req IN
    /\ hnd[h].pc = "caught"
    /\ IF ShouldRetry(hnd[h].event.retries + 1)
       THEN /\ hnd' = [hnd EXCEPT ![h].pc = "backoff"]
            /\ UNCHANGED dlq
       ELSE /\ InOrder(h)
            /\ hnd' = [hnd EXCEPT ![h] = Idle]
            /\ dlq' = IF hnd[h].held THEN Put(dlq, hnd[h].event) ELSE dlq
    /\ row' = IF Present(r) THEN [row EXCEPT ![r].status = "PENDING"] ELSE row
    /\ UNCHANGED <<call, ready, adm, edited, stranded, seen, faults>>

(* The catch block: back off, or nack without requeue, which the queue's   *)
(* dead-letter exchange routes to the DLQ.  On a closed channel the nack   *)
(* fails and the handler ends with nothing changed at the broker.          *)
Catch(h) ==
    /\ hnd[h].pc = "caught"
    /\ IF ShouldRetry(hnd[h].event.retries + 1)
       THEN /\ hnd' = [hnd EXCEPT ![h].pc = "backoff"]
            /\ UNCHANGED dlq
       ELSE /\ InOrder(h)
            /\ hnd' = [hnd EXCEPT ![h] = Idle]
            /\ dlq' = IF hnd[h].held THEN Put(dlq, hnd[h].event) ELSE dlq
    /\ UNCHANGED <<row, call, ready, adm, edited, stranded, seen, faults>>

(* Seeded faults: the original goes back to the queue beside its copy; no  *)
(* copy is published; the original is never acked.                         *)
RepublishAndRequeue(h) ==
    /\ hnd[h].pc = "backoff"
    /\ InOrder(h)
    /\ ready' = IF hnd[h].held
                THEN Put(Put(ready, hnd[h].event),
                         [hnd[h].event EXCEPT !.retries = @ + 1])
                ELSE ready
    /\ hnd' = [hnd EXCEPT ![h] = Idle]
    /\ UNCHANGED <<row, call, dlq, adm, edited, stranded, seen, faults>>
RepublishNothing(h) ==
    /\ hnd[h].pc = "backoff"
    /\ InOrder(h)
    /\ hnd' = [hnd EXCEPT ![h].pc = "republished"]
    /\ UNCHANGED <<row, call, ready, dlq, adm, edited, stranded, seen, faults>>
RepublishUncounted(h) ==
    /\ hnd[h].pc = "backoff"
    /\ InOrder(h)
    /\ IF hnd[h].held
       THEN /\ ready' = Put(ready, hnd[h].event)
            /\ hnd' = [hnd EXCEPT ![h].pc = "republished"]
       ELSE /\ hnd' = [hnd EXCEPT ![h] = Idle]
            /\ UNCHANGED ready
    /\ UNCHANGED <<row, call, dlq, adm, edited, stranded, seen, faults>>
AckRetriedForgotten(h) == hnd[h].pc = "republished" /\ UNCHANGED vars

(* After the delay a copy with the next x-retry-count is published, then   *)
(* the original is acked: two frames, and the channel may close between    *)
(* them.  On a channel that has closed already the publish throws.         *)
Republish(h) ==
    /\ hnd[h].pc = "backoff"
    /\ InOrder(h)
    /\ IF hnd[h].held
       THEN /\ ready' = Put(ready, [hnd[h].event EXCEPT !.retries = @ + 1])
            /\ hnd' = [hnd EXCEPT ![h].pc = "republished"]
       ELSE /\ hnd' = [hnd EXCEPT ![h] = Idle]
            /\ UNCHANGED ready
    /\ UNCHANGED <<row, call, dlq, adm, edited, stranded, seen, faults>>

AckRetried(h) ==
    /\ hnd[h].pc = "republished"
    /\ hnd' = [hnd EXCEPT ![h] = Idle]
    /\ UNCHANGED <<row, call, ready, dlq, adm, edited, stranded, seen, faults>>

-----------------------------------------------------------------------------
(* PATCH and DELETE /leave-requests/:id.                                   *)

(* What a PATCH makes of a date column: [day, timed] records.  A field the *)
(* body leaves out keeps the value that was read; a string with a time of  *)
(* day ends up as its day, but never equals the column it is compared with.*)
Assigned(day) ==
    {[day |-> day, timed |-> FALSE]} \cup
    {[day |-> DayOf(d.read), timed |-> Timed(d.read)] : d \in PatchDates}

(* The columns of a reloaded row as save compares them with the entity.    *)
Compared(x, timed) ==
    IF x = Absent THEN Absent
    ELSE [c \in DOMAIN x |-> IF c \in timed THEN Null ELSE x[c]]

(* findOne, then Object.assign.                                            *)
Patching(r, i, from, to, status) ==
    [pc |-> "loaded", req |-> r, inst |-> i, base |-> Absent,
     timed |-> {c \in {"from", "to"} :
                   IF c = "from" THEN from.timed ELSE to.timed},
     entity |-> [row[r] EXCEPT !.from = from.day, !.to = to.day,
                               !.status = status]]

UpdateFind(a, r, i) ==
    /\ adm[a] = NoAdm
    /\ IF row[r] = Absent
       THEN adm' = [adm EXCEPT ![a] = AdmDone]
       ELSE \E from \in Assigned(row[r].from), to \in Assigned(row[r].to),
               status \in {row[r].status} \cup PatchStatuses :
                adm' = [adm EXCEPT ![a] = Patching(r, i, from, to, status)]
    /\ UNCHANGED <<row, call, ready, dlq, hnd, edited, stranded, seen, faults>>

UpdateReload(a) ==
    /\ adm[a].pc = "loaded"
    /\ adm' = [adm EXCEPT ![a] =
                  [@ EXCEPT !.pc = "write",
                            !.base = Compared(row[adm[a].req], adm[a].timed)]]
    /\ UNCHANGED <<row, call, ready, dlq, hnd, edited, stranded, seen, faults>>

UpdateWrite(a) ==
    LET r == adm[a].req IN
    /\ adm[a].pc = "write"
    /\ adm' = [adm EXCEPT ![a] = AdmDone]
    /\ IF Conflict(row[r], adm[a].base)
       THEN UNCHANGED <<row, edited>>
       ELSE /\ row' = [row EXCEPT ![r] =
                          Saved(@, adm[a].base, adm[a].entity)]
            /\ edited' = edited \cup {r}
    /\ UNCHANGED <<call, ready, dlq, hnd, stranded, seen, faults>>

RemoveFind(a, r, i) ==
    /\ adm[a] = NoAdm
    /\ adm' = [adm EXCEPT ![a] = IF row[r] = Absent THEN AdmDone
                                 ELSE [pc |-> "remove", req |-> r, inst |-> i,
                                       base |-> Absent, timed |-> {},
                                       entity |-> row[r]]]
    /\ UNCHANGED <<row, call, ready, dlq, hnd, edited, stranded, seen, faults>>

RemoveDelete(a) ==
    /\ adm[a].pc = "remove"
    /\ adm' = [adm EXCEPT ![a] = AdmDone]
    /\ row' = [row EXCEPT ![adm[a].req] = Absent]
    /\ edited' = edited \cup {adm[a].req}
    /\ UNCHANGED <<call, ready, dlq, hnd, stranded, seen, faults>>

(* A query of the call fails before its statement takes effect: a 500.     *)
AdmFails(a) ==
    /\ adm[a].pc \in {"loaded", "write", "remove"}
    /\ Fault
    /\ adm' = [adm EXCEPT ![a] = AdmDone]
    /\ UNCHANGED <<row, call, ready, dlq, hnd, edited, stranded, seen>>

-----------------------------------------------------------------------------
(* The environment.                                                        *)

(* What the broker puts back when it loses the consumer of instance i.     *)
Requeued(i) ==
    [e \in Event |->
        ready[e] + Cardinality({h \in Unacked(i) : hnd[h].event = e})]

(* The consumer's connection of instance i drops.  Its handlers run on,    *)
(* with a channel that has closed; a new channel takes deliveries.         *)
Drop(i) ==
    /\ Unacked(i) # {}
    /\ Fault
    /\ ready' = Requeued(i)
    /\ hnd' = [h \in Handlers |-> IF h \in Unacked(i)
                                  THEN [hnd[h] EXCEPT !.held = FALSE]
                                  ELSE hnd[h]]
    /\ UNCHANGED <<row, call, dlq, adm, edited, stranded, seen>>

CallsOf(i) ==
    {r \in Requests : call[r].pc \in {"check", "insert", "emit", "confirm"}
                      /\ call[r].inst = i}
AdmsOf(i) ==
    {a \in Admins : adm[a].pc \in {"loaded", "write", "remove"}
                    /\ adm[a].inst = i}

(* Instance i dies and is restarted: whatever it was doing is forgotten.   *)
Crash(i) ==
    /\ Fault
    /\ ready' = Requeued(i)
    /\ hnd' = [h \in Handlers |-> IF Home[h] = i THEN Idle ELSE hnd[h]]
    /\ call' = [r \in Requests |-> IF r \in CallsOf(i)
                                   THEN CallEnded ELSE call[r]]
    /\ adm' = [a \in Admins |-> IF a \in AdmsOf(i) THEN AdmDone ELSE adm[a]]
    /\ stranded' = stranded \cup {r \in CallsOf(i) : call[r].pc = "emit"}
    /\ UNCHANGED <<row, dlq, edited, seen>>

(* The broker restarts.  The queues are durable, their messages are not;   *)
(* every connection drops, and unconfirmed events are published again.     *)
BrokerRestart ==
    /\ Fault
    /\ ready' = [e \in Event |-> 0]
    /\ dlq' = [e \in Event |-> 0]
    /\ hnd' = [h \in Handlers |-> IF Busy(h)
                                  THEN [hnd[h] EXCEPT !.held = FALSE]
                                  ELSE hnd[h]]
    /\ call' = [r \in Requests |-> IF call[r].pc = "confirm"
                                   THEN [call[r] EXCEPT !.pc = "emit"]
                                   ELSE call[r]]
    /\ stranded' = stranded \cup
                     {r \in Requests : Queued(r) \/ InHand(r) \/ Parked(r)}
    /\ UNCHANGED <<row, adm, edited, seen>>

-----------------------------------------------------------------------------

Init ==
    /\ row = [r \in Requests |-> Absent]
    /\ call = [r \in Requests |-> NoCall]
    /\ ready = [e \in Event |-> 0]
    /\ dlq = [e \in Event |-> 0]
    /\ hnd = [h \in Handlers |-> Idle]
    /\ adm = [a \in Admins |-> NoAdm]
    /\ edited = {}
    /\ stranded = {}
    /\ seen = [r \in Requests |-> [rows |-> {}, timed |-> FALSE]]
    /\ faults = 0

(* What an instance does of its own accord once a call has reached it.     *)
CallStep(r) == CheckOverlap(r) \/ Insert(r) \/ Emit(r) \/ Confirm(r)
HandlerStep(h) ==
    \/ Find(h) \/ Skip(h) \/ Decide(h) \/ Write(h) \/ AckSaved(h)
    \/ Catch(h) \/ Republish(h) \/ AckRetried(h)
AdmStep(a) == UpdateReload(a) \/ UpdateWrite(a) \/ RemoveDelete(a)
Delivery(h) == \E e \in Event : Deliver(h, e)

Environment ==
    \/ \E r \in Requests : ProducerDrop(r) \/ CallFails(r) \/ EmitLost(r)
    \/ \E h \in Handlers : DbFails(h)
    \/ \E a \in Admins : AdmFails(a)
    \/ \E i \in Instances : Drop(i) \/ Crash(i)
    \/ BrokerRestart

Next ==
    \/ \E r \in Requests, i \in Instances, from \in Dates, to \in Dates :
            Submit(r, i, from, to)
    \/ \E r \in Requests : CallStep(r)
    \/ \E h \in Handlers : Delivery(h) \/ HandlerStep(h)
    \/ \E a \in Admins, r \in Requests, i \in Instances :
            UpdateFind(a, r, i) \/ RemoveFind(a, r, i)
    \/ \E a \in Admins : AdmStep(a)
    \/ Environment

Spec == Init /\ [][Next]_vars

(* Nothing obliges a client to call.  Within a call or a handler every     *)
(* await is answered, a result or an error; the broker delivers what is    *)
(* ready to a consumer with room for it.                                   *)
Fairness ==
    /\ \A r \in Requests : WF_vars(CallStep(r))
    /\ \A h \in Handlers : WF_vars(HandlerStep(h)) /\ WF_vars(Delivery(h))
    /\ \A a \in Admins : WF_vars(AdmStep(a))

FairSpec == Spec /\ Fairness

-----------------------------------------------------------------------------
(* How many steps the instances can still take of their own accord.        *)

(* Ahead of a copy lie at most seven steps of a handler besides its own    *)
(* delivery, and then the retries that the catch block may publish.        *)
Ahead(retries) == 8 * (MaxAttempts - retries)

ToGo(pc) ==
    CASE pc = "find" -> 7 [] pc = "found" -> 6 [] pc = "write" -> 5
      [] pc = "saved" -> 4 [] pc = "caught" -> 3 [] pc = "backoff" -> 2
      [] pc = "republished" -> 1 [] OTHER -> 0

(* A handler that has published its copy leaves the rest to it.            *)
HandlerWork(h) ==
    IF ~Busy(h) THEN 0
    ELSE IF hnd[h].pc = "republished" THEN 1
    ELSE ToGo(hnd[h].pc) + Ahead(hnd[h].event.retries + 1)

CallWork(r) ==
    CASE call[r].pc = "check" -> Ahead(0) + 4
      [] call[r].pc = "insert" -> Ahead(0) + 3
      [] call[r].pc = "emit" -> Ahead(0) + 2
      [] call[r].pc = "confirm" -> 1
      [] OTHER -> 0

AdmWork(a) ==
    CASE adm[a].pc = "loaded" -> 2
      [] adm[a].pc \in {"write", "remove"} -> 1
      [] OTHER -> 0

QueuedWork == Total([e \in Event |-> ready[e] * Ahead(e.retries)])
HandlersWork == Total([h \in Handlers |-> HandlerWork(h)])
CallsWork == Total([r \in Requests |-> CallWork(r)])
AdmsWork == Total([a \in Admins |-> AdmWork(a)])
Work == QueuedWork + HandlersWork + CallsWork + AdmsWork

-----------------------------------------------------------------------------
(* Properties.                                                             *)

Call == {NoCall, CallEnded} \cup
        [pc : {"check", "insert"}, inst : Instances, from : Dates, to : Dates]
        \cup [pc : {"emit", "confirm"}, inst : Instances]
Handler == {Idle} \cup
           [pc : {"find", "found", "write", "saved", "caught", "backoff",
                  "republished"},
            event : Event, held : BOOLEAN,
            entity : Row \cup {Absent}, base : Row \cup {Absent}]
Reloaded == [from : Days \cup {Null}, to : Days \cup {Null}, status : Status,
             processed : Times \cup {Null}]
AdmCall == {NoAdm, AdmDone} \cup
           [pc : {"loaded", "write", "remove"}, req : Requests,
            inst : Instances, entity : Row, timed : SUBSET {"from", "to"},
            base : Reloaded \cup {Absent}]

(* Every variable holds a value of its type, and a handler that writes has *)
(* an entity to write.                                                     *)
TypeOK ==
    /\ row \in [Requests -> Row \cup {Absent}]
    /\ call \in [Requests -> Call]
    /\ ready \in [Event -> Nat]
    /\ dlq \in [Event -> Nat]
    /\ hnd \in [Handlers -> Handler]
    /\ \A h \in Handlers : hnd[h].pc = "write" => hnd[h].entity \in Row
    /\ adm \in [Admins -> AdmCall]
    /\ edited \subseteq Requests
    /\ stranded \subseteq Requests
    /\ seen \in [Requests -> [rows : SUBSET Requests, timed : BOOLEAN]]
    /\ faults \in Nat

(* A request that is still PENDING has somebody left to decide it: its     *)
(* event is about to be published, queued, in a consumer's hands, or       *)
(* parked where an operator can see it.  Only an outage that swallowed the *)
(* event, or an administrator who wrote the row, excuses it.  This is what *)
(* the order "save, then ack" and "publish the copy, then ack" of the      *)
(* consumer is for.                                                        *)
NoSilentStall ==
    \A r \in Requests \ (edited \cup stranded) :
        row[r].status = "PENDING" =>
            call[r].pc = "emit" \/ Queued(r) \/ InHand(r) \/ Parked(r)

(* However many handlers worked on it, however often its event was         *)
(* redelivered, a row no administrator wrote is PENDING and unprocessed, or*)
(* carries the verdict of its own dates together with a processing time.   *)
VerdictFollowsDates ==
    \A r \in Requests \ edited : Present(r) =>
        \/ row[r].status = "PENDING" /\ row[r].processed = Null
        \/ /\ row[r].status = Verdict(row[r].from, row[r].to)
           /\ row[r].processed # Null

(* The overlap query of r ran before q was committed; or it saw q, but r's *)
(* start carried a time of day and q ends on that very day, which the query*)
(* then takes to be over.                                                  *)
MissedBy(r, q) ==
    \/ q \notin seen[r].rows
    \/ seen[r].timed /\ row[q].to = row[r].from

(* Two live requests of one employee overlap only when each was missed by  *)
(* the overlap query of the other: nothing else books a day twice, as long *)
(* as no administrator moves a request.                                    *)
OverlapOnlyByRace ==
    \A r, q \in Requests \ edited :
        /\ r # q
        /\ Owner[r] = Owner[q]
        /\ row[r].status \in Active
        /\ row[q].status \in Active
        /\ Overlaps(row[r], row[q])
        => MissedBy(r, q) /\ MissedBy(q, r)

(* The DLQ holds only events that failed as often as the retry strategy    *)
(* allows, each time for a fault of its own: a handler that is merely slow,*)
(* late or redelivered never parks a request.  (A row that administrators  *)
(* delete and write back under a handler makes its INSERT fail as well.)   *)
DeadLetterEarned ==
    \A e \in Event : dlq[e] > 0 /\ e.req \notin edited =>
        e.retries + 1 = MaxAttempts /\ faults >= MaxAttempts

(* A failed attempt costs a retry and never a second message: the copies of*)
(* an event beyond the first, and the retries any one of them has seen, are*)
(* owed to faults of their own.  A copy whose original is about to be acked*)
(* does not count.                                                         *)
CopiesBounded ==
    \A e \in Event :
        /\ e.req \notin edited
        /\ ready[e] + dlq[e] > 0 \/ \E h \in Handlers : Holds(h, e)
        => Copies(e.req) + e.retries
             <= 1 + faults + Cardinality(Doubled(e.req))

(* Nothing goes round in circles: every step an instance or the broker     *)
(* takes of its own accord uses up some of the work that is left, so that  *)
(* between two calls or faults only so many of them can follow.  A retry   *)
(* shortens the way of the request it retries.                             *)
WorkShrinks ==
    [][(\E r \in Requests : CallStep(r))
          \/ (\E h \in Handlers : Delivery(h) \/ HandlerStep(h))
          \/ (\E a \in Admins : AdmStep(a))
       => Work' < Work]_vars

(* When the work has run out, every request is settled: no call that ends, *)
(* no ack and no lost channel stops the pipeline with a request that is    *)
(* PENDING, unless its attempts have failed for faults of their own or an  *)
(* outage took its event.                                                  *)
RestIsSettled ==
    Work = 0 =>
        \A r \in Requests \ edited :
            row[r].status = "PENDING" =>
                \/ Parked(r) /\ faults >= MaxAttempts
                \/ r \in stranded /\ faults > 0

(* Once decided, a row keeps its dates and its verdict until an            *)
(* administrator writes it, whatever late deliveries, retries and handlers *)
(* that lost their channel do.  The processing time they may overwrite, but*)
(* only with another one, and only after a fault: a request whose event was*)
(* never retried or redelivered keeps the time of its decision as well.    *)
DecisionIsFinal ==
    [][\A r \in Requests \ edited' :
          Present(r) /\ row[r].status # "PENDING" /\ row'[r] # row[r] =>
              /\ \E now \in Times : row'[r] = [row[r] EXCEPT !.processed = now]
              /\ faults > 0]_vars

(* Every booked request is decided in the end, or an operator finds it in  *)
(* the DLQ, or an outage swallowed its event.                              *)
EventuallySettled ==
    \A r \in Requests :
        row[r].status = "PENDING" ~>
            row[r].status # "PENDING" \/ Parked(r) \/ r \in stranded

(* Deliveries come to an end: no event circulates for ever between the     *)
(* queue and the handlers.                                                 *)
QueueDrains ==
    <>[](\A e \in Event : ready[e] = 0 /\ \A h \in Handlers : ~Holds(h, e))

(* The pipeline implements the abstract life of a request: whatever the    *)
(* handlers, replicas and queues do, each request moves by the rules of    *)
(* LeaveLedger until an administrator takes it over.                       *)
Entry(r) ==
    IF r \in edited THEN [stage |-> "theirs"]
    ELSE IF ~Present(r) THEN [stage |-> "unbooked"]
    ELSE IF row[r].status # "PENDING"
    THEN [stage |-> "decided", from |-> row[r].from, to |-> row[r].to,
          status |-> row[r].status]
    ELSE [stage |-> IF r \in stranded THEN "lost"
                    ELSE IF Parked(r) THEN "parked" ELSE "booked",
          from |-> row[r].from, to |-> row[r].to]

Ledger == INSTANCE LeaveLedger WITH ledger <- [r \in Requests |-> Entry(r)]
LedgerSpec == Ledger!Spec

-----------------------------------------------------------------------------
(* What the repository says of this code and the code does not do: each of *)
(* the following is refuted by a run.                                      *)

(* leave-request.consumer.ts:34, "Idempotency check: if already processed  *)
(* (not PENDING), skip", and README.md:13, "Idempotency: Prevents duplicate*)
(* processing of the same request": no verdict is written over the status  *)
(* that somebody else, another handler or a manager, has settled.          *)
OnlyPendingIsDecided ==
    [][\A h \in Handlers :
          hnd[h].pc = "write" /\ hnd'[h].pc = "saved"
              /\ Present(hnd[h].event.req)
          => row[hnd[h].event.req].status = "PENDING"]_vars

(* leave-request.service.ts:39 and 61, "Check for overlapping leave        *)
(* requests", "You already have a leave request during this period": two   *)
(* live requests of one employee never share a day.                        *)
NoDoubleBooking ==
    \A r, q \in Requests :
        /\ r # q
        /\ Owner[r] = Owner[q]
        /\ row[r].status \in Active
        /\ row[q].status \in Active
        => ~Overlaps(row[r], row[q])

(* README.md:129, "The status will update to APPROVED (if <= 2 days) or    *)
(* PENDING_APPROVAL asynchronously via the worker": a booked request does  *)
(* not stay PENDING for ever.                                              *)
EventuallyDecided ==
    \A r \in Requests : row[r].status = "PENDING" ~> row[r].status # "PENDING"

(* leave-request.controller.ts:65, "Leave request deleted successfully": a *)
(* row that has been deleted does not come back.                           *)
DeletedStaysDeleted ==
    [][\A r \in edited : row[r] = Absent => row'[r] = Absent]_vars
=============================================================================
