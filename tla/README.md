# Workforce API: a TLA+ verification project

The repository is a NestJS backend (MySQL, RabbitMQ, Redis) that runs as
several identical replicas. Each replica serves HTTP and consumes the leave
request queue. This directory models what the replicas do to the shared state
(tables, queues, cache), checks it with TLC on small instances and proves the
most important parts with TLAPS for instances of any size. Paths below are
relative to the repository.

## 1. Inventory

| Component | State it keeps | Operations | Talks to | Module |
|---|---|---|---|---|
| Leave request service (`src/modules/leave-request`) | `leave_requests` rows | create, update, remove; findAll and findOne read | MySQL; emits `leave.requested` | `LeavePipeline`, `LeaveDates`, `LeaveLedger`, `LeaveHistory` |
| Leave request consumer (`src/queue/consumers`) | rows; the message in hand; `x-retry-count` | handleLeaveRequest | RabbitMQ delivers; MySQL | `LeavePipeline` |
| Retry strategies (`src/common/strategies/retry`) | none | shouldRetry, getDelay | the consumer | `LeavePipeline` (shouldRetry) |
| Queue client and topology (`src/queue`) | main queue, DLX, DLQ, binding | setupQueueTopology, emit | RabbitMQ | `QueueBoot`, `LeavePipeline` |
| Bootstrap (`src/main.ts`, `src/app.module.ts`) | where a replica is in its boot | bootstrap | all of them | `QueueBoot` |
| List endpoints (`common/dto/pagination.dto.ts`, `common/utils`, the controllers) | none; a client's walk spans requests | the four findAll | MySQL | `PagedList` |
| Employee reads (`employee.service.ts`, `common/cache`) | Redis key `employee:{id}` | findOne; the `del` of update and remove | MySQL, Redis | `EmployeeCache` |
| Employee directory (`employee.service.ts`) | `employees` rows | create, update, remove | MySQL | `OrgDirectory` |
| Department directory (`department.service.ts`) | `departments` rows | create, update, remove | MySQL | `OrgDirectory` |
| Schema (`src/database`) | unique indexes, foreign keys | migrations | | `OrgTables`, `SavedRows` |
| Authentication, guards (`modules/auth`, `common/guards`) | none | login reads a row, signs a token | MySQL | not modelled |
| Health check (`src/health`) | none | check | three clients | not modelled |
| Envelope, filters, interceptors, configuration | none | formatting | | not modelled |

How they interact: the HTTP handler of a leave request inserts a PENDING row
and emits an event whose outcome nobody awaits; RabbitMQ hands the event to a
handler in some replica, which decides the row and acks. PATCH and DELETE work
on the same rows without taking part in that protocol. The employee service
keeps copies of rows (and of the leave history the pipeline changes) in Redis.
Employees refer to departments and leave requests to employees; the services
check those references before they write and MySQL checks them again.

What is hard: every handler is a chain of `await`s between which all others
run, in the same process and in other replicas; nothing runs in a transaction
that spans two statements; an entity is read at one await and saved at a later
one; an ack may be written to a channel that has closed; a reply can be lost
after its statement was committed; the broker redelivers. `PROJECT.json` lists
the hazards line by line under `hazards`.

What makes each component correct:

- *Pipeline*: no booked request is forgotten; it gets the verdict its dates
  call for however often it is delivered; a verdict stays; only a request that
  failed every attempt is parked; retries neither multiply nor circulate for
  ever; days are booked once, as far as the check can see to it.
- *Boot*: nobody consumes before dead letters have somewhere to go; every
  replica gets to serve.
- *Lists*: what a walk through the pages misses or repeats is paid for by rows
  that left or joined meanwhile.
- *Cache*: a copy that lags behind its row has a known cause; whoever has been
  told that a write is done is shown it.
- *Directory*: references and keys survive every interleaving, and the checks
  that run early cover what the statements need that run late.

## 2. Modules

| Module | What it is |
|---|---|
| `SavedRows` | TypeORM's `save` on one row: reload, write the columns that differ, INSERT when the reload found nothing. Shared by the others. |
| `LeaveDates` | Days and times of day, duration, verdict, overlap query and the date validators, as operators. |
| `LeavePipeline` | The leave request from POST to verdict, retries, DLQ, PATCH and DELETE. |
| `LeaveLedger` | The abstract life of a request; `LeavePipeline` implements it. |
| `LeaveHistory` | `LeavePipeline` with a memory of the days each row has claimed and the statuses administrators gave it, for what holds of rows administrators edit. |
| `LeavePipelineInv` | The parts of the inductive invariants of the pipeline. |
| `PagedList` | A client walking the pages of a list that changes under it. |
| `QueueBoot` | The boot of several replicas against one broker. |
| `EmployeeCache` | The cache-aside employee record. |
| `OrgTables` | The three tables with their constraints. |
| `OrgDirectory` | The employee and department services. |
| `MC...` | Small instances for TLC. |
| `...Proofs` | Theorems about the module of that name. |

Definitions named after a "Seeded fault" comment are variants of a definition
that a plausible mistake in the code would produce. No specification uses
them; `PROJECT.json` (`mutants`) says which property each one breaks.

### LeavePipeline and the code

One action is what runs between two awaits.

| Variable | In the code |
|---|---|
| `row` | `leave_requests`: days, status, `processedAt` (an instant of `Times`, or `Null`) |
| `call` | a POST: the overlap query, the INSERT, `emit`, the broker's confirm of it |
| `ready`, `dlq` | undelivered copies in `leave_requests_queue` and `leave_requests_dlq`, per event and retry count |
| `hnd` | a running `handleLeaveRequest`: its message, whether its channel still stands (`held`), the entity it read, the row save reloaded |
| `adm` | a PATCH or DELETE between its awaits |
| `edited`, `stranded`, `seen`, `faults` | history: rows administrators wrote, events an outage took, the overlap query of each call (the rows on file then, and whether its start carried a time of day), faults so far |

POST: `Submit` (validator, employee lookup), `CheckOverlap`, `Insert`, `Emit`,
`Confirm`. Worker: `Deliver`, `Find`, then `Skip` (row missing or not PENDING)
or `Decide` (verdict, and the reload of save), `Write` (its statement),
`AckSaved`; on an error `Catch`, then `Republish` and `AckRetried`, or the nack
that parks the message. PATCH: `UpdateFind`, `UpdateReload`, `UpdateWrite`.
DELETE: `RemoveFind`, `RemoveDelete`.

A date of a POST or PATCH is an ISO string, which `@IsDateString` admits with a
time of day and a zone (create-leave-request.dto.ts 47, 52). Two readers take it
differently, so a date is a record: `instant` is what `new Date()` makes of it,
for the order check of `Submit` (service.ts 32-35); `read` is the date and time
that MySQL reads. The overlap query (service.ts 50-56) gets the strings as they
are and compares them with DATE columns, which count as the midnight their day
begins with (`Finds`); the INSERT keeps the day alone (`Booked`). A PATCH
assigns the string itself to the entity: its day ends up in the column, but a
string with a time of day never equals the reloaded column, so that `save`
always writes it (`Assigned`, `timed`, `Compared`).

`Decide` assigns `new Date()` to `processedAt` on every processing: any member
of `Times`, so that a second handler may write the time of the first or another
one.

Faults: a query rejects before or after its statement took effect (`DbFails`,
`CallFails`, `AdmFails`), `emit` fails (`EmitLost`), the producer's connection
drops and the client publishes again (`ProducerDrop`), a consumer's connection
drops while its handlers run on (`Drop`), a replica dies (`Crash`), the broker
restarts (`BrokerRestart`; queues are durable, messages are not marked
persistent, neither by the client nor by the consumer's `publish`).

A handler that outlives its channel keeps running with `held = FALSE`. What it
does to the broker then is modelled by what amqplib does on a closed channel:
it throws, or the frame is lost with the socket; inside the `try` a throwing
ack leads to the catch block although the row has been saved.

`Republish` and `AckRetried` are the two frames of one synchronous stretch of
the catch block (consumer.ts 79-85): the channel may close between them, but
on a channel that stands the broker reads the ack before any later frame.
`InOrder` says so: while a handler has published its copy and its ack is on
the way, no other handler of the same replica publishes. It matters once the
prefetch lets two handlers share a channel. Without it two handlers could both
be between their frames when the channel closes, and each would leave two
copies for one fault, which the code cannot do.

`Work` counts the steps that the instances and the broker can still take of
their own accord: eight for each delivery that a queued copy may still see (its
own and at most seven of the handler), what is left of each handler, POST,
PATCH and DELETE. It serves two properties: `WorkShrinks` says that each such
step lessens it, `RestIsSettled` what must hold when it is zero.

### LeaveLedger and LeaveHistory

`LeaveLedger` knows neither queue nor handler: a request is unbooked, booked,
parked, lost or decided, with its dates, or in an administrator's hands
("theirs"). `Book` needs days in order, short of the one day by which a zone
west of Greenwich can invert them (section 4), `Settle` gives the verdict of
the dates booked, and nothing leaves "decided" but an administrator. The
refinement is `Entry` of `LeavePipeline`: the stage is read off `row`,
`edited`, `stranded` and the parked copies. `LedgerSpec` then says that a
decision never moves, that no request is booked twice, and that dates never
change between booking and verdict, whatever is delivered twice or late. A
broker restart may move several requests in one step, hence the conjunction
over requests in `Next`.

The ledger says nothing of edited rows, and the code has few rules for them.
`LeaveHistory` adds `had`, the live claims and the surrender of claims each row
has gone through, and `given`, the statuses that PATCHes have assigned to it,
to state the two that it does keep: a status is never made up, nor carried over
from another row (`VerdictOfHeldDates`), and a PATCH that moves one request
does not undo the overlap check of the others (`OverlapOnlyByMoveOrRace`).

### QueueBoot and the code

`pc` follows `bootstrap` (`main.ts` 16-80): `Start`, `ConnectDatabase`
(`NestFactory.create` waits for MySQL; `DatabaseRefuses` is one of its failed
attempts, the last of which ends the process, `app.module.ts` 47), the four
commands of `setupQueueTopology` in their order, `Listen`
(`startAllMicroservices`, which asserts the main queue again on its own
connection), `Serve`. `broker` is what has been declared. A refused command
ends the process (`Quit`); a lost connection repeats the setup. `Init` allows a
broker that still has the main queue of the release before dead-lettering,
which the repository's README describes, together with the operator's fix
(`DeleteOldQueue`). `BrokerReplaced` is the compose file's broker, which has no
volume, being recreated. `Publish` is the client, which has a connection of its
own and asserts the queue on it, whether or not the replica's consumer is
linked.

### EmployeeCache and the code

A GET is `LookUp` (`redis.get`), `Load` (the row with its leave history),
`Store` (`redis.set`). A PATCH is `UpdateFind`, `UpdateDepartment` (the lookup
of the department, with its 404), `UpdateReload` and `UpdateWrite` (the two
halves of `save`) and `Invalidate` (`redis.del`); a DELETE is `RemoveFind`,
`RemoveDelete` and `Invalidate`. Every command may reject or take the process
with it (`LookUpFails`, `StoreFails`, `WriterFails`), and a `redis.set` whose
reply is lost is sent again after the reconnect (`StoreUnanswered`, any number
of times within the fault budget, then `Store` or `StoreFails`). The TTL is
`Expire`, at any moment. `excused` records employees whose copy was stored by a
GET a write had overtaken, or should have been deleted by a call that broke
off. `commits` numbers the statements committed on a row, a copy remembers the
number it was made after (`made`), and `acked` is the highest number whose
caller has its answer, which PATCH and DELETE send after their `del`.

### OrgDirectory and the code

A call is a program counter and the entity it carries; each lookup of the
services is an action, each statement another. Unique indexes and foreign keys
of the migrations make a statement fail (`Denied`, a 500), where the services'
own checks answer 404 or 409 (`Refused`); every other failure, or no answer, is
`Failed`. `Init` is any consistent content of the tables. `overtaken` remembers
which of the running calls have seen the tables change since they began.

`NoOrphans` and `UniqueKeys` rest on the constraints alone, which the services
cannot get round. `DeniedOnlyByRace` is about the services: their checks cover
the constraints, so that a call which had the tables to itself is never refused
by the database. A check left out or made too lenient breaks it. One exception
is the code's own: PATCH assigns an address and does not look it up
(employee.service.ts 100; `AddressTaken`).

### PagedList and the code

`walk` is a client's series of GETs on one endpoint: `Get...` sends the next
page, the `Find...` actions are the SELECT of `findAndCount`, `Answer` the
total and `hasNextPage`. Endpoints that join relations (`leave-requests` with
the employee, `employees` with the department) take two queries, ids first
(`SelectIds`), entities second (`LoadEntities`); the others take one
(`SelectPage`). The total is a COUNT at that moment, or, when the page is not
full, what TypeORM infers from the offset and the rows it got (`Totals` admits
both, as its releases differ). `Windows` allows every order MySQL may choose
among rows of one `createdAt`, because `createdAt DESC` is all the code asks
for. `Join` and `Leave` are what other clients commit. `robbed` marks a full
page from which a row was deleted between its two queries. `shown`, `again`,
`stayed`, `left` and `joins` are the client's memory and the count of changes.

## 3. Runs

| Run | Instance | What it shows |
|---|---|---|
| `pipeline_faults` | 1 request, 2 replicas, 3 handlers, prefetch 2, 3 attempts, 2 instants, 3 faults | types, `NoSilentStall`, `VerdictFollowsDates`, `DeadLetterEarned`, `CopiesBounded`, `DecisionIsFinal`, `LedgerSpec` |
| `pipeline_bookings` | 2 requests of one employee, 1 PATCH or DELETE, 1 fault; dates with and without a time of day | with an administrator at work: `OverlapOnlyByRace`, `OverlapOnlyByMoveOrRace`, `VerdictOfHeldDates`, `LedgerSpec` |
| `pipeline_settles` | 2 requests (one for nobody on file), 1 replica, 2 handlers, prefetch 1, 3 faults, fair | `EventuallySettled`, `QueueDrains`, `WorkShrinks`, `RestIsSettled` |
| `queue_boot` | 3 replicas, 1 message, 2 attempts to reach MySQL, 4 faults, fair | types, `DiscardNeedsReplacement`, `BootFailsForCause`, `EventuallyServing` |
| `employee_cache` | 1 employee, 2 GETs, 2 writers, 2 faults | types, `OutdatedOnlyByRace`, `AnsweredWritesShow` |
| `org_directory` | 2 departments, 2 employees, 1 leave request, 3 concurrent calls | types, `NoOrphans`, `UniqueKeys`, `DeniedOnlyByRace` |
| `paged_walk` | 6 rows of which 2 share a `createdAt`, pages of 2, 3 arrivals or departures, any endpoint | types and page bound, `MissesAreDepartures`, `RepeatsAreJoins` |
| five runs that end in a violation | minimal | section 4 |

The bounds, and why they are enough:

- *Requests*. Requests of different employees share nothing but the queue, and
  a message is handled by itself; overlap relates two. So one request is enough
  for faults and two for bookings.
- *Handlers*. Two handlers on one replica and one on another give the cases
  that matter: old and new delivery in one process, in two processes, and a
  third beside them. With prefetch 2 two handlers of a replica share a channel,
  or one of them has outlived it; with prefetch 1 (`pipeline_settles`) the
  second handler gets a message only once the first is done or has lost its
  channel: a handler in its backoff holds up all that is queued behind it.
- *MaxFaults*. Three is what exhausts three attempts, and lets a behaviour
  combine a drop, a crash and a restart. The theorems need no bound.
- *Dates*. The server of the instances is five hours west of Greenwich.
  `pipeline_bookings` books ten in the morning of day 1 and day 3 as a plain
  day, and a PATCH may assign ten in the morning of day 3: verdicts of one day
  and of three, identical and disjoint ranges, ranges that share a boundary, a
  boundary day the query misses, and, by PATCH, an inverted range.
  `pipeline_settles` starts nine in the evening of day 2, which that server
  takes to be later than a plain day 3. The date arithmetic itself is proved
  for all dates and zones.
- *Times*. Two instants tell a processing time that is written again from one
  that stays; where no property speaks of the time there is one.
- *Directory*. Every check concerns at most two rows and one reference; three
  calls are one more than a conflict needs. `born` makes an id new once, as a
  generated UUID is.
- *Lists*. Six rows and pages of two give three pages, full and short last
  pages, and a tie; three changes can all fall between the same two requests or
  into one of them. The theorems need no bound.
- *Database attempts*. Two instead of ten: one refusal that is retried and one
  that ends the boot.
- *Symmetry* is used where only invariants and action properties are checked,
  over requests of one owner, handlers of one replica, instants, names,
  addresses and calls; none of the runs that check liveness uses it.

Deadlock checking is off: calls are finite in number and the system may rest.

Fairness. `FairSpec` assumes weak fairness only of what the code does without
being asked again: a handler or call goes on once its await is answered (every
promise of the drivers settles), the broker delivers what is ready to a
consumer with room, the orchestrator restarts a process
that exits, the operator follows the upgrade note. Nothing obliges a client to
call, nor a fault to happen or to stop; `MaxFaults` bounds faults, which is what
"eventually no more faults" means for a liveness property. `WorkShrinks` and
`RestIsSettled` are the safety half of `QueueDrains` and `EventuallySettled` and
assume no fairness: the first also rules out that the pipeline keeps itself
busy between two faults, which a bound on the faults could hide.

## 4. What the checks found

Each of these runs checks a sentence of the repository against the model, and
TLC refutes it.

| Run | The sentence | What happens |
|---|---|---|
| `manager_overruled` | leave-request.consumer.ts:34, skip what is not PENDING; README.md:13 | a PATCH sets REJECTED between the worker's status check and its save; the verdict is written over it |
| `double_booking` | leave-request.service.ts:39 and 61, overlap check | two POSTs both check before either inserts. `OverlapOnlyByRace` shows that besides this there is only the boundary day below |
| `edit_reverts_verdict` | README.md:129, the status will update | a PATCH saves the PENDING it read over the verdict; the event is gone |
| `delete_resurrected` | leave-request.controller.ts:65, deleted | the save of a worker inserts the row again |
| `cache_outdated` | employee.service.ts:103, "Invalidate cache" | a GET that loaded earlier stores its copy after the `del` |

More observations that no run is devoted to.

A request may be booked onto a day that is taken without any race. When the
start of a POST carries a time of day ("2030-01-02T10:00:00"), the query asks
for rows with `endDate >= '2030-01-02T10:00:00'`, a request that ends on
2030-01-02 is not among them, and the INSERT truncates the start to that day.
This is the `timed` half of `MissedBy`, which `OverlapOnlyByRace` and
`OverlapOnlyByMoveOrRace` have to admit; `QueryMissesOnlyTheBoundary` proves
that the query misses nothing else. An end with a time of day does no harm.

West of Greenwich an evening counts as later than the plain day that follows it
(a plain day is midnight UTC, a time of day is local). As a start it has a sound
range refused; as an end, after a plain start on the next day, it passes the
order check, and the POST books a range that ends the day before it begins
(`OrderedCalls` bounds it by that one day). The worker leaves it to a manager.

A handler that lost its channel between its status check and its save writes a
verdict after the redelivery has written its own. It is the same verdict, which
is what `LedgerSpec` and `DecisionIsFinal` say, but `processedAt` is that of
the late handler: the column that leave-request.entity.ts:34 keeps "For
idempotency/audit" is not that of the decision. The first condition of
`DecisionIsFinal` allows no other change, the second shows that it takes a
fault.

README.md:145 wants a Redis blip to be a cache miss, but `redis.get` is awaited
without a `try`: once its retries are used up the GET fails (`LookUpFails`).
`MissesAreDepartures` has to except a walk whose last page was robbed: on the
endpoints that join relations a row deleted between the two queries of one page
makes a full page short, and the total inferred from it ends the walk early.
Every other departure, on all four lists, is covered. README.md:143 promises
that failed jobs are preserved; `BrokerRestart` empties `dlq`, since the
consumer publishes its retries without `persistent` (consumer.ts:79), whereas
the queue itself is durable: the request then is "lost" in the ledger.
`DiscardNeedsReplacement` has to admit one case: the topology is asserted once
per boot, so a broker recreated under running replicas gets the main queue back
from the consumers' reconnect, but not the dead-letter exchange, until some
replica restarts. And the theorem `TodayAcceptedEastOfGreenwich` shows that the
validator refuses the server's own today west of Greenwich, against its message
at create-leave-request.dto.ts:22.

## 5. What is proved

All theorems hold for every value of the constants, from the named assumptions
of the modules only (finiteness of `Handlers`, `Requests`, `Admins` and `Rows`,
numbers that are natural or positive, `Limit` between 1 and 100, `Home` and
`Created` functions, the PATCH inputs within the domains, `Null` no instant or
day, zones less than a day apart).

**LeavePipelineProofs.** It begins with the calendar (`LeaveDates`): two ranges
that are not inverted overlap exactly when they share a day; the query of
`create` finds exactly the rows the new one will overlap, but for one that ends
on the day on which a start with a time of day falls
(`QueryMissesOnlyTheBoundary`); APPROVED means one or two days; no zone lets a
past day pass; today passes exactly from Greenwich eastwards.

None of the properties of the pipeline is inductive alone. The parts
of the invariants are in `LeavePipelineInv`:

- *Verdicts* (`VerdictsAreSound`). The danger is a detached handler that holds
  an old entity and an old reload. `Snapshots` says that for rows no
  administrator wrote these have the row's dates, which never change, and a
  status that can only have moved on from PENDING since. Merging such an entity
  can then only write the verdict that is due or there already; on a decided
  row the merge changes the processing time at most. `QuietBeforeInsert` and
  `RowStays` add that nobody works on a request before its row exists, and that
  only an administrator makes a row disappear.
- *Nothing stalls* (`NothingStallsSilently`). `RowInv` shows that whoever acks
  without deciding has read a decided row (`Snapshots`). A handler that acks
  after a republish relies on its copy: `CopyAhead` says that behind it there
  is a copy retried strictly more often than the one it acks. The strict order
  is needed: "some other copy exists" would let two such handlers rely on each
  other's message and ack both.
- *Bookings* (`DoubleBookingNeedsARace`). The live rows in `seen[r]` that
  overlap the days the call will book would have refused it, unless they end on
  the boundary day of a start with a time of day (`SeenClear`, by
  `QueryMissesOnlyTheBoundary`); rows keep their dates while no administrator
  writes them.
- *Dead letters* (`DeadLettersAreEarned`). Each copy of an event with retry
  count n has been paid for with n faults, and a handler that is bound for the
  catch block or has lost its channel with one more (`RetriesPaid`). This works
  since each copy alone has seen strictly increasing retry counts: a copy with
  count n + 1 is made only by a handler that failed on a copy with count n. The
  step needs the row invariant: on a row nobody deletes, `Write` has no
  conflicting INSERT, so a handler fails for a fault or not at all.

**LeaveCountsProofs.** Three arguments that count. They need sums over sets of
any size, which `Total` makes the cardinality of a set of tokens, so that the
library's facts about finite sets replace an induction: a sum changes by what
its one moving term changes (`TotalChange`), is at least each of its terms
(`TotalAtLeast`), and counts the members of the fibres of a function
(`TotalCount`).

- *Copies* (`RetriesNeverMultiply`). For a request no administrator wrote, its
  `Load` is the copies that are queued, parked or with a handler whose channel
  stands, and the one its POST is about to emit. Its `Excuse` is the faults so
  far and the handlers between their publish and their ack, whose message is
  counted twice meanwhile. `CopiesOwed` says that the load and the retries that
  any one copy has seen exceed the excuse by at most one, and that a handler on
  its way through the catch block has already paid, by the fault it failed for,
  for the retry it is about to publish. A closing channel puts copies back and
  costs one fault however many handlers it had; that is enough because at most
  one of them is between its publish and its ack (`OneDoubled`, which rests on
  `InOrder`). This is where a first version of the model failed: without
  `InOrder` the invariant is false for a prefetch of two. The row invariant is
  needed too: it keeps `Write` from failing without a fault.
- *Decisions* (`DecisionsAreFinal`). What a late handler may change is settled
  by the row invariant. That it takes a fault is `FirstHandling`: before the
  first fault there is one copy of an event (`OnlyCopy`, from `CopiesOwed`;
  retries would have been paid for, `RetriesPaid`), so that a request whose
  event is queued, about to be emitted or in the hands of a handler before its
  save is PENDING still, and the handler that saves it saves it first.
- *Work* (`PipelineRunsOut`, `PipelineRestsSettled`). Delivery trades a queued
  copy for the steps of its handler; a retry trades the handler's steps for a
  copy with one delivery fewer ahead of it, and only within the budget
  (`BackoffAllowed`). Where the work is zero no event is queued, no handler
  busy and no emit pending (`NothingLeft`); then `NothingStallsSilently` leaves
  only decided, parked and stranded requests, `DeadLettersAreEarned` charges
  the parked ones to faults of their own, and `OutagesAreFaults` the stranded
  ones. Together: of its own accord the pipeline takes finitely many steps, it
  never comes to rest on a request it has forgotten, and without a fault it
  comes to rest with every request decided. The run checks the calls of users
  and the handlers; the administrators' part of the measure is in the theorem.

**LeaveLedgerProofs** (`PipelineKeepsTheLedger`). Every step of the pipeline is
a step of `LeaveLedger` or stutters, request by request. Besides the row
invariant the mapping needs three facts (`LedgerInv` in `LeavePipelineInv`): a
call that inserts has days in order, or one day out of it (`OrderedCalls`); a
request is stranded only once its INSERT is over (`StrandedBooked`), so that
`lost` is entered from a booked stage; and an administrator at work on an
unedited request works on a row that is there (`EditsPresent`), so that a
take-over never starts from "unbooked".

**LeaveHistoryProofs.** The inductive invariant `HistoryInv` adds three parts
to the row invariant. The memory starts with the INSERT of a row and keeps what
it has seen (`MemoryKept`). A row, a handler and a PATCH carry only a status
the code may have given it: one that a PATCH gave this row, PENDING, or the
verdict of dates the row held while it was live, since a handler decides the
dates of a PENDING row it has really read (`GivenOnly`);
`VerdictsAreOfHeldDates` is its first part. A row seen by the overlap query
that has had one claim only, a live one, claims no day of the call that saw it
(but for the boundary day), nor of that call's row while it too has had one
claim only (`SteadyClear`), so that the argument for `DoubleBookingNeedsARace`
carries over to `OverlapNeedsAMoveOrARace` with "steady" for "not edited".
`HistoryIsThePipeline` carries every theorem about `LeavePipeline` over to the
specification that `pipeline_bookings` runs.

**PagedListProofs.** The place of a row (`Rank`) is the number of newer rows.
`MissInv`: the rows still to be shown whose place lies before what the walk
has asked for number at most `left`. A page selected takes all of its places
(`HeadRank`), so that selecting loses nothing; a departure moves exactly the
rows behind it forward by one, and only the row at the very edge slips out,
one since untied rows have distinct places (`RankDistinct`); an arrival only
moves rows back. At the end a COUNT that exceeds no asked place leaves no row
behind it (`RankListed`), and a page that is not full exhausts the list
(`ShortPage`). `RepeatInv` is the mirror image: rows already shown that lie at
or beyond the edge number at most `joins`.

**QueueBootProofs.** The binding exists for every replica that made it or saw
it made at the present broker (`Bound`), and the old queue is gone before
anybody has booted; so a discard needs every replica to have outlived its
broker. What a replica has declared on its way stays declared until a fault
sends it back to the start (`Declared`), so that neither its binding nor its
consumer is refused on account of other replicas (`BootsDoNotCollide`).

**EmployeeCacheProofs.** A GET that has loaded and has not been overtaken
carries the columns of the row (`LoadedFresh`); with that
`OutdatedOnlyByRace` is inductive. For `AnsweredWritesShow` the answered writes
are among the committed ones, and so is the write of a call that is about to
send its `del` (`AckedCommitted`): a copy made by a GET that nobody overtook has
seen all that is committed, hence all that is answered, and an answer follows a
`del` that leaves no copy.

**OrgDirectoryProofs.** With type correctness, every step keeps references and
keys. `DenialNeedsARace` needs what the checks have found to hold still when the
statement runs: a call that nobody has overtaken has passed the checks its
program counter implies on the tables as they are (`ChecksHold`), and a row that
is on file has its id among those handed out (`RowsBorn`), so that an INSERT
never meets its own key. What is left for the statement to be refused is the
address of a PATCH.

**Model-checked only.** Liveness (`EventuallySettled`, `QueueDrains`,
`EventuallyServing`): fairness and ENABLED are out of the
prover's reach. That a step is possible wherever work is left (no handler
waits for another for ever) is ENABLED too; `QueueDrains` checks it. Every
invariant and action property of a passing run is proved.

## 6. Not modelled, and why

- Authentication, guards, throttling, envelopes: stateless, or formatting. A
  login reads one row and signs a token; the guards decide on one request
  alone.
- The health check: it reads a flag of TypeORM and asks the Redis and RabbitMQ
  clients. What the answer is worth is decided inside those libraries, and a
  model would have to invent it.
- Walks with a limit that changes between pages, and fractional pages or limits
  (`@IsNumber` admits them, pagination.dto.ts:7): MySQL refuses the latter.
- `getDelay` and the TTL's jitter: durations; the models let any time pass.
- Draining on SIGTERM (`enableShutdownHooks`): a stopping replica is modelled
  as a crash, which allows more behaviours.
- What a PATCH owes the pipeline: the code has no rule for it (a PATCH may set
  any status and any dates), so most properties of the pipeline leave out rows
  that administrators wrote; `LeaveHistory` states what remains.
- The leave history inside cached employees is promised nothing but the expiry
  of the key: no code invalidates it, and no property speaks of it.
- Of an ISO string only the day and the minute are kept, as its two readers see
  them, and two strings differ in their zones by less than a day
  (`DatesAssumption`). A string that MySQL refuses altogether (a trailing "Z",
  in some of its modes) makes the query or the INSERT fail: `CallFails`. That a
  database in a zone of its own reads another day is a pair of `read` and
  `instant` like any other.
- RabbitMQ, MySQL, Redis, TypeORM and the AMQP clients are modelled from how
  the code uses them.

## 7. Plan

Done: the pipeline with its abstract ledger and what it owes to edited rows,
the cache, the directory, the boot, the list endpoints, and the theorems above.
Left, in this order:

1. The composition of `EmployeeCache` and `OrgDirectory`, whose PATCH and
   DELETE are the same calls seen from two sides.
2. What a client of the cache is promised: a specification of the answers of
   GET, with the copies' age, that `EmployeeCache` implements.
3. The shutdown: what Nest's hooks close while a handler is in its backoff,
   once the order in which the libraries close is pinned down.
