------------------------ MODULE LeavePipelineProofs ------------------------
(***************************************************************************)
(* Proofs about LeavePipeline, for every value of its constants.           *)
(***************************************************************************)
EXTENDS LeavePipelineInv, FiniteSetTheorems, TLAPS

-----------------------------------------------------------------------------
(* The calendar: what its arithmetic computes, for all days, instants and  *)
(* time zones.                                                             *)

LEMMA MinutesOfADay == MinutesPerDay = 1440
BY DEF MinutesPerDay

LEMMA DayOfMinute ==
    ASSUME NEW m \in Int
    PROVE  /\ DayOf(m) \in Int
           /\ Midnight(DayOf(m)) <= m
           /\ m < Midnight(DayOf(m)) + 1440
BY DEF DayOf, Midnight, MinutesPerDay

LEMMA LocalDayType ==
    ASSUME NEW now \in Int, NEW offset \in Int
    PROVE  LocalDay(now, offset) \in Int
BY DEF LocalDay, DayOf, MinutesPerDay

(* A column of type date holds a day.                                      *)
LEMMA DaysAreIntegers == Days \subseteq Int
<1>1. \A d \in Dates \cup PatchDates : d.read \in Int
  BY DatesAssumption
<1> QED BY <1>1, DayOfMinute DEF Days

(* Two ranges that are not inverted overlap exactly when they share a day. *)
THEOREM OverlapIsACommonDay ==
    ASSUME NEW a \in [from : Int, to : Int], NEW b \in [from : Int, to : Int],
           a.to >= a.from, b.to >= b.from
    PROVE  Overlaps(a, b) <=> (a.from .. a.to) \cap (b.from .. b.to) # {}
<1>1. ASSUME Overlaps(a, b)
      PROVE  \E day \in Int : day \in a.from .. a.to /\ day \in b.from .. b.to
  <2>1. CASE a.from <= b.from
    <3>1. b.from \in a.from .. a.to /\ b.from \in b.from .. b.to
      BY <1>1, <2>1 DEF Overlaps
    <3> QED BY <3>1
  <2>2. CASE b.from <= a.from
    <3>1. a.from \in a.from .. a.to /\ a.from \in b.from .. b.to
      BY <1>1, <2>2 DEF Overlaps
    <3> QED BY <3>1
  <2> QED BY <2>1, <2>2
<1>2. ASSUME NEW day \in (a.from .. a.to) \cap (b.from .. b.to)
      PROVE  Overlaps(a, b)
  BY <1>2 DEF Overlaps
<1> QED BY <1>1, <1>2

(* The query of LeaveRequestService.create compares columns of days with   *)
(* the strings of the body, and the INSERT keeps the days of those.  Of the*)
(* rows that the new row will overlap the query finds all but one kind: a  *)
(* row that ends on the day on which the new one begins, when the string of*)
(* that day carries a time of day.  It finds no other row.                 *)
THEOREM QueryMissesOnlyTheBoundary ==
    ASSUME NEW x, x.from \in Int, x.to \in Int,
           NEW from \in [read : Int, instant : Int],
           NEW to \in [read : Int, instant : Int]
    PROVE  Finds(x, from, to)
             <=> /\ Overlaps(x, Booked(from, to))
                 /\ ~(Timed(from.read) /\ x.to = Booked(from, to).from)
<1>1. PICK first \in Int, last \in Int :
         first = DayOf(from.read) /\ last = DayOf(to.read)
  BY DayOfMinute
<1>2. /\ first * 1440 <= from.read /\ from.read < first * 1440 + 1440
      /\ last * 1440 <= to.read /\ to.read < last * 1440 + 1440
  BY <1>1, DayOfMinute, MinutesOfADay DEF Midnight
<1>3. Timed(from.read) <=> from.read # first * 1440
  BY <1>1, MinutesOfADay DEF Timed, Midnight
<1>4. x.from * 1440 <= to.read <=> x.from <= last
  BY <1>2
<1>5. x.to * 1440 >= from.read
        <=> x.to >= first /\ ~(from.read # first * 1440 /\ x.to = first)
  BY <1>2
<1>6. Finds(x, from, to) <=> x.from * 1440 <= to.read /\ x.to * 1440 >= from.read
  BY MinutesOfADay DEF Finds, Midnight
<1>7. Overlaps(x, Booked(from, to)) <=> x.from <= last /\ x.to >= first
  BY <1>1 DEF Overlaps, Booked
<1>8. Booked(from, to).from = first
  BY <1>1 DEF Booked
<1> QED BY <1>3, <1>4, <1>5, <1>6, <1>7, <1>8

(* The two validators order instants, not days.  In no zone does what they *)
(* let pass end more than a day before it begins.                          *)
LEMMA DaysInOrder ==
    ASSUME NEW from \in Dates, NEW to \in Dates, IsEndDateAfterStartDate(from, to)
    PROVE  DayOf(to.read) + 1 >= DayOf(from.read)
<1>1. /\ from.read \in Int /\ from.instant \in Int
      /\ to.read \in Int /\ to.instant \in Int
      /\ (from.read - from.instant) - (to.read - to.instant) < 1440
  BY DatesAssumption, MinutesOfADay
<1>2. to.read > from.read - 1440
  BY <1>1 DEF IsEndDateAfterStartDate
<1>3. PICK first \in Int, last \in Int :
         first = DayOf(from.read) /\ last = DayOf(to.read)
  BY <1>1, DayOfMinute
<1>4. Midnight(first) <= from.read /\ to.read < Midnight(last) + 1440
  BY <1>1, <1>3, DayOfMinute
<1>5. Midnight(first) = first * 1440 /\ Midnight(last) = last * 1440
  BY MinutesOfADay DEF Midnight
<1>6. last + 1 >= first
  BY <1>1, <1>2, <1>4, <1>5
<1> QED BY <1>3, <1>6

(* The worker approves a request by itself exactly when it covers one day  *)
(* or two; an inverted range, which only a PATCH can produce, covers none  *)
(* and is left to a manager.                                               *)
THEOREM ApprovedIsOneOrTwoDays ==
    ASSUME NEW from \in Int, NEW to \in Int
    PROVE  Verdict(from, to) = "APPROVED" <=> Cardinality(from .. to) \in {1, 2}
<1>1. Cardinality(from .. to) = IF from > to THEN 0 ELSE to - from + 1
  BY FS_Interval
<1> QED BY <1>1 DEF Verdict, Duration

(* The validator compares the instant of a date, midnight UTC of the day if*)
(* no time of day is given, with midnight of the server's zone.  In no zone*)
(* of the world (its offset is less than a day) does it let a day pass that*)
(* is over at the server.                                                  *)
THEOREM PastDaysAreRefused ==
    ASSUME NEW day \in Int, NEW now \in Int, NEW offset \in Int,
           offset < MinutesPerDay, IsFutureDate(Midnight(day), now, offset)
    PROVE  day >= LocalDay(now, offset)
<1>1. PICK today \in Int : today = LocalDay(now, offset)
  BY LocalDayType
<1>2. offset < 1440 /\ day * 1440 >= today * 1440 - offset
  BY <1>1, MinutesOfADay DEF IsFutureDate, LocalMidnight, Midnight
<1> QED BY <1>1, <1>2

(* It lets the server's own today pass exactly when the zone is not west   *)
(* of Greenwich: behind it, the message "Date must be today or a future    *)
(* date" (create-leave-request.dto.ts:22) is not what the code does.       *)
THEOREM TodayAcceptedEastOfGreenwich ==
    ASSUME NEW now \in Int, NEW offset \in Int
    PROVE  IsFutureDate(Midnight(LocalDay(now, offset)), now, offset)
             <=> offset >= 0
<1>1. PICK today \in Int : today = LocalDay(now, offset)
  BY LocalDayType
<1>2. IsFutureDate(Midnight(today), now, offset)
        <=> today * 1440 >= today * 1440 - offset
  BY <1>1, MinutesOfADay DEF IsFutureDate, LocalMidnight, Midnight
<1> QED BY <1>1, <1>2

-----------------------------------------------------------------------------
(* Operators.                                                              *)

(* The verdict is a status of the enum.                                    *)
LEMMA VerdictType == \A from, to : Verdict(from, to) \in Status \ {"PENDING"}
BY DEF Verdict, Status

LEMMA DecidedType ==
    ASSUME NEW entity \in Row, NEW now \in Times
    PROVE  /\ Decided(entity, now) \in Row
           /\ Decided(entity, now).from = entity.from
           /\ Decided(entity, now).to = entity.to
           /\ Decided(entity, now).status = Verdict(entity.from, entity.to)
           /\ Decided(entity, now).processed = now
<1>1. Verdict(entity.from, entity.to) \in Status
  BY VerdictType
<1> QED BY <1>1 DEF Decided, Row

(* A POST inserts a row that waits.                                        *)
LEMMA BookedType ==
    ASSUME NEW from \in Dates, NEW to \in Dates
    PROVE  /\ Booked(from, to) \in Row
           /\ Booked(from, to).status = "PENDING"
           /\ Booked(from, to).processed = Null
BY DEF Booked, Row, Days, Status

(* The queues count events.                                                *)
LEMMA PutType ==
    ASSUME NEW q \in [Event -> Nat], NEW e
    PROVE  Put(q, e) \in [Event -> Nat]
<1>1. Put(q, e) = [x \in Event |-> IF x = e THEN q[x] + 1 ELSE q[x]]
  BY DEF Put
<1> QED BY <1>1

LEMMA TakeType ==
    ASSUME NEW q \in [Event -> Nat], NEW e \in Event, q[e] > 0
    PROVE  Take(q, e) \in [Event -> Nat]
BY DEF Take

LEMMA FirstEvent ==
    ASSUME NEW r \in Requests
    PROVE  [req |-> r, retries |-> 0] \in Event
BY AttemptsAssumption DEF Event

(* A copy the retry strategy allows is an event, of the same request.      *)
LEMMA NextEvent ==
    ASSUME NEW e \in Event, ShouldRetry(e.retries + 1)
    PROVE  /\ [e EXCEPT !.retries = @ + 1] \in Event
           /\ [e EXCEPT !.retries = @ + 1].req = e.req
           /\ [e EXCEPT !.retries = @ + 1].retries = e.retries + 1
BY AttemptsAssumption DEF Event, ShouldRetry

(* Losing a consumer puts its events back and takes none away.             *)
LEMMA RequeuedFacts ==
    ASSUME TypeOK, NEW i \in Instances
    PROVE  /\ Requeued(i) \in [Event -> Nat]
           /\ \A e \in Event : Requeued(i)[e] >= ready[e]
           /\ \A e \in Event, h \in Unacked(i) :
                 hnd[h].event = e => Requeued(i)[e] > 0
<1> DEFINE Back(e) == {h \in Unacked(i) : hnd[h].event = e}
<1>1. \A e \in Event : IsFiniteSet(Back(e)) /\ Cardinality(Back(e)) \in Nat
  <2> TAKE e \in Event
  <2>1. Back(e) \subseteq Handlers
    BY DEF Unacked
  <2> QED BY <2>1, HandlersAssumption, FS_Subset, FS_CardinalityType
<1>2. \A e \in Event : Requeued(i)[e] = ready[e] + Cardinality(Back(e))
  BY DEF Requeued
<1>3. \A e \in Event : ready[e] \in Nat
  BY DEF TypeOK
<1>4. ASSUME NEW e \in Event, NEW h \in Unacked(i), hnd[h].event = e
      PROVE  Cardinality(Back(e)) # 0
  <2>1. h \in Back(e)
    BY <1>4
  <2> QED BY <1>1, <2>1, FS_EmptySet
<1>5. Requeued(i) \in [Event -> Nat]
  <2>1. \A e \in Event : ready[e] + Cardinality(Back(e)) \in Nat
    BY <1>1, <1>3
  <2> QED BY <2>1 DEF Requeued
<1> HIDE DEF Back
<1> QED BY <1>1, <1>2, <1>3, <1>4, <1>5

(* The UPDATE of save writes the columns in which the entity differs.      *)
LEMMA MergeColumns ==
    ASSUME NEW current \in Row, NEW base, NEW entity \in Row
    PROVE  LET m == Merge(current, base, entity) IN
           /\ m \in Row
           /\ m.from = IF entity.from # base.from THEN entity.from ELSE current.from
           /\ m.to = IF entity.to # base.to THEN entity.to ELSE current.to
           /\ m.status = IF entity.status # base.status
                         THEN entity.status ELSE current.status
           /\ m.processed = IF entity.processed # base.processed
                            THEN entity.processed ELSE current.processed
BY DEF Merge, Row

(* What two actions with a choice of their own leave alone.                *)
LEMMA Frames ==
    /\ \A h : Decide(h) =>
          UNCHANGED <<row, call, ready, dlq, adm, edited, stranded, seen, faults>>
    /\ \A a, r, i : UpdateFind(a, r, i) =>
          UNCHANGED <<row, call, ready, dlq, hnd, edited, stranded, seen, faults>>
BY DEF Decide, UpdateFind

(* A handler that takes a step has a message in hand.                      *)
LEMMA StepIsBusy ==
    ASSUME NEW h, HandlerStep(h) \/ DbFails(h)
    PROVE  Busy(h)
<1>1. CASE Decide(h)
  BY <1>1 DEF Decide, Busy
<1>2. CASE Find(h) \/ Skip(h) \/ Write(h) \/ AckSaved(h) \/ DbFails(h)
  BY <1>2 DEF Find, Skip, Write, AckSaved, DbFails, Busy
<1>3. CASE Catch(h) \/ Republish(h) \/ AckRetried(h)
  BY <1>3 DEF Catch, Republish, AckRetried, Busy
<1> QED BY <1>1, <1>2, <1>3 DEF HandlerStep

(* What a handler keeps when it decides.                                   *)
LEMMA DecideEffect ==
    ASSUME hnd \in [Handlers -> Handler], NEW h \in Handlers, Decide(h)
    PROVE  /\ hnd[h] \in Handler \ {Idle}
           /\ hnd[h].pc = "found"
           /\ hnd'[h].pc = "write"
           /\ hnd'[h].event = hnd[h].event
           /\ hnd'[h].held = hnd[h].held
           /\ hnd'[h].base = row[hnd[h].event.req]
           /\ \E now \in Times : hnd'[h].entity = Decided(hnd[h].entity, now)
           /\ \A g \in Handlers \ {h} : hnd'[g] = hnd[g]
<1>1. hnd[h] \in Handler \ {Idle} /\ hnd[h].pc = "found"
  BY DEF Decide, Idle
<1>2. PICK now \in Times :
        hnd' = [hnd EXCEPT ![h] =
                   [@ EXCEPT !.pc = "write",
                             !.base = row[hnd[h].event.req],
                             !.entity = Decided(hnd[h].entity, now)]]
  BY DEF Decide
<1> QED BY <1>1, <1>2 DEF Handler

(* What a PATCH assigns to a date column, and what it compares that with.  *)
LEMMA AssignedType ==
    ASSUME NEW day \in Days
    PROVE  \A x \in Assigned(day) : x.day \in Days
BY DEF Assigned, Days

LEMMA PatchingType ==
    ASSUME NEW r \in Requests, NEW i \in Instances, row[r] \in Row,
           NEW from \in Assigned(row[r].from), NEW to \in Assigned(row[r].to),
           NEW status \in {row[r].status} \cup PatchStatuses
    PROVE  /\ Patching(r, i, from, to, status) \in AdmCall
           /\ Patching(r, i, from, to, status).pc = "loaded"
           /\ Patching(r, i, from, to, status).req = r
<1>1. from.day \in Days /\ to.day \in Days /\ status \in Status
  BY AssignedType, PatchAssumption DEF Row
<1>2. [row[r] EXCEPT !.from = from.day, !.to = to.day, !.status = status] \in Row
  BY <1>1 DEF Row
<1>3. {c \in {"from", "to"} : IF c = "from" THEN from.timed ELSE to.timed}
        \in SUBSET {"from", "to"}
  OBVIOUS
<1> QED BY <1>2, <1>3 DEF AdmCall, Patching

LEMMA ComparedType ==
    ASSUME NEW x \in Row \cup {Absent}, NEW timed \in SUBSET {"from", "to"}
    PROVE  Compared(x, timed) \in Reloaded \cup {Absent}
BY DEF Compared, Reloaded, Row

(* What save leaves behind is a row, or nothing.                           *)
LEMMA SavedType ==
    ASSUME NEW current \in Row \cup {Absent}, NEW base, NEW entity \in Row
    PROVE  Saved(current, base, entity) \in Row \cup {Absent}
<1>1. ASSUME current # Absent, base # Absent
      PROVE  Merge(current, base, entity) \in Row
  BY <1>1, MergeColumns
<1> QED BY <1>1 DEF Saved

-----------------------------------------------------------------------------
(* Type correctness.                                                       *)

LEMMA InitType == Init => TypeOK
BY FaultsAssumption DEF Init, TypeOK, Call, Handler, AdmCall, Idle

LEMMA CallStepType ==
    ASSUME TypeOK, NEW r \in Requests,
           \/ \E i \in Instances, from \in Dates, to \in Dates : Submit(r, i, from, to)
           \/ CallStep(r)
           \/ ProducerDrop(r) \/ CallFails(r) \/ EmitLost(r)
    PROVE  TypeOK'
<1> USE DEF TypeOK
<1>1. ASSUME NEW i \in Instances, NEW from \in Dates, NEW to \in Dates,
             Submit(r, i, from, to)
      PROVE  TypeOK'
  BY <1>1 DEF Submit, Call
<1>2. CASE CheckOverlap(r)
  <2>1. call[r] \in [pc : {"check", "insert"}, inst : Instances,
                     from : Dates, to : Dates]
    BY <1>2 DEF CheckOverlap, Call, NoCall, CallEnded
  <2>2. [call[r] EXCEPT !.pc = "insert"] \in Call
    BY <2>1 DEF Call
  <2>3. CallEnded \in Call
    BY DEF Call
  <2>4. call' \in [Requests -> Call]
    BY <1>2, <2>2, <2>3 DEF CheckOverlap
  <2>5. seen' \in [Requests -> [rows : SUBSET Requests, timed : BOOLEAN]]
    BY <1>2 DEF CheckOverlap, Timed
  <2> QED BY <1>2, <2>4, <2>5 DEF CheckOverlap
<1>3. CASE Insert(r)
  <2>1. call[r].from \in Dates /\ call[r].to \in Dates /\ call[r].inst \in Instances
    BY <1>3 DEF Insert, Call, NoCall, CallEnded
  <2>2. Booked(call[r].from, call[r].to) \in Row
    BY <2>1, BookedType
  <2>3. row' \in [Requests -> Row \cup {Absent}]
    BY <1>3, <2>2 DEF Insert
  <2>4. call' \in [Requests -> Call]
    BY <1>3, <2>1 DEF Insert, Call
  <2> QED BY <1>3, <2>3, <2>4 DEF Insert
<1>4. CASE Emit(r)
  <2>1. ready' \in [Event -> Nat]
    BY <1>4, FirstEvent, PutType DEF Emit
  <2>2. call' \in [Requests -> Call]
    BY <1>4 DEF Emit, Call, NoCall, CallEnded
  <2> QED BY <1>4, <2>1, <2>2 DEF Emit
<1>5. CASE Confirm(r)
  BY <1>5 DEF Confirm, Call
<1>6. CASE ProducerDrop(r)
  <2>1. call[r].pc = "confirm" /\ call[r] \in [pc : {"emit", "confirm"}, inst : Instances]
    BY <1>6 DEF ProducerDrop, Call, NoCall, CallEnded
  <2>2. call' \in [Requests -> Call]
    BY <1>6, <2>1 DEF ProducerDrop, Call
  <2> QED BY <1>6, <2>2 DEF ProducerDrop, Fault
<1>7. CASE CallFails(r)
  BY <1>7 DEF CallFails, Fault, Call
<1>8. CASE EmitLost(r)
  BY <1>8 DEF EmitLost, Fault, Call
<1> QED BY <1>1, <1>2, <1>3, <1>4, <1>5, <1>6, <1>7, <1>8 DEF CallStep

LEMMA HandlerStepType ==
    ASSUME TypeOK, NEW h \in Handlers,
           Delivery(h) \/ HandlerStep(h) \/ DbFails(h)
    PROVE  TypeOK'
<1> USE DEF TypeOK
<1>1. ASSUME NEW e \in Event, Deliver(h, e)
      PROVE  TypeOK'
  BY <1>1 DEF Deliver, Take, Handler
<1>2. CASE Find(h)
  <2>1. hnd[h] \in Handler \ {Idle} /\ hnd[h].event.req \in Requests
    BY <1>2 DEF Find, Handler, Idle, Event
  <2>2. row[hnd[h].event.req] \in Row \cup {Absent}
    BY <2>1
  <2>3. [hnd[h] EXCEPT !.pc = "found", !.entity = row[hnd[h].event.req]]
          \in Handler
    BY <2>1, <2>2 DEF Handler, Idle
  <2> QED BY <1>2, <2>1, <2>3 DEF Find
<1>3. CASE Skip(h)
  BY <1>3 DEF Skip, AckInTry, Handler, Idle
<1>4. CASE Decide(h)
  <2>1. hnd[h] \in Handler \ {Idle} /\ hnd[h].event.req \in Requests
    BY <1>4 DEF Decide, Handler, Idle, Event
  <2>2. row[hnd[h].event.req] \in Row \cup {Absent}
    BY <2>1
  <2> PICK now \in Times :
        hnd' = [hnd EXCEPT ![h] =
                   [@ EXCEPT !.pc = "write",
                             !.base = row[hnd[h].event.req],
                             !.entity = Decided(hnd[h].entity, now)]]
    BY <1>4 DEF Decide
  <2>3. Decided(hnd[h].entity, now) \in Row
    <3>1. hnd[h].entity \in Row
      BY <1>4, <2>1 DEF Decide, Handler, Idle, Absent
    <3> QED BY <3>1, DecidedType
  <2>4. [hnd[h] EXCEPT !.pc = "write", !.base = row[hnd[h].event.req],
                       !.entity = Decided(hnd[h].entity, now)] \in Handler
    BY <2>1, <2>2, <2>3 DEF Handler, Idle
  <2>5. hnd' \in [Handlers -> Handler]
    BY <2>4
  <2>6. \A g \in Handlers : hnd'[g].pc = "write" => hnd'[g].entity \in Row
    BY <2>1, <2>3 DEF Handler, Idle
  <2> QED BY <1>4, <2>5, <2>6 DEF Decide
<1>5. CASE Write(h)
  <2>1. /\ hnd[h] \in Handler \ {Idle}
        /\ hnd[h].event.req \in Requests
        /\ hnd[h].base \in Row \cup {Absent}
        /\ hnd[h].entity \in Row
    BY <1>5 DEF Write, Handler, Idle, Event
  <2>2. row' \in [Requests -> Row \cup {Absent}]
    <3>1. row[hnd[h].event.req] \in Row \cup {Absent}
      BY <2>1
    <3>2. Saved(row[hnd[h].event.req], hnd[h].base, hnd[h].entity)
            \in Row \cup {Absent}
      BY <2>1, <3>1, SavedType
    <3> QED BY <1>5, <2>1, <3>2 DEF Write
  <2>3. hnd' \in [Handlers -> Handler]
    BY <1>5, <2>1 DEF Write, Handler, Idle
  <2>4. \A g \in Handlers : hnd'[g].pc = "write" => hnd'[g].entity \in Row
    BY <1>5, <2>1 DEF Write, Handler, Idle
  <2> QED BY <1>5, <2>2, <2>3, <2>4 DEF Write
<1>6. CASE AckSaved(h)
  BY <1>6 DEF AckSaved, AckInTry, Handler, Idle
<1>7. CASE Catch(h)
  <2>1. hnd[h] \in Handler \ {Idle} /\ hnd[h].event \in Event
    BY <1>7 DEF Catch, Handler, Idle
  <2>2. hnd'[h] \in Handler /\ hnd'[h].pc # "write"
    BY <1>7, <2>1 DEF Catch, Handler, Idle
  <2>3. hnd' \in [Handlers -> Handler]
    BY <1>7, <2>2 DEF Catch
  <2>4. \A g \in Handlers : hnd'[g].pc = "write" => hnd'[g].entity \in Row
    BY <1>7, <2>2 DEF Catch
  <2>5. dlq' \in [Event -> Nat]
    BY <1>7, <2>1, PutType DEF Catch
  <2> QED BY <1>7, <2>3, <2>4, <2>5 DEF Catch
<1>8. CASE Republish(h)
  <2>1. hnd[h] \in Handler \ {Idle} /\ hnd[h].event \in Event
    BY <1>8 DEF Republish, Handler, Idle
  <2>2. hnd'[h] \in Handler /\ hnd'[h].pc # "write"
    BY <1>8, <2>1 DEF Republish, Handler, Idle
  <2>3. hnd' \in [Handlers -> Handler]
    BY <1>8, <2>2 DEF Republish
  <2>4. \A g \in Handlers : hnd'[g].pc = "write" => hnd'[g].entity \in Row
    BY <1>8, <2>2 DEF Republish
  <2>5. CASE hnd[h].held
    <3>1. ready' = Put(ready, [hnd[h].event EXCEPT !.retries = @ + 1])
      BY <1>8, <2>5 DEF Republish
    <3>2. ready' \in [Event -> Nat]
      BY <3>1, PutType
    <3> QED BY <1>8, <2>3, <2>4, <3>2 DEF Republish
  <2>6. CASE ~hnd[h].held
    BY <1>8, <2>3, <2>4, <2>6 DEF Republish
  <2> QED BY <2>5, <2>6
<1>9. CASE AckRetried(h)
  BY <1>9 DEF AckRetried, Handler, Idle
<1>10. CASE DbFails(h)
  <2>1. hnd[h] \in Handler \ {Idle}
    BY <1>10 DEF DbFails, Handler, Idle
  <2>2. hnd'[h] \in Handler /\ hnd'[h].pc # "write"
    BY <1>10, <2>1 DEF DbFails, Handler, Idle
  <2>3. hnd' \in [Handlers -> Handler]
    BY <1>10, <2>2 DEF DbFails
  <2>4. \A g \in Handlers : hnd'[g].pc = "write" => hnd'[g].entity \in Row
    BY <1>10, <2>2 DEF DbFails
  <2> QED BY <1>10, <2>3, <2>4 DEF DbFails, Fault
<1> QED BY <1>1, <1>2, <1>3, <1>4, <1>5, <1>6, <1>7, <1>8, <1>9, <1>10
        DEF Delivery, HandlerStep

LEMMA AdmStepType ==
    ASSUME TypeOK, NEW a \in Admins,
           \/ \E r \in Requests, i \in Instances :
                 UpdateFind(a, r, i) \/ RemoveFind(a, r, i)
           \/ AdmStep(a)
           \/ AdmFails(a)
    PROVE  TypeOK'
<1> USE DEF TypeOK
<1>1. ASSUME NEW r \in Requests, NEW i \in Instances, UpdateFind(a, r, i)
      PROVE  TypeOK'
  <2>1. CASE row[r] = Absent
    BY <1>1, <2>1 DEF UpdateFind, AdmCall
  <2>2. CASE row[r] # Absent
    <3>1. row[r] \in Row
      BY <2>2
    <3>2. PICK from \in Assigned(row[r].from), to \in Assigned(row[r].to),
               status \in {row[r].status} \cup PatchStatuses :
            adm' = [adm EXCEPT ![a] = Patching(r, i, from, to, status)]
      BY <1>1, <2>2 DEF UpdateFind
    <3>3. Patching(r, i, from, to, status) \in AdmCall
      BY <3>1, PatchingType
    <3>4. adm' \in [Admins -> AdmCall]
      BY <3>2, <3>3
    <3> QED BY <1>1, <3>4 DEF UpdateFind
  <2> QED BY <2>1, <2>2
<1>2. ASSUME NEW r \in Requests, NEW i \in Instances, RemoveFind(a, r, i)
      PROVE  TypeOK'
  BY <1>2 DEF RemoveFind, AdmCall, AdmDone, Row, Absent
<1>3. ASSUME adm[a].pc \in {"loaded", "write", "remove"}
      PROVE  /\ adm[a] \in AdmCall \ {NoAdm, AdmDone}
             /\ adm[a].req \in Requests
             /\ adm[a].entity \in Row
             /\ adm[a].timed \in SUBSET {"from", "to"}
             /\ row[adm[a].req] \in Row \cup {Absent}
  BY <1>3 DEF AdmCall, NoAdm, AdmDone
<1>4. CASE UpdateReload(a)
  <2>1. Compared(row[adm[a].req], adm[a].timed) \in Reloaded \cup {Absent}
    BY <1>3, <1>4, ComparedType DEF UpdateReload
  <2>2. [adm[a] EXCEPT !.pc = "write",
                       !.base = Compared(row[adm[a].req], adm[a].timed)] \in AdmCall
    BY <1>3, <1>4, <2>1 DEF UpdateReload, AdmCall, NoAdm, AdmDone
  <2> QED BY <1>4, <2>2 DEF UpdateReload
<1>5. CASE UpdateWrite(a)
  <2>1. Saved(row[adm[a].req], adm[a].base, adm[a].entity) \in Row \cup {Absent}
    BY <1>3, <1>5, SavedType DEF UpdateWrite
  <2>2. row' \in [Requests -> Row \cup {Absent}]
    BY <1>3, <1>5, <2>1 DEF UpdateWrite
  <2>3. adm' \in [Admins -> AdmCall]
    BY <1>5 DEF UpdateWrite, AdmCall
  <2> QED BY <1>3, <1>5, <2>2, <2>3 DEF UpdateWrite
<1>6. CASE RemoveDelete(a)
  BY <1>3, <1>6 DEF RemoveDelete, AdmCall
<1>7. CASE AdmFails(a)
  BY <1>7 DEF AdmFails, Fault, AdmCall
<1> QED BY <1>1, <1>2, <1>4, <1>5, <1>6, <1>7 DEF AdmStep

LEMMA EnvironmentType ==
    ASSUME TypeOK,
           \/ \E i \in Instances : Drop(i) \/ Crash(i)
           \/ BrokerRestart
    PROVE  TypeOK'
<1> USE DEF TypeOK
<1>1. ASSUME NEW h \in Handlers, Busy(h)
      PROVE  [hnd[h] EXCEPT !.held = FALSE] \in Handler
  <2>1. hnd[h] \in Handler \ {Idle}
    BY <1>1 DEF Busy, Idle
  <2> HIDE DEF TypeOK
  <2> QED BY <2>1 DEF Handler
<1>2. \A h \in Handlers : Busy(h) => /\ [hnd[h] EXCEPT !.held = FALSE].pc = hnd[h].pc
                                      /\ [hnd[h] EXCEPT !.held = FALSE].entity = hnd[h].entity
  BY DEF Busy, Handler, Idle
<1>3. ASSUME NEW i \in Instances, Drop(i)
      PROVE  TypeOK'
  <2>1. ready' \in [Event -> Nat]
    BY <1>3, RequeuedFacts DEF Drop
  <2>2. hnd' \in [Handlers -> Handler]
    BY <1>1, <1>3 DEF Drop, Unacked
  <2>3. \A h \in Handlers : hnd'[h].pc = "write" => hnd'[h].entity \in Row
    BY <1>2, <1>3 DEF Drop, Unacked
  <2> QED BY <1>3, <2>1, <2>2, <2>3 DEF Drop, Fault
<1>4. ASSUME NEW i \in Instances, Crash(i)
      PROVE  TypeOK'
  <2>1. ready' \in [Event -> Nat]
    BY <1>4, RequeuedFacts DEF Crash
  <2>2. hnd' \in [Handlers -> Handler]
    BY <1>4 DEF Crash, Handler
  <2>3. \A h \in Handlers : hnd'[h].pc = "write" => hnd'[h].entity \in Row
    BY <1>4 DEF Crash, Idle
  <2>4. call' \in [Requests -> Call] /\ adm' \in [Admins -> AdmCall]
    BY <1>4 DEF Crash, Call, AdmCall
  <2>5. stranded' \subseteq Requests
    BY <1>4 DEF Crash, CallsOf
  <2> QED BY <1>4, <2>1, <2>2, <2>3, <2>4, <2>5 DEF Crash, Fault
<1>5. CASE BrokerRestart
  <2>1. hnd' \in [Handlers -> Handler]
    BY <1>1, <1>5 DEF BrokerRestart
  <2>2. \A h \in Handlers : hnd'[h].pc = "write" => hnd'[h].entity \in Row
    BY <1>2, <1>5 DEF BrokerRestart
  <2>3. call' \in [Requests -> Call]
    BY <1>5 DEF BrokerRestart, Call, NoCall, CallEnded
  <2> QED BY <1>5, <2>1, <2>2, <2>3 DEF BrokerRestart, Fault
<1> QED BY <1>3, <1>4, <1>5

LEMMA StutterType == TypeOK /\ UNCHANGED vars => TypeOK'
BY DEF TypeOK, vars

LEMMA TypeStep == TypeOK /\ [Next]_vars => TypeOK'
<1> SUFFICES ASSUME TypeOK, [Next]_vars PROVE TypeOK'
  OBVIOUS
<1>1. CASE UNCHANGED vars
  BY <1>1, StutterType
<1>2. CASE Next
  BY <1>2, CallStepType, HandlerStepType, AdmStepType, EnvironmentType
     DEF Next, Environment
<1> QED BY <1>1, <1>2

(* Every variable of every reachable state has its type: no handler, late  *)
(* or detached, ever writes an entity it did not read.                     *)
THEOREM TypeCorrect == Spec => []TypeOK
<1>1. Init => TypeOK
  BY InitType
<1>2. TypeOK /\ [Next]_vars => TypeOK'
  BY TypeStep
<1> QED BY <1>1, <1>2, PTL DEF Spec

-----------------------------------------------------------------------------
(* What a step may do to each part of the state.                           *)

(* Who moves the calls.                                                    *)
LEMMA CallMovers ==
    ASSUME [Next]_vars
    PROVE  \/ UNCHANGED call
           \/ \E q \in Requests, i \in Instances, from \in Dates, to \in Dates :
                 Submit(q, i, from, to)
           \/ \E q \in Requests :
                 CallStep(q) \/ ProducerDrop(q) \/ CallFails(q) \/ EmitLost(q)
           \/ \E i \in Instances : Crash(i)
           \/ BrokerRestart
<1>1. \A h : HandlerStep(h) \/ Delivery(h) \/ DbFails(h) => UNCHANGED call
  BY Frames DEF HandlerStep, Delivery, Deliver, Find, Skip, AckSaved, AckInTry,
                Write, Catch, Republish, AckRetried, DbFails
<1>2. \A a : AdmStep(a) \/ AdmFails(a) => UNCHANGED call
  BY DEF AdmStep, UpdateReload, UpdateWrite, RemoveDelete, AdmFails
<1>3. \A a, r, i : UpdateFind(a, r, i) \/ RemoveFind(a, r, i) => UNCHANGED call
  BY Frames DEF RemoveFind
<1>4. \A i : Drop(i) => UNCHANGED call
  BY DEF Drop
<1> QED BY <1>1, <1>2, <1>3, <1>4 DEF Next, vars, Environment

(* Calls only move forward.                                                *)
LEMMA CallMoves ==
    ASSUME TypeOK, [Next]_vars, NEW r \in Requests
    PROVE  /\ call'[r].pc \in {"idle", "check", "insert"}
              => call[r].pc \in {"idle", "check", "insert"} /\ ~Insert(r)
           /\ call'[r].pc \in {"emit", "confirm"}
              => call[r].pc \in {"emit", "confirm"} \/ Insert(r)
           /\ call'[r].pc = "insert"
              => call'[r] = call[r] \/ CheckOverlap(r)
<1> DEFINE P == /\ call'[r].pc \in {"idle", "check", "insert"}
                   => call[r].pc \in {"idle", "check", "insert"} /\ ~Insert(r)
                /\ call'[r].pc \in {"emit", "confirm"}
                   => call[r].pc \in {"emit", "confirm"} \/ Insert(r)
                /\ call'[r].pc = "insert"
                   => call'[r] = call[r] \/ CheckOverlap(r)
<1>0. call \in [Requests -> Call]
  BY DEF TypeOK
<1>1. CASE UNCHANGED call
  <2>1. ~Insert(r)
    BY <1>0, <1>1 DEF Insert, Call, NoCall, CallEnded
  <2> QED BY <1>1, <2>1
<1>2. ASSUME NEW q \in Requests, NEW i \in Instances, NEW from \in Dates,
             NEW to \in Dates, Submit(q, i, from, to)
      PROVE  P
  BY <1>0, <1>2 DEF Submit, Insert, NoCall, CallEnded
<1>3. ASSUME NEW q \in Requests,
             CallStep(q) \/ ProducerDrop(q) \/ CallFails(q) \/ EmitLost(q)
      PROVE  P
  BY <1>0, <1>3 DEF CallStep, CheckOverlap, Insert, Emit, Confirm, ProducerDrop,
                    CallFails, EmitLost, Call, NoCall, CallEnded
<1>4. ASSUME NEW i \in Instances, Crash(i)
      PROVE  P
  <2>1. call'[r] = call[r] \/ call'[r] = CallEnded
    BY <1>4 DEF Crash
  <2>2. Insert(r) => call'[r].pc = "emit"
    BY <1>0 DEF Insert, Call, NoCall, CallEnded
  <2> QED BY <2>1, <2>2 DEF CallEnded
<1>5. CASE BrokerRestart
  BY <1>0, <1>5 DEF BrokerRestart, Insert, Call, NoCall, CallEnded
<1> QED BY <1>1, <1>2, <1>3, <1>4, <1>5, CallMovers

(* Who writes rows.                                                        *)
LEMMA RowMoves ==
    ASSUME [Next]_vars
    PROVE  \/ UNCHANGED <<row, edited>>
           \/ \E r \in Requests : Insert(r)
           \/ \E h \in Handlers : Write(h)
           \/ \E a \in Admins : UpdateWrite(a) \/ RemoveDelete(a)
BY DEF Next, vars, CallStep, Delivery, HandlerStep, AdmStep, Environment,
       Submit, CheckOverlap, Emit, Confirm, ProducerDrop, CallFails, EmitLost,
       Deliver, Find, Skip, AckSaved, AckInTry, Decide, Catch, Republish,
       AckRetried, DbFails, UpdateFind, UpdateReload, RemoveFind, AdmFails,
       Drop, Crash, BrokerRestart

(* A handler moves by its own action, loses its channel, or is forgotten.  *)
LEMMA HandlerMoves ==
    ASSUME TypeOK, [Next]_vars, NEW h \in Handlers
    PROVE  \/ hnd'[h] = hnd[h]
           \/ Delivery(h) \/ HandlerStep(h) \/ DbFails(h)
           \/ UNCHANGED row /\ Busy(h) /\ hnd'[h] = [hnd[h] EXCEPT !.held = FALSE]
           \/ hnd'[h] = Idle
<1> DEFINE P == \/ hnd'[h] = hnd[h]
                \/ Delivery(h) \/ HandlerStep(h) \/ DbFails(h)
                \/ /\ UNCHANGED row
                   /\ Busy(h)
                   /\ hnd'[h] = [hnd[h] EXCEPT !.held = FALSE]
                \/ hnd'[h] = Idle
<1>0. hnd \in [Handlers -> Handler]
  BY DEF TypeOK
<1>1. ASSUME NEW g \in Handlers, Delivery(g) \/ HandlerStep(g) \/ DbFails(g)
      PROVE  P
  <2>1. CASE g = h
    BY <1>1, <2>1
  <2>2. CASE g # h
    BY <1>0, <1>1, <2>2 DEF Delivery, HandlerStep, Deliver, Find, Skip, AckSaved,
          AckInTry, Decide, Write, Catch, Republish, AckRetried, DbFails
  <2> QED BY <2>1, <2>2
<1>2. ASSUME NEW i \in Instances, Drop(i)
      PROVE  P
  BY <1>2 DEF Drop, Unacked
<1>3. ASSUME NEW i \in Instances, Crash(i)
      PROVE  P
  BY <1>3 DEF Crash
<1>4. CASE BrokerRestart
  BY <1>4 DEF BrokerRestart
<1>5. \/ UNCHANGED hnd
      \/ \E g \in Handlers : Delivery(g) \/ HandlerStep(g) \/ DbFails(g)
      \/ \E i \in Instances : Drop(i) \/ Crash(i)
      \/ BrokerRestart
  BY DEF Next, vars, CallStep, AdmStep, Environment, Submit, CheckOverlap,
         Insert, Emit, Confirm, ProducerDrop, CallFails, EmitLost, UpdateFind,
         UpdateReload, UpdateWrite, RemoveFind, RemoveDelete, AdmFails
<1> QED BY <1>1, <1>2, <1>3, <1>4, <1>5

(* An administrative call takes up only a row it has found.                *)
LEMMA AdmMoves ==
    ASSUME TypeOK, [Next]_vars, NEW a \in Admins, NEW r \in Requests,
           Edits(a, r)'
    PROVE  Edits(a, r) \/ Present(r)
<1>0. adm \in [Admins -> AdmCall]
  BY DEF TypeOK
<1>1. ASSUME NEW b \in Admins, NEW q \in Requests, NEW i \in Instances,
             UpdateFind(b, q, i)
      PROVE  Edits(a, r) \/ Present(r)
  <2>1. CASE row[q] = Absent
    BY <1>0, <1>1, <2>1 DEF UpdateFind, Edits, AdmDone
  <2>2. CASE row[q] # Absent
    <3>1. CASE b = a
      <4>1. PICK from, to, status :
              adm' = [adm EXCEPT ![a] = Patching(q, i, from, to, status)]
        BY <1>1, <2>2, <3>1 DEF UpdateFind
      <4>2. adm'[a].req = q
        BY <1>0, <4>1 DEF Patching
      <4> QED BY <2>2, <4>2 DEF Edits, Present
    <3>2. CASE b # a
      BY <1>0, <1>1, <2>2, <3>2 DEF UpdateFind, Edits
    <3> QED BY <3>1, <3>2
  <2> QED BY <2>1, <2>2
<1>2. ASSUME NEW b \in Admins, NEW q \in Requests, NEW i \in Instances,
             RemoveFind(b, q, i)
      PROVE  Edits(a, r) \/ Present(r)
  BY <1>0, <1>2 DEF RemoveFind, Edits, Present, AdmDone
<1>3. ASSUME NEW b \in Admins, AdmStep(b) \/ AdmFails(b)
      PROVE  Edits(a, r) \/ Present(r)
  <2>1. CASE UpdateReload(b)
    <3>1. adm[b] \in AdmCall \ {NoAdm, AdmDone}
      BY <1>0, <2>1 DEF UpdateReload, NoAdm, AdmDone
    <3>2. adm'[b].req = adm[b].req
      BY <1>0, <2>1, <3>1 DEF UpdateReload, AdmCall
    <3> QED BY <1>0, <2>1, <3>2 DEF UpdateReload, Edits
  <2>2. CASE UpdateWrite(b) \/ RemoveDelete(b) \/ AdmFails(b)
    BY <1>0, <2>2 DEF UpdateWrite, RemoveDelete, AdmFails, Edits, AdmDone
  <2> QED BY <1>3, <2>1, <2>2 DEF AdmStep
<1>4. ASSUME NEW i \in Instances, Crash(i)
      PROVE  Edits(a, r) \/ Present(r)
  BY <1>0, <1>4 DEF Crash, Edits, AdmDone
<1>5. \/ UNCHANGED adm
      \/ \E b \in Admins, q \in Requests, i \in Instances :
            UpdateFind(b, q, i) \/ RemoveFind(b, q, i)
      \/ \E b \in Admins : AdmStep(b) \/ AdmFails(b)
      \/ \E i \in Instances : Crash(i)
  BY DEF Next, vars, CallStep, Delivery, HandlerStep, Environment, Submit,
         CheckOverlap, Insert, Emit, Confirm, ProducerDrop, CallFails, EmitLost,
         Deliver, Find, Skip, AckSaved, AckInTry, Decide, Write, Catch,
         Republish, AckRetried, DbFails, Drop, BrokerRestart
<1> QED BY <1>1, <1>2, <1>3, <1>4, <1>5 DEF Edits

(* What goes back to the queue was queued or in a handler's hands.         *)
LEMMA RequeuedFrom ==
    ASSUME TypeOK, NEW i \in Instances, NEW e \in Event, Requeued(i)[e] > 0
    PROVE  ready[e] > 0 \/ \E h \in Handlers : Holds(h, e)
<1> SUFFICES ASSUME ~(ready[e] > 0)
             PROVE  \E h \in Handlers : Holds(h, e)
  OBVIOUS
<1>1. ready[e] = 0
  BY DEF TypeOK
<1>2. Cardinality({h \in Unacked(i) : hnd[h].event = e}) # 0
  BY <1>1 DEF Requeued
<1>3. {h \in Unacked(i) : hnd[h].event = e} # {}
  BY <1>2, FS_EmptySet
<1> QED BY <1>3 DEF Unacked, Holds

(* Only Emit makes a request known.                                        *)
LEMMA KnownMoves ==
    ASSUME TypeOK, [Next]_vars, NEW r \in Requests, Known(r)'
    PROVE  Known(r) \/ call[r].pc = "emit"
<1> DEFINE P == Known(r) \/ call[r].pc = "emit"
<1>0. /\ hnd \in [Handlers -> Handler]
      /\ ready \in [Event -> Nat]
      /\ dlq \in [Event -> Nat]
      /\ ready' \in [Event -> Nat]
      /\ dlq' \in [Event -> Nat]
  BY TypeStep DEF TypeOK
<1>1. CASE UNCHANGED <<ready, dlq, hnd>>
  BY <1>1 DEF Known, Queued, Parked, Busy
<1>2. ASSUME NEW q \in Requests, Emit(q)
      PROVE  P
  <2>1. \A e \in Event : ready'[e] > 0 => ready[e] > 0 \/ e.req = q
    BY <1>0, <1>2 DEF Emit, Put
  <2> QED BY <1>2, <2>1 DEF Emit, Known, Queued, Parked, Busy
<1>3. ASSUME NEW h \in Handlers, NEW e \in Event, Deliver(h, e)
      PROVE  P
  <2>1. \A f \in Event : ready'[f] > 0 => ready[f] > 0
    BY <1>0, <1>3 DEF Deliver, Take
  <2>2. hnd'[h].event = e /\ \A g \in Handlers \ {h} : hnd'[g] = hnd[g]
    BY <1>0, <1>3 DEF Deliver
  <2> QED BY <1>3, <2>1, <2>2 DEF Deliver, Known, Queued, Parked, Busy
<1>4. ASSUME NEW h \in Handlers, HandlerStep(h) \/ DbFails(h)
      PROVE  P
  <2>1. hnd[h] \in Handler \ {Idle}
    BY <1>0, <1>4, StepIsBusy DEF Busy, Idle
  <2>2. hnd[h].event \in Event /\ Busy(h)
    BY <2>1 DEF Handler, Busy, Idle
  <2>3. ASSUME NEW g \in Handlers, hnd'[g].pc # "idle"
        PROVE  Busy(g) /\ hnd'[g].event = hnd[g].event
    <3>1. CASE g = h
      <4>1. CASE Find(h)
        BY <1>0, <2>1, <2>2, <3>1, <4>1 DEF Find, Handler, Idle
      <4>2. CASE Skip(h) \/ AckSaved(h)
        BY <1>0, <2>1, <2>2, <2>3, <3>1, <4>2 DEF Skip, AckSaved, AckInTry, Handler, Idle
      <4>3. CASE Decide(h)
        BY <1>0, <2>1, <2>2, <3>1, <4>3 DEF Decide, Handler, Idle
      <4>4. CASE Write(h)
        BY <1>0, <2>1, <2>2, <3>1, <4>4 DEF Write, Handler, Idle
      <4>5. CASE Catch(h) \/ Republish(h) \/ AckRetried(h) \/ DbFails(h)
        BY <1>0, <2>1, <2>2, <2>3, <3>1, <4>5
           DEF Catch, Republish, AckRetried, DbFails, Handler, Idle
      <4> QED BY <1>4, <2>2, <3>1, <4>1, <4>2, <4>3, <4>4, <4>5 DEF HandlerStep
    <3>2. CASE g # h
      BY <1>0, <1>4, <2>3, <3>2
         DEF HandlerStep, Find, Skip, AckSaved, AckInTry, Decide, Write, Catch,
             Republish, AckRetried, DbFails, Busy
    <3> QED BY <3>1, <3>2
  <2>4. \A f \in Event : ready'[f] > 0 => ready[f] > 0 \/ f.req = hnd[h].event.req
    <3>1. CASE Republish(h) /\ hnd[h].held
      <4> DEFINE n == [hnd[h].event EXCEPT !.retries = @ + 1]
      <4>1. n.req = hnd[h].event.req
        BY <2>2 DEF Event
      <4>2. \A f \in Event : ready'[f] > 0 => ready[f] > 0 \/ f = n
        BY <1>0, <3>1 DEF Republish, Put
      <4> QED BY <4>1, <4>2
    <3>2. CASE ~(Republish(h) /\ hnd[h].held)
      BY <1>4, <3>2 DEF HandlerStep, Find, Skip, AckSaved, AckInTry, Decide,
                        Write, Catch, Republish, AckRetried, DbFails
    <3> QED BY <3>1, <3>2
  <2>5. \A f \in Event : dlq'[f] > 0 => dlq[f] > 0 \/ f.req = hnd[h].event.req
    <3>1. CASE Catch(h)
      BY <1>0, <2>2, <3>1 DEF Catch, Put
    <3>2. CASE ~Catch(h)
      BY <1>4, <3>2 DEF HandlerStep, Find, Skip, AckSaved, AckInTry, Decide,
                        Write, Republish, AckRetried, DbFails
    <3> QED BY <3>1, <3>2
  <2> QED BY <2>2, <2>3, <2>4, <2>5 DEF Known, Queued, Parked, Busy
<1>5. ASSUME NEW i \in Instances, Drop(i) \/ Crash(i)
      PROVE  P
  <2>1. \A e \in Event : ready'[e] > 0 =>
            ready[e] > 0 \/ \E h \in Handlers : Busy(h) /\ hnd[h].event = e
    BY <1>5, RequeuedFrom DEF Drop, Crash, Holds
  <2>2. \A h \in Handlers : hnd'[h].pc # "idle" =>
            Busy(h) /\ hnd'[h].event = hnd[h].event
    BY <1>0, <1>5 DEF Drop, Crash, Unacked, Busy, Idle, Handler
  <2>3. UNCHANGED dlq
    BY <1>5 DEF Drop, Crash
  <2> QED BY <2>1, <2>2, <2>3 DEF Known, Queued, Parked, Busy
<1>6. CASE BrokerRestart
  <2>1. \A h \in Handlers : hnd'[h].pc # "idle" =>
            Busy(h) /\ hnd'[h].event = hnd[h].event
    BY <1>0, <1>6 DEF BrokerRestart, Busy, Idle, Handler
  <2>2. \A e \in Event : ready'[e] = 0 /\ dlq'[e] = 0
    BY <1>6 DEF BrokerRestart
  <2> QED BY <2>1, <2>2 DEF Known, Queued, Parked, Busy
<1>7. \/ UNCHANGED <<ready, dlq, hnd>>
      \/ \E q \in Requests : Emit(q)
      \/ \E h \in Handlers, e \in Event : Deliver(h, e)
      \/ \E h \in Handlers : HandlerStep(h) \/ DbFails(h)
      \/ \E i \in Instances : Drop(i) \/ Crash(i)
      \/ BrokerRestart
  BY DEF Next, vars, CallStep, Delivery, AdmStep, Environment, Submit,
         CheckOverlap, Insert, Confirm, ProducerDrop, CallFails, EmitLost,
         UpdateFind, UpdateReload, UpdateWrite, RemoveFind, RemoveDelete,
         AdmFails
<1> QED BY <1>1, <1>2, <1>3, <1>4, <1>5, <1>6, <1>7

-----------------------------------------------------------------------------
(* The rows no administrator wrote.                                        *)

LEMMA InitRowInv == Init => RowInv
<1> SUFFICES ASSUME Init PROVE RowInv
  OBVIOUS
<1>1. TypeOK
  BY InitType
<1>2. \A r \in Requests : ~Known(r)
  BY DEF Init, Known, Queued, Parked, Busy, Idle
<1> QED BY <1>1, <1>2 DEF Init, RowInv, QuietBeforeInsert, RowStays, Snapshots,
           VerdictFollowsDates, Present, Edits, NoAdm, NoCall, Busy, Idle

(* A handler that has a row of a request in hand is a known handler of it. *)
LEMMA BusyHandler ==
    ASSUME TypeOK, NEW h \in Handlers, Busy(h)
    PROVE  /\ hnd[h] \in Handler \ {Idle}
           /\ hnd[h].event \in Event
           /\ hnd[h].event.req \in Requests
           /\ Known(hnd[h].event.req)
<1>1. hnd[h] \in Handler \ {Idle}
  BY DEF TypeOK, Busy, Idle
<1>2. hnd[h].event \in Event
  BY <1>1 DEF Handler
<1> QED BY <1>1, <1>2 DEF Event, Known

(* What a handler's save does to an unedited row: it is decided afterwards,*)
(* on the dates it has; of a row that was decided before at most the       *)
(* processing time changes.                                                *)
LEMMA WriteEffect ==
    ASSUME RowInv, NEW h \in Handlers, Write(h),
           hnd[h].event.req \notin edited
    PROVE  LET r == hnd[h].event.req IN
           /\ row[r] \in Row
           /\ row' = [row EXCEPT ![r] = row'[r]]
           /\ row'[r] \in Row
           /\ SameDates(row'[r], row[r])
           /\ WellDecided(row'[r])
           /\ row'[r].status # "PENDING"
           /\ row[r].status # "PENDING" =>
                 \E now \in Times : row'[r] = [row[r] EXCEPT !.processed = now]
<1> DEFINE r == hnd[h].event.req
<1>1. TypeOK /\ Busy(h) /\ hnd[h].pc = "write"
  BY DEF RowInv, Write, Busy
<1>2. r \in Requests /\ Known(r)
  BY <1>1, BusyHandler
<1>3. Present(r)
  BY <1>2 DEF RowInv, RowStays
<1>4. row[r] \in Row
  BY <1>1, <1>2, <1>3 DEF TypeOK, Present
<1>5. Snapshot(h)
  BY <1>1 DEF RowInv, Snapshots
<1>6. /\ hnd[h].base \in Row
      /\ hnd[h].base # Absent
      /\ SameDates(hnd[h].base, row[r])
      /\ WellDecided(hnd[h].base)
      /\ hnd[h].base.status # "PENDING" => row[r].status # "PENDING"
      /\ SameDates(hnd[h].entity, row[r])
      /\ hnd[h].entity.status = Verdict(row[r].from, row[r].to)
      /\ hnd[h].entity.processed \in Times
  <2>1. \A x \in Row : x # Absent
    BY DEF Row, Absent, Status
  <2> QED BY <1>1, <1>5, <2>1 DEF Snapshot
<1>7. WellDecided(row[r])
  BY <1>2, <1>3 DEF RowInv, VerdictFollowsDates, WellDecided
<1>8. Verdict(row[r].from, row[r].to) # "PENDING"
  BY VerdictType
<1>9. hnd[h].entity \in Row
  BY <1>1 DEF TypeOK
<1> DEFINE m == Merge(row[r], hnd[h].base, hnd[h].entity)
<1>10. row' = [row EXCEPT ![r] = m]
  BY <1>3, <1>6, <1>9 DEF Write, Conflict, Saved, Present
<1>11. m \in Row
  BY <1>4, <1>6, <1>9, MergeColumns
<1>12. m.from = row[r].from /\ m.to = row[r].to
  BY <1>4, <1>6, <1>9, MergeColumns DEF SameDates
<1>13. m.status = IF hnd[h].entity.status # hnd[h].base.status
                  THEN hnd[h].entity.status ELSE row[r].status
  BY <1>4, <1>6, <1>9, MergeColumns
<1>14. m.processed = IF hnd[h].entity.processed # hnd[h].base.processed
                     THEN hnd[h].entity.processed ELSE row[r].processed
  BY <1>4, <1>6, <1>9, MergeColumns
<1> HIDE DEF m
<1>15. m.status = Verdict(row[r].from, row[r].to)
  BY <1>6, <1>7, <1>13 DEF SameDates, WellDecided
<1>16. m.processed \in Times
  <2>1. CASE hnd[h].entity.processed # hnd[h].base.processed
    BY <1>6, <1>14, <2>1
  <2>2. CASE hnd[h].entity.processed = hnd[h].base.processed
    <3>1. hnd[h].base.status # "PENDING"
      BY <1>6, <2>2, NullAssumption, VerdictType DEF WellDecided
    <3>2. row[r].processed # Null
      BY <1>6, <1>7, <3>1 DEF WellDecided
    <3>3. m.processed = row[r].processed
      BY <1>14, <2>2
    <3> QED BY <1>4, <3>2, <3>3 DEF Row
  <2> QED BY <2>1, <2>2
<1>17. row'[r] = m
  BY <1>1, <1>2, <1>10 DEF TypeOK
<1>18. row[r].status # "PENDING" => m = [row[r] EXCEPT !.processed = m.processed]
  BY <1>4, <1>7, <1>11, <1>12, <1>15 DEF WellDecided, Row
<1>19. SameDates(m, row[r]) /\ WellDecided(m) /\ m.status # "PENDING"
  BY <1>8, <1>12, <1>15, <1>16, NullAssumption DEF SameDates, WellDecided
<1> QED BY <1>4, <1>10, <1>11, <1>16, <1>17, <1>18, <1>19

(* A step leaves an unedited row alone, inserts it, decides it, or writes  *)
(* another processing time to a row that has been decided.                 *)
LEMMA UneditedRow ==
    ASSUME RowInv, [Next]_vars, NEW r \in Requests, r \notin edited'
    PROVE  /\ r \notin edited
           /\ \/ row'[r] = row[r]
              \/ Insert(r) /\ row[r] = Absent /\ row'[r] \in Row
                           /\ WellDecided(row'[r])
              \/ /\ Present(r)
                 /\ row'[r] \in Row
                 /\ SameDates(row'[r], row[r])
                 /\ WellDecided(row'[r])
                 /\ row'[r].status # "PENDING"
                 /\ \E h \in Handlers : Write(h) /\ hnd[h].event.req = r
                 /\ row[r].status # "PENDING" =>
                       \E now \in Times :
                          row'[r] = [row[r] EXCEPT !.processed = now]
<1> DEFINE P == /\ r \notin edited
                /\ \/ row'[r] = row[r]
                   \/ Insert(r) /\ row[r] = Absent /\ row'[r] \in Row
                                /\ WellDecided(row'[r])
                   \/ /\ Present(r)
                      /\ row'[r] \in Row
                      /\ SameDates(row'[r], row[r])
                      /\ WellDecided(row'[r])
                      /\ row'[r].status # "PENDING"
                      /\ \E h \in Handlers : Write(h) /\ hnd[h].event.req = r
                      /\ row[r].status # "PENDING" =>
                            \E now \in Times :
                               row'[r] = [row[r] EXCEPT !.processed = now]
<1>0. TypeOK /\ row \in [Requests -> Row \cup {Absent}]
  BY DEF RowInv, TypeOK
<1>1. CASE UNCHANGED <<row, edited>>
  BY <1>1
<1>2. ASSUME NEW q \in Requests, Insert(q)
      PROVE  P
  <2>1. CASE q = r
    <3>1. row[r] = Absent
      BY <1>2, <2>1 DEF Insert, RowInv, QuietBeforeInsert
    <3>2. row'[r] = Booked(call[r].from, call[r].to)
      BY <1>0, <1>2, <2>1 DEF Insert
    <3>3. call[r].from \in Dates /\ call[r].to \in Dates
      BY <1>0, <1>2, <2>1 DEF Insert, TypeOK, Call, NoCall, CallEnded
    <3> QED BY <1>2, <2>1, <3>1, <3>2, <3>3, BookedType DEF Insert, WellDecided
  <2>2. CASE q # r
    BY <1>0, <1>2, <2>2 DEF Insert
  <2> QED BY <2>1, <2>2
<1>3. ASSUME NEW h \in Handlers, Write(h)
      PROVE  P
  <2>1. UNCHANGED edited
    BY <1>3 DEF Write
  <2>2. CASE hnd[h].event.req = r
    BY <1>3, <2>1, <2>2, WriteEffect DEF Present, Row, Absent, Status
  <2>3. CASE hnd[h].event.req # r
    BY <1>0, <1>3, <2>1, <2>3 DEF Write
  <2> QED BY <2>2, <2>3
<1>4. ASSUME NEW a \in Admins, UpdateWrite(a) \/ RemoveDelete(a)
      PROVE  P
  BY <1>0, <1>4 DEF UpdateWrite, RemoveDelete
<1> QED BY <1>1, <1>2, <1>3, <1>4, RowMoves

LEMMA QuietStep ==
    ASSUME RowInv, [Next]_vars
    PROVE  QuietBeforeInsert'
<1> SUFFICES ASSUME NEW r \in Requests, call'[r].pc \in {"idle", "check", "insert"}
             PROVE  /\ row'[r] = Absent
                    /\ r \notin edited'
                    /\ ~Known(r)'
                    /\ \A a \in Admins : ~Edits(a, r)'
  BY DEF QuietBeforeInsert
<1>0. TypeOK
  BY DEF RowInv
<1>1. call[r].pc \in {"idle", "check", "insert"} /\ ~Insert(r)
  BY <1>0, CallMoves
<1>2. /\ row[r] = Absent
      /\ r \notin edited
      /\ ~Known(r)
      /\ \A a \in Admins : ~Edits(a, r)
  BY <1>1 DEF RowInv, QuietBeforeInsert
<1>3. ~Known(r)'
  BY <1>0, <1>1, <1>2, KnownMoves
<1>4. \A a \in Admins : ~Edits(a, r)'
  BY <1>0, <1>2, AdmMoves DEF Present
<1>5. r \notin edited'
  <2>1. ASSUME NEW a \in Admins, UpdateWrite(a) \/ RemoveDelete(a)
        PROVE  r \notin edited'
    BY <1>2, <2>1 DEF UpdateWrite, RemoveDelete, Edits
  <2> QED BY <1>2, <2>1, RowMoves DEF Insert, Write
<1>6. row'[r] = Absent
  BY <1>1, <1>2, <1>5, UneditedRow DEF Present
<1> QED BY <1>3, <1>4, <1>5, <1>6

LEMMA RowStaysStep ==
    ASSUME RowInv, [Next]_vars
    PROVE  RowStays'
<1> SUFFICES ASSUME NEW r \in Requests, r \notin edited',
                    Known(r)' \/ call'[r].pc \in {"emit", "confirm"}
             PROVE  Present(r)'
  BY DEF RowStays
<1>1. Known(r) \/ call[r].pc \in {"emit", "confirm"} \/ Insert(r)
  BY CallMoves, KnownMoves DEF RowInv
<1>2. r \notin edited
  BY UneditedRow
<1>3. Present(r) \/ Insert(r)
  BY <1>1, <1>2 DEF RowInv, RowStays
<1>4. Insert(r) => row'[r] # Absent
  BY DEF Insert, Booked, RowInv, TypeOK, Absent
<1> QED BY <1>3, <1>4, UneditedRow DEF Present, Row, Absent, Status

LEMMA VerdictStep ==
    ASSUME RowInv, [Next]_vars
    PROVE  VerdictFollowsDates'
<1> SUFFICES ASSUME NEW r \in Requests, r \notin edited', row'[r] # Absent
             PROVE  WellDecided(row'[r])
  BY DEF VerdictFollowsDates, WellDecided, Present
<1>1. r \notin edited
  BY UneditedRow
<1>2. Present(r) => WellDecided(row[r])
  BY <1>1 DEF RowInv, VerdictFollowsDates, WellDecided
<1> QED BY <1>2, UneditedRow DEF Present

(* A snapshot stays true of an unedited row that other steps decide.       *)
LEMMA SnapshotKept ==
    ASSUME RowInv, [Next]_vars, NEW h \in Handlers,
           Busy(h), hnd[h].event.req \notin edited',
           /\ hnd'[h].pc = hnd[h].pc
           /\ hnd'[h].event = hnd[h].event
           /\ hnd'[h].entity = hnd[h].entity
           /\ hnd'[h].base = hnd[h].base
    PROVE  Snapshot(h)'
<1> DEFINE r == hnd[h].event.req
<1>1. r \in Requests /\ Known(r)
  BY BusyHandler DEF RowInv
<1>2. r \notin edited
  BY <1>1, UneditedRow
<1>3. Snapshot(h)
  BY <1>2 DEF RowInv, Snapshots
<1>4. Present(r)
  BY <1>1, <1>2 DEF RowInv, RowStays
<1>5. SameDates(row'[r], row[r])
  BY <1>1, <1>4, UneditedRow DEF SameDates, Present
<1>6. row[r].status # "PENDING" => row'[r].status # "PENDING"
  BY <1>1, <1>4, UneditedRow DEF Present
<1> QED BY <1>3, <1>5, <1>6 DEF Snapshot, SameDates

LEMMA SnapshotsStep ==
    ASSUME RowInv, [Next]_vars
    PROVE  Snapshots'
<1> SUFFICES ASSUME NEW h \in Handlers, hnd'[h].pc # "idle",
                    hnd'[h].event.req \notin edited'
             PROVE  Snapshot(h)'
  BY DEF Snapshots, Busy
<1>0. TypeOK /\ hnd \in [Handlers -> Handler]
  BY DEF RowInv, TypeOK
<1>1. CASE hnd'[h] = hnd[h]
  BY <1>1, SnapshotKept DEF Busy
<1>2. CASE Busy(h) /\ hnd'[h] = [hnd[h] EXCEPT !.held = FALSE]
  <2>1. hnd[h] \in Handler \ {Idle}
    BY <1>0, <1>2, BusyHandler
  <2>2. /\ hnd'[h].pc = hnd[h].pc
        /\ hnd'[h].event = hnd[h].event
        /\ hnd'[h].entity = hnd[h].entity
        /\ hnd'[h].base = hnd[h].base
    BY <1>2, <2>1 DEF Handler
  <2> QED BY <1>2, <2>2, SnapshotKept
<1>3. CASE Delivery(h)
  BY <1>0, <1>3 DEF Delivery, Deliver, Snapshot
<1>4. CASE Skip(h) \/ AckSaved(h) \/ Catch(h) \/ Republish(h) \/ AckRetried(h)
           \/ DbFails(h)
  <2>1. hnd'[h].pc \in {"caught", "backoff", "republished"}
    BY <1>0, <1>4 DEF Skip, AckSaved, AckInTry, Catch, Republish, AckRetried,
                      DbFails, Handler, Idle
  <2> QED BY <2>1 DEF Snapshot
<1>5. CASE Find(h)
  <2> DEFINE r == hnd[h].event.req
  <2>1. Busy(h) /\ hnd[h] \in Handler \ {Idle} /\ r \in Requests /\ Known(r)
    BY <1>0, <1>5, BusyHandler DEF Find, Busy
  <2>2. /\ hnd'[h].pc = "found"
        /\ hnd'[h].event = hnd[h].event
        /\ hnd'[h].entity = row[r]
    BY <1>0, <1>5, <2>1 DEF Find, Handler
  <2>3. UNCHANGED <<row, edited>>
    BY <1>5 DEF Find
  <2>4. Present(r) /\ row[r] \in Row
    BY <1>0, <2>1, <2>2, <2>3 DEF RowInv, RowStays, TypeOK, Present
  <2>5. WellDecided(row[r])
    BY <2>1, <2>2, <2>3, <2>4 DEF RowInv, VerdictFollowsDates, WellDecided
  <2> QED BY <2>2, <2>3, <2>4, <2>5 DEF Snapshot, SameDates, WellDecided
<1>6. CASE Decide(h)
  <2> DEFINE r == hnd[h].event.req
  <2>1. Busy(h) /\ hnd[h] \in Handler \ {Idle} /\ r \in Requests /\ Known(r)
    BY <1>0, <1>6, BusyHandler DEF Decide, Busy
  <2>2. PICK now \in Times :
           /\ hnd'[h].pc = "write"
           /\ hnd'[h].event = hnd[h].event
           /\ hnd'[h].base = row[r]
           /\ hnd'[h].entity = Decided(hnd[h].entity, now)
    BY <1>0, <1>6, <2>1 DEF Decide, Handler
  <2>3. UNCHANGED <<row, edited>>
    BY <1>6 DEF Decide
  <2>4. Present(r) /\ row[r] \in Row
    BY <1>0, <2>1, <2>2, <2>3 DEF RowInv, RowStays, TypeOK, Present
  <2>5. WellDecided(row[r])
    BY <2>1, <2>2, <2>3, <2>4 DEF RowInv, VerdictFollowsDates, WellDecided
  <2>6. hnd[h].entity \in Row /\ SameDates(hnd[h].entity, row[r])
    BY <1>6, <2>1, <2>2, <2>3 DEF RowInv, Snapshots, Snapshot, Decide
  <2>7. /\ hnd'[h].entity.from = row[r].from
        /\ hnd'[h].entity.to = row[r].to
        /\ hnd'[h].entity.status = Verdict(row[r].from, row[r].to)
        /\ hnd'[h].entity.processed \in Times
    BY <2>2, <2>6, DecidedType DEF SameDates
  <2> QED BY <2>2, <2>3, <2>4, <2>5, <2>7 DEF Snapshot, SameDates, WellDecided
<1>7. CASE Write(h)
  <2> DEFINE r == hnd[h].event.req
  <2>1. Busy(h) /\ hnd[h] \in Handler \ {Idle} /\ r \in Requests
    BY <1>0, <1>7, BusyHandler DEF Write, Busy
  <2>2. /\ hnd'[h].pc \in {"saved", "caught"}
        /\ hnd'[h].event = hnd[h].event
    BY <1>0, <1>7, <2>1 DEF Write, Handler
  <2>3. UNCHANGED edited
    BY <1>7 DEF Write
  <2>4. row'[r].status # "PENDING"
    BY <1>7, <2>2, <2>3, WriteEffect
  <2> QED BY <2>2, <2>4 DEF Snapshot
<1>8. CASE hnd'[h] = Idle
  BY <1>8 DEF Idle
<1> QED BY <1>0, <1>1, <1>2, <1>3, <1>4, <1>5, <1>6, <1>7, <1>8, HandlerMoves
        DEF HandlerStep

LEMMA RowStep == RowInv /\ [Next]_vars => RowInv'
<1> SUFFICES ASSUME RowInv, [Next]_vars PROVE RowInv'
  OBVIOUS
<1>1. TypeOK'
  BY TypeStep DEF RowInv
<1> QED BY <1>1, QuietStep, RowStaysStep, SnapshotsStep, VerdictStep DEF RowInv

LEMMA RowInvariant == Spec => []RowInv
BY InitRowInv, RowStep, PTL DEF Spec

(* However often an event is delivered, a request no administrator wrote is*)
(* untouched or carries the verdict of its own dates.                      *)
THEOREM VerdictsAreSound == Spec => []VerdictFollowsDates
<1>1. RowInv => VerdictFollowsDates
  BY DEF RowInv
<1> QED BY <1>1, RowInvariant, PTL

-----------------------------------------------------------------------------
(* Nothing stalls in silence.                                              *)

(* The handlers of a step other than h keep what they hold.                *)
LEMMA OthersHold ==
    ASSUME TypeOK, NEW h \in Handlers,
           Delivery(h) \/ HandlerStep(h) \/ DbFails(h),
           NEW g \in Handlers, g # h, NEW e \in Event, Holds(g, e)
    PROVE  Holds(g, e)'
<1>1. CASE Decide(h)
  BY <1>1, DecideEffect DEF TypeOK, Holds, Busy
<1>2. CASE Delivery(h) \/ Find(h) \/ Skip(h) \/ AckSaved(h) \/ Write(h)
  BY <1>2 DEF TypeOK, Delivery, Deliver, Find, Skip, AckSaved, AckInTry, Write,
              Holds, Busy
<1>3. CASE Catch(h) \/ Republish(h) \/ AckRetried(h) \/ DbFails(h)
  BY <1>3 DEF TypeOK, Catch, Republish, AckRetried, DbFails, Holds, Busy
<1> QED BY <1>1, <1>2, <1>3 DEF HandlerStep

(* How a copy of r, retried at least k times, can vanish: the broker       *)
(* restarts, or the handler that holds it acks it.                         *)
LEMMA CopyMoves ==
    ASSUME TypeOK, [Next]_vars, NEW r \in Requests, NEW k \in Nat, Copy(r, k)
    PROVE  \/ Copy(r, k)'
           \/ r \in stranded'
           \/ \E h \in Handlers, e \in Event :
                 /\ Holds(h, e) /\ e.req = r /\ e.retries >= k
                 /\ Skip(h) \/ AckSaved(h) \/ AckRetried(h)
<1> DEFINE P == \/ Copy(r, k)'
                \/ r \in stranded'
                \/ \E h \in Handlers, e \in Event :
                      /\ Holds(h, e) /\ e.req = r /\ e.retries >= k
                      /\ Skip(h) \/ AckSaved(h) \/ AckRetried(h)
<1> DEFINE Kept(e) == ready[e] > 0 \/ dlq[e] > 0 \/ \E h \in Handlers : Holds(h, e)
<1>0. /\ hnd \in [Handlers -> Handler]
      /\ ready \in [Event -> Nat]
      /\ dlq \in [Event -> Nat]
  BY DEF TypeOK
<1>k. PICK e \in Event : e.req = r /\ e.retries >= k /\ Kept(e)
  BY DEF Copy
<1>s. SUFFICES Kept(e)' \/ r \in stranded' \/
               \E h \in Handlers : Holds(h, e) /\ (Skip(h) \/ AckSaved(h) \/ AckRetried(h))
  BY <1>k DEF Copy
<1>1. CASE UNCHANGED <<ready, dlq, hnd>>
  BY <1>k, <1>1 DEF Holds, Busy
<1>2. ASSUME NEW q \in Requests, Emit(q)
      PROVE  Kept(e)'
  <2>1. ready[e] > 0 => ready'[e] > 0
    BY <1>0, <1>2 DEF Emit, Put
  <2> QED BY <1>0, <1>2, <1>k, <2>1 DEF Emit, Holds, Busy
<1>3. ASSUME NEW h \in Handlers, NEW f \in Event, Deliver(h, f)
      PROVE  Kept(e)'
  <2>1. Holds(h, f)'
    BY <1>0, <1>3 DEF Deliver, Holds, Busy
  <2>2. e # f => ready'[e] = ready[e]
    BY <1>0, <1>3 DEF Deliver, Take
  <2>3. \A g \in Handlers : Holds(g, e) => Holds(g, e)'
    BY <1>0, <1>3 DEF Deliver, Holds, Busy, Idle
  <2> QED BY <1>3, <1>k, <2>1, <2>2, <2>3 DEF Deliver
<1>4. ASSUME NEW h \in Handlers, Find(h) \/ Decide(h) \/ Write(h) \/ DbFails(h)
      PROVE  Kept(e)'
  <2>1. hnd[h] \in Handler \ {Idle}
    BY <1>0, <1>4, StepIsBusy DEF HandlerStep, Busy, Idle
  <2>2. Holds(h, e) => Holds(h, e)'
    <3>1. CASE Find(h)
      BY <1>0, <2>1, <3>1 DEF Find, Handler, Holds, Busy
    <3>2. CASE Decide(h)
      BY <1>0, <2>1, <3>2 DEF Decide, Handler, Holds, Busy
    <3>3. CASE Write(h)
      BY <1>0, <2>1, <3>3 DEF Write, Handler, Holds, Busy
    <3>4. CASE DbFails(h)
      BY <1>0, <2>1, <3>4 DEF DbFails, Handler, Holds, Busy
    <3> QED BY <1>4, <3>1, <3>2, <3>3, <3>4
  <2>3. UNCHANGED <<ready, dlq>>
    BY <1>4 DEF Find, Decide, Write, DbFails
  <2> QED BY <1>4, <1>k, <2>2, <2>3, OthersHold DEF HandlerStep
<1>5. ASSUME NEW h \in Handlers, Skip(h) \/ AckSaved(h) \/ AckRetried(h)
      PROVE  Kept(e)' \/ Holds(h, e)
  <2>1. UNCHANGED <<ready, dlq>>
    BY <1>5 DEF Skip, AckSaved, AckInTry, AckRetried
  <2> QED BY <1>5, <1>k, <2>1, OthersHold DEF HandlerStep
<1>6. ASSUME NEW h \in Handlers, Catch(h)
      PROVE  Kept(e)'
  <2>1. hnd[h] \in Handler \ {Idle} /\ hnd[h].event \in Event
    BY <1>0, <1>6 DEF Catch, Idle, Handler
  <2>2. UNCHANGED ready /\ (dlq[e] > 0 => dlq'[e] > 0)
    BY <1>0, <1>6 DEF Catch, Put
  <2>3. Holds(h, e) => Holds(h, e)' \/ dlq'[e] > 0
    BY <1>0, <1>6, <2>1 DEF Catch, Put, Holds, Busy, Handler
  <2> QED BY <1>0, <1>6, <1>k, <2>2, <2>3, OthersHold DEF HandlerStep
<1>7. ASSUME NEW h \in Handlers, Republish(h)
      PROVE  Kept(e)'
  <2>1. hnd[h] \in Handler \ {Idle}
    BY <1>0, <1>7 DEF Republish, Idle
  <2>2. UNCHANGED dlq /\ (ready[e] > 0 => ready'[e] > 0)
    BY <1>0, <1>7 DEF Republish, Put
  <2>3. Holds(h, e) => Holds(h, e)'
    BY <1>0, <1>7, <2>1 DEF Republish, Holds, Busy, Handler
  <2> QED BY <1>0, <1>7, <1>k, <2>2, <2>3, OthersHold DEF HandlerStep
<1>8. ASSUME NEW i \in Instances, Drop(i) \/ Crash(i)
      PROVE  Kept(e)'
  <2>1. UNCHANGED dlq /\ (ready[e] > 0 => ready'[e] > 0)
    BY <1>0, <1>8, RequeuedFacts DEF Drop, Crash
  <2>2. ASSUME NEW h \in Handlers, Holds(h, e)
        PROVE  Kept(e)'
    <3>1. CASE h \in Unacked(i)
      BY <1>8, <2>2, <3>1, RequeuedFacts DEF Drop, Crash, Holds
    <3>2. CASE h \notin Unacked(i)
      <4>1. hnd'[h] = hnd[h]
        BY <1>8, <2>2, <3>2 DEF Drop, Crash, Unacked, Holds
      <4> QED BY <2>2, <4>1 DEF Holds, Busy
    <3> QED BY <3>1, <3>2
  <2> QED BY <1>0, <1>k, <2>1, <2>2
<1>9. CASE BrokerRestart
  BY <1>9, <1>k DEF BrokerRestart, Queued, InHand, Parked
<1>10. \/ UNCHANGED <<ready, dlq, hnd>>
       \/ \E q \in Requests : Emit(q)
       \/ \E h \in Handlers, f \in Event : Deliver(h, f)
       \/ \E h \in Handlers : HandlerStep(h) \/ DbFails(h)
       \/ \E i \in Instances : Drop(i) \/ Crash(i)
       \/ BrokerRestart
  BY DEF Next, vars, CallStep, Delivery, AdmStep, Environment, Submit,
         CheckOverlap, Insert, Confirm, ProducerDrop, CallFails, EmitLost,
         UpdateFind, UpdateReload, UpdateWrite, RemoveFind, RemoveDelete,
         AdmFails
<1> HIDE DEF Kept
<1> QED BY <1>1, <1>2, <1>3, <1>4, <1>5, <1>6, <1>7, <1>8, <1>9, <1>10
        DEF HandlerStep

LEMMA InitStallInv == Init => StallInv
BY InitRowInv DEF Init, StallInv, BackoffAllowed, EventKept, CopyAhead, Waiting,
                  Idle, Absent

LEMMA BackoffStep ==
    ASSUME TypeOK, BackoffAllowed, [Next]_vars
    PROVE  BackoffAllowed'
<1> SUFFICES ASSUME NEW h \in Handlers, hnd'[h].pc = "backoff"
             PROVE  ShouldRetry(hnd'[h].event.retries + 1)
  BY DEF BackoffAllowed
<1>0. hnd \in [Handlers -> Handler]
  BY DEF TypeOK
<1>1. hnd[h].pc = "backoff" => ShouldRetry(hnd[h].event.retries + 1)
  BY DEF BackoffAllowed
<1>2. CASE hnd'[h] = hnd[h]
  BY <1>1, <1>2
<1>3. CASE Busy(h) /\ hnd'[h] = [hnd[h] EXCEPT !.held = FALSE]
  <2>1. hnd[h] \in Handler \ {Idle}
    BY <1>0, <1>3, BusyHandler
  <2>2. hnd'[h].pc = hnd[h].pc /\ hnd'[h].event = hnd[h].event
    BY <1>3, <2>1 DEF Handler
  <2> QED BY <1>1, <2>2
<1>4. CASE Catch(h)
  <2>1. hnd[h] \in Handler \ {Idle}
    BY <1>0, <1>4 DEF Catch, Idle
  <2>2. /\ ShouldRetry(hnd[h].event.retries + 1)
        /\ hnd'[h].event = hnd[h].event
    BY <1>0, <1>4, <2>1 DEF Catch, Handler, Idle
  <2> QED BY <2>2
<1>5. CASE Delivery(h) \/ Find(h) \/ Skip(h) \/ Decide(h) \/ Write(h) \/ AckSaved(h)
           \/ Republish(h) \/ AckRetried(h) \/ DbFails(h)
  <2>1. CASE Delivery(h)
    BY <1>0, <2>1 DEF Delivery, Deliver
  <2>2. CASE Find(h) \/ Decide(h)
    <3>1. hnd[h] \in Handler \ {Idle}
      BY <1>0, <2>2 DEF Find, Decide, Idle
    <3> QED BY <1>0, <2>2, <3>1 DEF Find, Decide, Handler
  <2>3. CASE Skip(h) \/ AckSaved(h) \/ Write(h) \/ Republish(h)
             \/ AckRetried(h) \/ DbFails(h)
    BY <1>0, <2>3 DEF Skip, AckSaved, AckInTry, Write, Republish, AckRetried,
                      DbFails, Handler, Idle
  <2> QED BY <1>5, <2>1, <2>2, <2>3
<1>6. CASE hnd'[h] = Idle
  BY <1>6 DEF Idle
<1> QED BY <1>0, <1>2, <1>3, <1>4, <1>5, <1>6, HandlerMoves DEF HandlerStep

(* A request that waits after a step waited before, or was just inserted.  *)
LEMMA WaitingMoves ==
    ASSUME RowInv, [Next]_vars, NEW r \in Requests, Waiting(r)'
    PROVE  Waiting(r) \/ Insert(r)
<1>1. r \notin edited' /\ r \notin stranded' /\ row'[r].status = "PENDING"
  BY DEF Waiting
<1>2. stranded \subseteq stranded'
  BY DEF Next, vars, CallStep, Delivery, HandlerStep, AdmStep, Environment,
         Submit, CheckOverlap, Insert, Emit, Confirm, ProducerDrop, CallFails,
         EmitLost, Deliver, Find, Skip, AckSaved, AckInTry, Decide, Write, Catch,
         Republish, AckRetried, DbFails, UpdateFind, UpdateReload, UpdateWrite,
         RemoveFind, RemoveDelete, AdmFails, Drop, Crash, BrokerRestart
<1> QED BY <1>1, <1>2, UneditedRow DEF Waiting

(* The acks of a handler whose request still waits: only the ack of an     *)
(* original whose copy has been published, and that copy is kept.          *)
LEMMA AckLeavesCopy ==
    ASSUME StallInv, [Next]_vars, NEW h \in Handlers, NEW e \in Event,
           Holds(h, e), Waiting(e.req)',
           Skip(h) \/ AckSaved(h) \/ AckRetried(h)
    PROVE  Copy(e.req, e.retries + 1)'
<1> DEFINE r == e.req
           k == e.retries + 1
<1>0. /\ RowInv
      /\ TypeOK
      /\ hnd \in [Handlers -> Handler]
      /\ r \in Requests
      /\ Busy(h)
      /\ hnd[h].event = e
      /\ e.retries \in Nat
  BY DEF StallInv, RowInv, TypeOK, Event, Holds
<1>1. Waiting(r)
  BY <1>0, WaitingMoves DEF Skip, AckSaved, AckInTry, AckRetried, Waiting
<1>2. r \notin edited /\ row[r].status = "PENDING"
  BY <1>1 DEF Waiting
<1>3. Snapshot(h)
  BY <1>0, <1>2 DEF RowInv, Snapshots
<1>4. AckRetried(h)
  BY <1>0, <1>2, <1>3 DEF Skip, AckSaved, Snapshot
<1>5. Copy(r, k)
  BY <1>0, <1>1, <1>4 DEF StallInv, CopyAhead, AckRetried
<1>6. PICK f \in Event :
        /\ f.req = r
        /\ f.retries >= k
        /\ ready[f] > 0 \/ dlq[f] > 0 \/ \E g \in Handlers : Holds(g, f)
  BY <1>5 DEF Copy
<1>7. f # e
  BY <1>0, <1>6 DEF Event
<1>8. UNCHANGED <<ready, dlq>>
  BY <1>4 DEF AckRetried
<1>9. \A g \in Handlers : Holds(g, f) => Holds(g, f)'
  BY <1>0, <1>4, <1>7, OthersHold DEF HandlerStep, Holds
<1> QED BY <1>6, <1>8, <1>9 DEF Copy

(* So a copy of a request that still waits is outlived by one of its kind. *)
LEMMA CopyKept ==
    ASSUME StallInv, [Next]_vars, NEW r \in Requests, NEW k \in Nat,
           Copy(r, k), Waiting(r)'
    PROVE  Copy(r, k)'
<1>0. TypeOK
  BY DEF StallInv, RowInv
<1>1. r \notin stranded'
  BY DEF Waiting
<1>2. ASSUME NEW h \in Handlers, NEW e \in Event, Holds(h, e), e.req = r,
             e.retries >= k, Skip(h) \/ AckSaved(h) \/ AckRetried(h)
      PROVE  Copy(r, k)'
  <2>1. Copy(r, e.retries + 1)'
    BY <1>2, AckLeavesCopy
  <2>2. \A f \in Event : f.retries \in Int
    BY DEF Event
  <2>3. \A f \in Event : f.retries >= e.retries + 1 => f.retries >= k
    BY <1>2, <2>2
  <2> QED BY <2>1, <2>3 DEF Copy
<1> QED BY <1>0, <1>1, <1>2, CopyMoves

LEMMA EmitMoves ==
    ASSUME TypeOK, [Next]_vars, NEW r \in Requests, call[r].pc = "emit",
           r \notin stranded'
    PROVE  call'[r].pc = "emit" \/ Emit(r)
<1>0. call \in [Requests -> Call]
  BY DEF TypeOK
<1>1. ASSUME NEW q \in Requests, NEW i \in Instances, NEW from \in Dates,
             NEW to \in Dates, Submit(q, i, from, to)
      PROVE  call'[r].pc = "emit"
  BY <1>0, <1>1 DEF Submit, NoCall
<1>2. ASSUME NEW q \in Requests,
             CallStep(q) \/ ProducerDrop(q) \/ CallFails(q) \/ EmitLost(q)
      PROVE  call'[r].pc = "emit" \/ Emit(r)
  BY <1>0, <1>2 DEF CallStep, CheckOverlap, Insert, Emit, Confirm, ProducerDrop,
                    CallFails, EmitLost
<1>3. ASSUME NEW i \in Instances, Crash(i)
      PROVE  call'[r].pc = "emit"
  BY <1>3 DEF Crash
<1>4. CASE BrokerRestart
  BY <1>4 DEF BrokerRestart
<1> QED BY <1>1, <1>2, <1>3, <1>4, CallMovers

LEMMA EventKeptStep ==
    ASSUME StallInv, [Next]_vars
    PROVE  EventKept'
<1> SUFFICES ASSUME NEW r \in Requests, Waiting(r)'
             PROVE  call'[r].pc = "emit" \/ Copy(r, 0)'
  BY DEF EventKept
<1>0. RowInv /\ TypeOK
  BY DEF StallInv, RowInv
<1>1. CASE Insert(r)
  BY <1>0, <1>1 DEF Insert, TypeOK, Call, NoCall, CallEnded
<1>2. CASE Waiting(r) /\ Copy(r, 0)
  BY <1>2, CopyKept
<1>3. CASE Waiting(r) /\ call[r].pc = "emit"
  <2>1. call'[r].pc = "emit" \/ Emit(r)
    BY <1>0, <1>3, EmitMoves DEF Waiting
  <2>2. ASSUME Emit(r)
        PROVE  Copy(r, 0)'
    <3> DEFINE e == [req |-> r, retries |-> 0]
    <3>1. e \in Event /\ e.req = r /\ e.retries >= 0
      BY FirstEvent
    <3>2. ready'[e] > 0
      BY <1>0, <2>2, <3>1 DEF Emit, Put, TypeOK
    <3> QED BY <3>1, <3>2 DEF Copy
  <2> QED BY <2>1, <2>2
<1> QED BY <1>0, <1>1, <1>2, <1>3, WaitingMoves DEF StallInv, EventKept

LEMMA CopyAheadStep ==
    ASSUME StallInv, [Next]_vars
    PROVE  CopyAhead'
<1> SUFFICES ASSUME NEW h \in Handlers, NEW r, NEW k,
                    r = hnd'[h].event.req,
                    k = hnd'[h].event.retries + 1,
                    hnd'[h].pc = "republished",
                    Waiting(r)'
             PROVE  Copy(r, k)'
  BY DEF CopyAhead, Waiting, Copy
<1>0. /\ RowInv
      /\ TypeOK
      /\ hnd \in [Handlers -> Handler]
      /\ ready \in [Event -> Nat]
  BY DEF StallInv, RowInv, TypeOK
<1>1. ASSUME hnd'[h].pc = hnd[h].pc, hnd'[h].event = hnd[h].event
      PROVE  Copy(r, k)'
  <2>0. r = hnd[h].event.req /\ k = hnd[h].event.retries + 1
    BY <1>1
  <2>1. Busy(h)
    BY <1>1 DEF Busy
  <2>2. r \in Requests /\ Known(r) /\ k \in Nat
    BY <1>0, <2>0, <2>1, BusyHandler DEF Event
  <2>3. ~Insert(r)
    BY <1>0, <2>2 DEF Insert, RowInv, QuietBeforeInsert
  <2>4. Waiting(r)
    BY <1>0, <2>2, <2>3, WaitingMoves
  <2>5. Copy(r, k)
    BY <1>1, <2>0, <2>4 DEF StallInv, CopyAhead
  <2> QED BY <2>2, <2>5, CopyKept
<1>2. CASE Busy(h) /\ hnd'[h] = [hnd[h] EXCEPT !.held = FALSE]
  <2>1. hnd[h] \in Handler \ {Idle}
    BY <1>0, <1>2, BusyHandler
  <2>2. hnd'[h].pc = hnd[h].pc /\ hnd'[h].event = hnd[h].event
    BY <1>2, <2>1 DEF Handler
  <2> QED BY <1>1, <2>2
<1>3. CASE Republish(h)
  <2>1. hnd[h] \in Handler \ {Idle} /\ hnd[h].event \in Event
    BY <1>0, <1>3 DEF Republish, Idle, Handler
  <2>2. hnd[h].held /\ hnd'[h].event = hnd[h].event
    BY <1>0, <1>3, <2>1 DEF Republish, Idle, Handler
  <2>3. ShouldRetry(hnd[h].event.retries + 1)
    BY <1>3 DEF StallInv, BackoffAllowed, Republish
  <2> DEFINE e == [hnd[h].event EXCEPT !.retries = @ + 1]
  <2>4. /\ e \in Event
        /\ e.req = hnd[h].event.req
        /\ e.retries = hnd[h].event.retries + 1
    BY <2>1, <2>3, NextEvent
  <2>5. ready'[e] > 0
    BY <1>0, <1>3, <2>2, <2>4 DEF Republish, Put
  <2>6. e.retries >= hnd[h].event.retries + 1
    BY <2>1, <2>4 DEF Event
  <2> HIDE DEF e
  <2> QED BY <2>2, <2>4, <2>5, <2>6 DEF Copy
<1>4. CASE Delivery(h)
  BY <1>0, <1>4 DEF Delivery, Deliver
<1>5. CASE Find(h) \/ Decide(h)
  <2>1. hnd[h] \in Handler \ {Idle}
    BY <1>0, <1>5 DEF Find, Decide, Idle
  <2> QED BY <1>0, <1>5, <2>1 DEF Find, Decide, Handler
<1>6. CASE Skip(h) \/ AckSaved(h) \/ Write(h) \/ Catch(h) \/ AckRetried(h)
           \/ DbFails(h)
  BY <1>0, <1>6 DEF Skip, AckSaved, AckInTry, Write, Catch, AckRetried, DbFails,
                    Handler, Idle
<1>7. CASE hnd'[h] = Idle
  BY <1>7 DEF Idle
<1> QED BY <1>0, <1>1, <1>2, <1>3, <1>4, <1>5, <1>6, <1>7, HandlerMoves
        DEF HandlerStep

LEMMA StallStep == StallInv /\ [Next]_vars => StallInv'
<1> SUFFICES ASSUME StallInv, [Next]_vars PROVE StallInv'
  OBVIOUS
<1>1. RowInv'
  BY RowStep DEF StallInv
<1> QED BY <1>1, BackoffStep, EventKeptStep, CopyAheadStep DEF StallInv, RowInv

(* A PENDING request always has its event somewhere, unless an outage has  *)
(* swallowed it or an administrator has written the row: the consumer never*)
(* acks the last message of a request it has not decided.                  *)
THEOREM NothingStallsSilently == Spec => []NoSilentStall
<1>1. StallInv => NoSilentStall
  BY DEF StallInv, EventKept, Copy, Waiting, NoSilentStall, Queued, InHand, Parked
<1> QED BY <1>1, InitStallInv, StallStep, PTL DEF Spec

-----------------------------------------------------------------------------
(* Days are booked twice only by a race.                                   *)

LEMMA OverlapsSymmetric ==
    ASSUME NEW x \in Row, NEW y \in Row, Overlaps(x, y)
    PROVE  Overlaps(y, x)
BY DaysAreIntegers DEF Overlaps, Row

(* Whether two rows are apart depends on their dates only.                 *)
LEMMA SameDatesApart ==
    ASSUME NEW x, NEW x2, NEW y, NEW y2, NEW timed,
           SameDates(x2, x), SameDates(y2, y), Apart(x, y, timed)
    PROVE  Apart(x2, y2, timed)
BY DEF Apart, Overlaps, SameDates

(* The overlap query counts every row no administrator wrote.              *)
LEMMA UneditedIsActive ==
    ASSUME RowInv, NEW q \in Requests \ edited, Present(q)
    PROVE  row[q].status \in Active
BY DEF RowInv, VerdictFollowsDates, Verdict, Active

LEMMA SeenMoves ==
    ASSUME TypeOK, [Next]_vars, NEW r \in Requests
    PROVE  seen'[r] = seen[r] \/ CheckOverlap(r)
<1>1. ASSUME NEW q \in Requests, CheckOverlap(q)
      PROVE  seen'[r] = seen[r] \/ CheckOverlap(r)
  BY <1>1 DEF CheckOverlap, TypeOK
<1>2. UNCHANGED seen \/ \E q \in Requests : CheckOverlap(q)
  BY DEF Next, vars, CallStep, Delivery, HandlerStep, AdmStep, Environment,
         Submit, Insert, Emit, Confirm, ProducerDrop, CallFails,
         EmitLost, Deliver, Find, Skip, AckSaved, AckInTry, Decide, Write, Catch,
         Republish, AckRetried, DbFails, UpdateFind, UpdateReload, UpdateWrite,
         RemoveFind, RemoveDelete, AdmFails, Drop, Crash, BrokerRestart
<1> QED BY <1>1, <1>2

(* An active row of the owner that the query does not return is apart from *)
(* what the call will book.                                                *)
LEMMA QueryLeavesApart ==
    ASSUME TypeOK, NEW q \in Requests, NEW r \in Requests, CheckOverlap(r),
           Owner[q] = Owner[r], Present(q), row[q].status \in Active,
           q \notin Overlapping(r)
    PROVE  Apart(row[q], Booked(call[r].from, call[r].to), seen'[r].timed)
<1>1. call[r].from \in Dates /\ call[r].to \in Dates
  BY DEF CheckOverlap, TypeOK, Call, NoCall, CallEnded
<1>2. ~Finds(row[q], call[r].from, call[r].to)
  BY DEF Overlapping
<1>3. seen'[r].timed = Timed(call[r].from.read)
  BY DEF CheckOverlap, TypeOK
<1>4. row[q].from \in Int /\ row[q].to \in Int
  BY DaysAreIntegers DEF TypeOK, Present, Row
<1>5. call[r].from \in [read : Int, instant : Int]
        /\ call[r].to \in [read : Int, instant : Int]
  BY <1>1, DatesAssumption
<1>6. Overlaps(row[q], Booked(call[r].from, call[r].to)) =>
        /\ Timed(call[r].from.read)
        /\ row[q].to = Booked(call[r].from, call[r].to).from
  BY <1>2, <1>4, <1>5, QueryMissesOnlyTheBoundary
<1> QED BY <1>3, <1>6 DEF Apart

(* A row that was clear of some dates stays clear of them.                 *)
LEMMA ClearKept ==
    ASSUME RowInv, [Next]_vars, NEW q \in Requests, NEW r \in Requests,
           NEW x, NEW y, SameDates(y, x), q \notin edited', ClearOf(q, r, x)
    PROVE  /\ row'[q] # Absent
           /\ Owner[q] = Owner[r] => Apart(row'[q], y, seen[r].timed)
<1>1. Present(q)
  BY DEF ClearOf
<1>2. row'[q] # Absent /\ SameDates(row'[q], row[q])
  BY <1>1, UneditedRow DEF Present, SameDates, Row, Absent
<1> QED BY <1>2, SameDatesApart DEF ClearOf

LEMMA SeenClearStep ==
    ASSUME BookingInv, [Next]_vars
    PROVE  SeenClear'
<1> USE DEF BookingInv
<1>0. TypeOK
  BY DEF RowInv
<1> SUFFICES ASSUME NEW r \in Requests, NEW q \in seen'[r].rows \ edited'
             PROVE  /\ call'[r].pc = "insert" =>
                          /\ row'[q] # Absent
                          /\ Owner[q] = Owner[r] =>
                                Apart(row'[q], Booked(call'[r].from, call'[r].to),
                                      seen'[r].timed)
                    /\ r \notin edited' /\ row'[r] # Absent =>
                          /\ row'[q] # Absent
                          /\ Owner[q] = Owner[r] =>
                                Apart(row'[q], row'[r], seen'[r].timed)
  BY DEF SeenClear, ClearOf, Present
<1>1. q \in Requests
  BY <1>0, TypeStep DEF TypeOK
<1>2. q \notin edited
  BY <1>1, UneditedRow
<1>3. CASE CheckOverlap(r)
  <2>1. row[r] = Absent /\ UNCHANGED row
    BY <1>3 DEF CheckOverlap, RowInv, QuietBeforeInsert
  <2>2. Present(q)
    BY <1>0, <1>3 DEF CheckOverlap, TypeOK
  <2>3. row[q].status \in Active
    BY <1>1, <1>2, <2>2, UneditedIsActive
  <2>4. ASSUME call'[r].pc = "insert", Owner[q] = Owner[r]
        PROVE  Apart(row[q], Booked(call'[r].from, call'[r].to), seen'[r].timed)
    <3>1. /\ Overlapping(r) = {}
          /\ call'[r].from = call[r].from /\ call'[r].to = call[r].to
      BY <1>0, <1>3, <2>4 DEF CheckOverlap, CallEnded, TypeOK, Call, NoCall
    <3>2. q \notin Overlapping(r)
      BY <3>1
    <3> QED BY <1>0, <1>1, <1>3, <2>2, <2>3, <2>4, <3>1, <3>2, QueryLeavesApart
  <2> QED BY <2>1, <2>2, <2>4 DEF Present
<1>4. CASE seen'[r] = seen[r] /\ ~CheckOverlap(r)
  <2>1. q \in seen[r].rows \ edited
    BY <1>2, <1>4
  <2>2. ASSUME call'[r].pc = "insert"
        PROVE  /\ call'[r] = call[r]
               /\ ClearOf(q, r, Booked(call[r].from, call[r].to))
    BY <1>0, <1>4, <2>1, <2>2, CallMoves DEF SeenClear
  <2>3. ASSUME r \notin edited', row'[r] # Absent
        PROVE  \E x : SameDates(row'[r], x) /\ ClearOf(q, r, x)
    <3>1. CASE Insert(r)
      <4>1. ClearOf(q, r, Booked(call[r].from, call[r].to))
        BY <2>1, <3>1 DEF Insert, SeenClear
      <4>2. SameDates(row'[r], Booked(call[r].from, call[r].to))
        BY <1>0, <3>1 DEF Insert, SameDates, TypeOK
      <4> QED BY <4>1, <4>2
    <3>2. CASE Present(r) /\ SameDates(row'[r], row[r])
      BY <2>1, <2>3, <3>2, UneditedRow DEF SeenClear
    <3> QED BY <2>3, <3>1, <3>2, UneditedRow DEF Present, SameDates
  <2>4. ASSUME call'[r].pc = "insert"
        PROVE  /\ row'[q] # Absent
               /\ Owner[q] = Owner[r] =>
                     Apart(row'[q], Booked(call'[r].from, call'[r].to),
                           seen'[r].timed)
    <3> DEFINE x == Booked(call[r].from, call[r].to)
    <3>1. SameDates(x, x) /\ ClearOf(q, r, x) /\ call'[r] = call[r]
      BY <2>2, <2>4 DEF SameDates
    <3> HIDE DEF x
    <3>2. /\ row'[q] # Absent
          /\ Owner[q] = Owner[r] => Apart(row'[q], x, seen[r].timed)
      BY <1>1, <3>1, ClearKept
    <3> QED BY <1>4, <3>1, <3>2 DEF x
  <2>5. ASSUME r \notin edited', row'[r] # Absent
        PROVE  /\ row'[q] # Absent
               /\ Owner[q] = Owner[r] =>
                     Apart(row'[q], row'[r], seen'[r].timed)
    BY <1>1, <1>4, <2>3, <2>5, ClearKept
  <2> QED BY <2>4, <2>5
<1> QED BY <1>0, <1>3, <1>4, SeenMoves

(* Two live requests of one employee that no administrator wrote overlap   *)
(* only if the overlap query of each missed the other: it ran before the   *)
(* other was inserted, or its start carried a time of day and the other    *)
(* ends on that day.  One check of the rows on file, with its dates cut to *)
(* days, would have caught every other case.                               *)
THEOREM DoubleBookingNeedsARace == Spec => []OverlapOnlyByRace
<1>1. Init => BookingInv
  BY InitRowInv DEF Init, BookingInv, SeenClear
<1>2. BookingInv /\ [Next]_vars => BookingInv'
  BY RowStep, SeenClearStep DEF BookingInv
<1>3. BookingInv => OverlapOnlyByRace
  <2> SUFFICES ASSUME BookingInv, NEW r \in Requests \ edited,
                      NEW q \in Requests \ edited, Owner[r] = Owner[q],
                      row[r].status \in Active, row[q].status \in Active,
                      Overlaps(row[r], row[q])
               PROVE  MissedBy(r, q) /\ MissedBy(q, r)
    BY DEF OverlapOnlyByRace
  <2>1. row[r] \in Row /\ row[q] \in Row
    BY DEF BookingInv, RowInv, TypeOK, Active, Absent
  <2>2. Present(r) /\ Present(q)
    BY DEF Present, Active, Absent
  <2>3. Overlaps(row[q], row[r])
    BY <2>1, OverlapsSymmetric
  <2> QED BY <2>2, <2>3 DEF BookingInv, SeenClear, ClearOf, Apart, MissedBy
<1> QED BY <1>1, <1>2, <1>3, PTL DEF Spec

-----------------------------------------------------------------------------
(* The dead-letter queue is earned.                                        *)

LEMMA FaultsGrow ==
    ASSUME TypeOK, [Next]_vars
    PROVE  faults' \in Nat /\ faults' >= faults
<1>1. faults' = faults \/ faults' = faults + 1
  BY DEF Next, vars, CallStep, Delivery, HandlerStep, AdmStep, Environment, Fault,
         Submit, CheckOverlap, Insert, Emit, Confirm, ProducerDrop, CallFails,
         EmitLost, Deliver, Find, Skip, AckSaved, AckInTry, Decide, Write, Catch,
         Republish, AckRetried, DbFails, UpdateFind, UpdateReload, UpdateWrite,
         RemoveFind, RemoveDelete, AdmFails, Drop, Crash, BrokerRestart
<1> QED BY <1>1 DEF TypeOK

(* Who moves the queue.                                                    *)
LEMMA ReadyMovers ==
    ASSUME [Next]_vars
    PROVE  \/ UNCHANGED ready
           \/ \E q \in Requests : Emit(q)
           \/ \E h \in Handlers, f \in Event : Deliver(h, f)
           \/ \E h \in Handlers : Republish(h)
           \/ \E i \in Instances : Drop(i) \/ Crash(i)
           \/ BrokerRestart
BY DEF Next, vars, CallStep, Delivery, HandlerStep, AdmStep, Environment, Submit,
       CheckOverlap, Insert, Confirm, ProducerDrop, CallFails, EmitLost,
       Find, Skip, AckSaved, AckInTry, Decide, Write, Catch, AckRetried, DbFails,
       UpdateFind, UpdateReload, UpdateWrite, RemoveFind, RemoveDelete, AdmFails

(* How an event gets into the queue: it was there or comes back, it is a   *)
(* first copy, or a handler that has backed off publishes the next copy.   *)
LEMMA ReadyMoves ==
    ASSUME TypeOK, [Next]_vars, NEW e \in Event, ready'[e] > 0
    PROVE  \/ ready[e] > 0
           \/ e.retries = 0
           \/ \E h \in Handlers : Holds(h, e)
           \/ \E h \in Handlers : /\ hnd[h].pc = "backoff"
                                  /\ hnd[h].held
                                  /\ hnd[h].event.req = e.req
                                  /\ hnd[h].event.retries + 1 = e.retries
<1> DEFINE P == \/ ready[e] > 0
                \/ e.retries = 0
                \/ \E h \in Handlers : Holds(h, e)
                \/ \E h \in Handlers : /\ hnd[h].pc = "backoff"
                                       /\ hnd[h].held
                                       /\ hnd[h].event.req = e.req
                                       /\ hnd[h].event.retries + 1 = e.retries
<1>0. ready \in [Event -> Nat] /\ hnd \in [Handlers -> Handler]
  BY DEF TypeOK
<1>1. ASSUME NEW q \in Requests, Emit(q)
      PROVE  P
  <2> DEFINE f == [req |-> q, retries |-> 0]
  <2>1. f.retries = 0
    OBVIOUS
  <2>2. e = f \/ ready'[e] = ready[e]
    BY <1>0, <1>1 DEF Emit, Put
  <2> QED BY <2>1, <2>2
<1>2. ASSUME NEW h \in Handlers, NEW f \in Event, Deliver(h, f)
      PROVE  P
  BY <1>0, <1>2 DEF Deliver, Take
<1>3. ASSUME NEW h \in Handlers, Republish(h)
      PROVE  P
  <2>1. hnd[h] \in Handler \ {Idle} /\ hnd[h].event \in Event
    BY <1>0, <1>3 DEF Republish, Handler, Idle
  <2> DEFINE n == [hnd[h].event EXCEPT !.retries = @ + 1]
  <2>2. n.req = hnd[h].event.req /\ n.retries = hnd[h].event.retries + 1
    BY <2>1 DEF Event
  <2>3. e = n \/ ready'[e] = ready[e]
    BY <1>0, <1>3 DEF Republish, Put
  <2> HIDE DEF n
  <2> QED BY <1>3, <2>2, <2>3 DEF Republish
<1>4. ASSUME NEW i \in Instances, Drop(i) \/ Crash(i)
      PROVE  P
  BY <1>4, RequeuedFrom DEF Drop, Crash
<1>5. CASE BrokerRestart
  BY <1>5 DEF BrokerRestart
<1> QED BY <1>1, <1>2, <1>3, <1>4, <1>5, ReadyMovers

(* Only the catch block parks an event, and only when it may not retry it. *)
LEMMA DlqMoves ==
    ASSUME TypeOK, [Next]_vars, NEW e \in Event, dlq'[e] > 0
    PROVE  \/ dlq[e] > 0
           \/ \E h \in Handlers : /\ hnd[h].pc = "caught"
                                  /\ Holds(h, e)
                                  /\ ~ShouldRetry(e.retries + 1)
<1>0. dlq \in [Event -> Nat]
  BY DEF TypeOK
<1>1. ASSUME NEW h \in Handlers, Catch(h)
      PROVE  dlq'[e] = dlq[e] \/ /\ hnd[h].pc = "caught"
                                 /\ Holds(h, e)
                                 /\ ~ShouldRetry(e.retries + 1)
  BY <1>0, <1>1 DEF Catch, Put, Holds, Busy
<1>2. UNCHANGED dlq \/ BrokerRestart \/ \E h \in Handlers : Catch(h)
  BY DEF Next, vars, CallStep, Delivery, HandlerStep, AdmStep, Environment, Submit,
         CheckOverlap, Insert, Emit, Confirm, ProducerDrop, CallFails, EmitLost,
         Deliver, Find, Skip, AckSaved, AckInTry, Decide, Write, Republish,
         AckRetried, DbFails, UpdateFind, UpdateReload, UpdateWrite, RemoveFind,
         RemoveDelete, AdmFails, Drop, Crash
<1>3. CASE BrokerRestart
  BY <1>3 DEF BrokerRestart
<1> QED BY <1>1, <1>2, <1>3

(* Losing the channel is a fault.                                          *)
LEMMA ChannelLoss ==
    ASSUME TypeOK, [Next]_vars, NEW h \in Handlers, Busy(h), hnd[h].held,
           hnd'[h].pc # "idle", ~hnd'[h].held
    PROVE  faults' = faults + 1
<1>0. hnd \in [Handlers -> Handler] /\ hnd[h] \in Handler \ {Idle}
  BY DEF TypeOK, Busy, Idle
<1>1. ASSUME NEW g \in Handlers, Delivery(g) \/ HandlerStep(g) \/ DbFails(g)
      PROVE  FALSE
  <2>1. g = h
    BY <1>0, <1>1 DEF Delivery, HandlerStep, Deliver, Find, Skip, AckSaved,
          AckInTry, Decide, Write, Catch, Republish, AckRetried, DbFails
  <2>2. CASE Delivery(h)
    BY <2>2 DEF Delivery, Deliver, Busy, Idle
  <2>3. CASE Find(h) \/ Decide(h)
    <3>1. hnd[h] \in Handler \ {Idle}
      BY <1>0
    <3>2. CASE Find(h)
      <4>1. hnd'[h] = [hnd[h] EXCEPT !.pc = "found",
                                     !.entity = row[hnd[h].event.req]]
        BY <1>0, <3>2 DEF Find
      <4>2. hnd'[h].held = hnd[h].held
        BY <3>1, <4>1 DEF Handler
      <4> QED BY <4>2
    <3>3. CASE Decide(h)
      <4>1. PICK now \in Times :
               hnd'[h] = [hnd[h] EXCEPT !.pc = "write",
                                        !.base = row[hnd[h].event.req],
                                        !.entity = Decided(hnd[h].entity, now)]
        BY <1>0, <3>3 DEF Decide
      <4>2. hnd'[h].held = hnd[h].held
        BY <3>1, <4>1 DEF Handler
      <4> QED BY <4>2
    <3> QED BY <2>3, <3>2, <3>3
  <2>4. CASE Skip(h) \/ AckSaved(h) \/ Write(h)
    BY <1>0, <2>4 DEF Skip, AckSaved, AckInTry, Write, Handler, Idle
  <2>5. CASE Catch(h) \/ Republish(h) \/ AckRetried(h) \/ DbFails(h)
    BY <1>0, <2>5 DEF Catch, Republish, AckRetried, DbFails, Handler, Idle
  <2> QED BY <1>1, <2>1, <2>2, <2>3, <2>4, <2>5 DEF HandlerStep
<1>2. \/ UNCHANGED hnd
      \/ Fault
      \/ \E g \in Handlers : Delivery(g) \/ HandlerStep(g)
  BY DEF Next, vars, CallStep, AdmStep, Environment, Submit, CheckOverlap,
         Insert, Emit, Confirm, ProducerDrop, CallFails, EmitLost, UpdateFind,
         UpdateReload, UpdateWrite, RemoveFind, RemoveDelete, AdmFails,
         Drop, Crash, BrokerRestart, DbFails
<1> QED BY <1>1, <1>2 DEF Fault

(* A handler at work was at work on the same event, or has just got it.    *)
LEMMA HandlerSource ==
    ASSUME TypeOK, [Next]_vars, NEW h \in Handlers, hnd'[h].pc # "idle"
    PROVE  Delivery(h) \/ (Busy(h) /\ hnd'[h].event = hnd[h].event)
<1>0. hnd \in [Handlers -> Handler]
  BY DEF TypeOK
<1>1. CASE hnd'[h] = hnd[h]
  BY <1>1 DEF Busy
<1>2. CASE Busy(h) /\ hnd'[h] = [hnd[h] EXCEPT !.held = FALSE]
  <2>1. hnd[h] \in Handler \ {Idle}
    BY <1>2, BusyHandler
  <2> QED BY <1>2, <2>1 DEF Handler
<1>3. CASE HandlerStep(h) \/ DbFails(h)
  <2>1. hnd[h] \in Handler \ {Idle} /\ Busy(h)
    BY <1>0, <1>3, StepIsBusy DEF Busy, Idle
  <2>2. CASE Find(h) \/ Decide(h)
    BY <1>0, <2>1, <2>2 DEF Find, Decide, Handler
  <2>3. CASE Skip(h) \/ AckSaved(h) \/ Write(h)
    BY <1>0, <2>1, <2>3 DEF Skip, AckSaved, AckInTry, Write, Handler, Idle
  <2>4. CASE Catch(h) \/ Republish(h) \/ AckRetried(h) \/ DbFails(h)
    BY <1>0, <2>1, <2>4 DEF Catch, Republish, AckRetried, DbFails, Handler, Idle
  <2> QED BY <1>3, <2>1, <2>2, <2>3, <2>4 DEF HandlerStep
<1>4. hnd'[h] # Idle
  BY DEF Idle
<1> QED BY <1>1, <1>2, <1>3, <1>4, HandlerMoves

LEMMA RetriesPaidStep ==
    ASSUME RetryInv, [Next]_vars
    PROVE  RetriesPaid'
<1> SUFFICES ASSUME NEW e \in Event, e.req \notin edited'
             PROVE  Paid(e)'
  BY DEF RetriesPaid
<1>0. /\ RowInv
      /\ TypeOK
      /\ hnd \in [Handlers -> Handler]
      /\ e.req \in Requests
      /\ e.retries \in Nat
      /\ e.retries + 1 <= MaxAttempts
      /\ MaxAttempts \in Nat
      /\ faults \in Nat
  BY AttemptsAssumption DEF RetryInv, RowInv, TypeOK, Event
<1>1. e.req \notin edited
  BY <1>0, UneditedRow
<1>2. faults' \in Nat /\ faults' >= faults
  BY <1>0, FaultsGrow
<1>3. Paid(e)
  BY <1>1 DEF RetryInv, RetriesPaid
<1>4. ready'[e] > 0 => faults' >= e.retries
  <2> SUFFICES ASSUME ready'[e] > 0 PROVE faults >= e.retries
    BY <1>0, <1>2
  <2>1. ASSUME NEW h \in Handlers, hnd[h].pc = "backoff",
               hnd[h].event.req = e.req, hnd[h].event.retries + 1 = e.retries
        PROVE  faults >= e.retries
    <3>1. Busy(h) /\ hnd[h].event \in Event
      BY <1>0, <2>1, BusyHandler DEF Busy
    <3>2. Paid(hnd[h].event)
      BY <1>1, <2>1, <3>1 DEF RetryInv, RetriesPaid
    <3> QED BY <2>1, <3>1, <3>2 DEF Paid, Failing
  <2>2. ready[e] > 0 \/ (\E h \in Handlers : Holds(h, e)) => faults >= e.retries
    BY <1>3 DEF Paid, Holds
  <2> QED BY <1>0, <2>1, <2>2, ReadyMoves
<1>5. dlq'[e] > 0 => e.retries + 1 = MaxAttempts /\ faults' >= MaxAttempts
  <2>1. ASSUME NEW h \in Handlers, hnd[h].pc = "caught", hnd[h].event = e,
               ~ShouldRetry(e.retries + 1)
        PROVE  e.retries + 1 = MaxAttempts /\ faults >= MaxAttempts
    <3>1. faults >= e.retries + 1
      BY <1>3, <2>1 DEF Paid, Failing, Busy
    <3>2. e.retries + 1 = MaxAttempts
      BY <1>0, <2>1 DEF ShouldRetry
    <3> QED BY <3>1, <3>2
  <2>2. dlq[e] > 0 => e.retries + 1 = MaxAttempts /\ faults >= MaxAttempts
    BY <1>3 DEF Paid
  <2> QED BY <1>0, <1>2, <2>1, <2>2, DlqMoves DEF Holds
<1>6. ASSUME NEW h \in Handlers, hnd'[h].pc # "idle", hnd'[h].event = e
      PROVE  /\ faults' >= e.retries
             /\ Failing(h)' => faults' >= e.retries + 1
  <2>1. CASE Busy(h) /\ hnd[h].event = e
    <3>1. /\ faults >= e.retries
          /\ Failing(h) => faults >= e.retries + 1
      BY <1>3, <2>1 DEF Paid
    <3>2. CASE Failing(h)
      BY <1>0, <1>2, <3>1, <3>2
    <3>3. CASE ~Failing(h) /\ Failing(h)'
      <4>1. hnd[h].held /\ hnd[h] \in Handler \ {Idle}
        BY <1>0, <2>1, <3>3, BusyHandler DEF Failing
      <4>2. CASE ~hnd'[h].held
        BY <1>0, <1>6, <2>1, <3>1, <4>1, <4>2, ChannelLoss
      <4>3. CASE hnd'[h].pc \in {"caught", "backoff", "republished"}
        <5>1. Write(h) \/ DbFails(h)
          <6>1. hnd[h].pc \notin {"caught", "backoff", "republished"}
            BY <3>3 DEF Failing
          <6>2. ~Delivery(h)
            BY <2>1 DEF Delivery, Deliver, Busy, Idle
          <6>3. ~Find(h)
            <7> SUFFICES ASSUME Find(h) PROVE FALSE
              OBVIOUS
            <7>1. hnd'[h] = [hnd[h] EXCEPT !.pc = "found",
                                           !.entity = row[hnd[h].event.req]]
              BY <1>0 DEF Find
            <7>2. hnd'[h].pc = "found"
              BY <4>1, <7>1 DEF Handler
            <7> QED BY <4>3, <7>2
          <6>8. ~Decide(h)
            <7> SUFFICES ASSUME Decide(h) PROVE FALSE
              OBVIOUS
            <7>1. PICK now \in Times :
                    hnd'[h] = [hnd[h] EXCEPT !.pc = "write",
                                             !.base = row[hnd[h].event.req],
                                             !.entity = Decided(hnd[h].entity, now)]
              BY <1>0 DEF Decide
            <7>2. hnd'[h].pc = "write"
              BY <4>1, <7>1 DEF Handler
            <7> QED BY <4>3, <7>2
          <6>4. ~Skip(h) /\ ~AckSaved(h)
            BY <1>0, <4>1, <4>3 DEF Skip, AckSaved, AckInTry, Idle
          <6>5. ~Catch(h) /\ ~Republish(h) /\ ~AckRetried(h)
            BY <6>1 DEF Catch, Republish, AckRetried
          <6>6. hnd'[h] # [hnd[h] EXCEPT !.held = FALSE] /\ hnd'[h] # hnd[h]
            BY <4>1, <4>3, <6>1 DEF Handler
          <6>7. hnd'[h] # Idle
            BY <1>6 DEF Idle
          <6> QED BY <1>0, <6>2, <6>3, <6>4, <6>5, <6>6, <6>7, <6>8, HandlerMoves
                  DEF HandlerStep
        <5>2. ~Write(h)
          <6> SUFFICES ASSUME Write(h) PROVE FALSE
            OBVIOUS
          <6>1. Conflict(row[e.req], hnd[h].base) /\ hnd[h].pc = "write"
            BY <1>0, <2>1, <4>1, <4>3 DEF Write, Handler
          <6>2. Snapshot(h)
            BY <1>0, <1>1, <2>1 DEF RowInv, Snapshots
          <6> QED BY <6>1, <6>2 DEF Snapshot, Conflict, Row, Absent
        <5>3. faults' = faults + 1
          BY <5>1, <5>2 DEF DbFails, Fault
        <5> QED BY <1>0, <3>1, <5>3
      <4> QED BY <3>3, <4>2, <4>3 DEF Failing
    <3> QED BY <1>0, <1>2, <3>1, <3>2, <3>3
  <2>2. CASE Delivery(h)
    <3>1. ready[e] > 0 /\ ~Failing(h)'
      BY <1>0, <1>6, <2>2 DEF Delivery, Deliver, Failing
    <3> QED BY <1>0, <1>2, <1>3, <3>1 DEF Paid
  <2> QED BY <1>0, <1>6, <2>1, <2>2, HandlerSource
<1> QED BY <1>4, <1>5, <1>6 DEF Paid, Busy

LEMMA RetryInvariant == Spec => []RetryInv
<1>1. Init => RetryInv
  BY InitRowInv DEF Init, RetryInv, RetriesPaid, Paid, Busy, Idle
<1>2. RetryInv /\ [Next]_vars => RetryInv'
  BY RowStep, RetriesPaidStep DEF RetryInv
<1> QED BY <1>1, <1>2, PTL DEF Spec

(* Every event in the DLQ has failed as often as the strategy allows, each *)
(* time for a fault of its own, unless administrators wrote its row.       *)
THEOREM DeadLettersAreEarned == Spec => []DeadLetterEarned
<1>1. RetryInv => DeadLetterEarned
  BY DEF RetryInv, RetriesPaid, Paid, DeadLetterEarned
<1> QED BY <1>1, RetryInvariant, PTL

=============================================================================
