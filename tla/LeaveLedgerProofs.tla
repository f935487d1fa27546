-------------------------- MODULE LeaveLedgerProofs --------------------------
(***************************************************************************)
(* LeavePipeline implements LeaveLedger.                                   *)
(***************************************************************************)
EXTENDS LeavePipelineProofs

-----------------------------------------------------------------------------
(* The invariant of the refinement.                                        *)

(* A call that checks or inserts has been through Submit.                  *)
LEMMA OrderedStep ==
    ASSUME TypeOK, OrderedCalls, [Next]_vars
    PROVE  OrderedCalls'
<1> SUFFICES ASSUME NEW r \in Requests, call'[r].pc \in {"check", "insert"}
             PROVE  DayOf(call'[r].to.read) + 1 >= DayOf(call'[r].from.read)
  BY DEF OrderedCalls
<1> DEFINE Q == DayOf(call'[r].to.read) + 1 >= DayOf(call'[r].from.read)
<1>0. call \in [Requests -> Call]
  BY DEF TypeOK
<1>1. CASE call'[r] = call[r]
  BY <1>1 DEF OrderedCalls
<1>2. ASSUME NEW q \in Requests, NEW i \in Instances, NEW from \in Dates,
             NEW to \in Dates, Submit(q, i, from, to)
      PROVE  Q
  <2>1. CASE q = r
    <3>1. /\ IsEndDateAfterStartDate(from, to)
          /\ call'[r].from = from /\ call'[r].to = to
      BY <1>0, <1>2, <2>1 DEF Submit, CallEnded
    <3> QED BY <3>1, DaysInOrder
  <2>2. CASE q # r
    BY <1>0, <1>1, <1>2, <2>2 DEF Submit
  <2> QED BY <2>1, <2>2
<1>3. ASSUME NEW q \in Requests, CheckOverlap(q)
      PROVE  Q
  <2>1. CASE q = r
    <3>1. call[r] \in Call \ {NoCall, CallEnded}
      BY <1>0, <1>3, <2>1 DEF CheckOverlap, NoCall, CallEnded
    <3>2. call'[r].from = call[r].from /\ call'[r].to = call[r].to
      BY <1>0, <1>3, <2>1, <3>1 DEF CheckOverlap, Call, CallEnded
    <3> QED BY <1>3, <2>1, <3>2 DEF CheckOverlap, OrderedCalls
  <2>2. CASE q # r
    BY <1>0, <1>1, <1>3, <2>2 DEF CheckOverlap
  <2> QED BY <2>1, <2>2
<1>4. ASSUME NEW q \in Requests,
             \/ Insert(q) \/ Emit(q) \/ Confirm(q)
             \/ ProducerDrop(q) \/ CallFails(q) \/ EmitLost(q)
      PROVE  Q
  BY <1>0, <1>1, <1>4 DEF Insert, Emit, Confirm, ProducerDrop, CallFails,
                          EmitLost, Call, NoCall, CallEnded
<1>5. ASSUME NEW i \in Instances, Crash(i)
      PROVE  Q
  BY <1>1, <1>5 DEF Crash, CallEnded
<1>6. CASE BrokerRestart
  BY <1>0, <1>1, <1>6 DEF BrokerRestart, Call, NoCall, CallEnded
<1> QED BY <1>1, <1>2, <1>3, <1>4, <1>5, <1>6, CallMovers DEF CallStep

(* An outage takes events for good, of requests that have a row.           *)
LEMMA StrandedMoves ==
    ASSUME TypeOK, [Next]_vars, NEW r \in Requests
    PROVE  /\ r \in stranded => r \in stranded'
           /\ r \in stranded' =>
                 r \in stranded \/ Known(r) \/ call[r].pc = "emit"
<1> DEFINE P == /\ r \in stranded => r \in stranded'
                /\ r \in stranded' =>
                      r \in stranded \/ Known(r) \/ call[r].pc = "emit"
<1>1. ASSUME NEW q \in Requests, EmitLost(q)
      PROVE  P
  BY <1>1 DEF EmitLost
<1>2. ASSUME NEW i \in Instances, Crash(i)
      PROVE  P
  BY <1>2 DEF Crash
<1>3. CASE BrokerRestart
  BY <1>3 DEF BrokerRestart, Known, InHand, Holds
<1>4. \/ UNCHANGED stranded
      \/ \E q \in Requests : EmitLost(q)
      \/ \E i \in Instances : Crash(i)
      \/ BrokerRestart
  BY DEF Next, vars, CallStep, Delivery, HandlerStep, AdmStep, Environment,
         Submit, CheckOverlap, Insert, Emit, Confirm, ProducerDrop, CallFails,
         Deliver, Find, Skip, AckSaved, AckInTry, Decide, Write, Catch,
         Republish, AckRetried, DbFails, UpdateFind, UpdateReload, UpdateWrite,
         RemoveFind, RemoveDelete, AdmFails, Drop
<1> QED BY <1>1, <1>2, <1>3, <1>4

LEMMA StrandedStep ==
    ASSUME RowInv, StrandedBooked, [Next]_vars
    PROVE  StrandedBooked'
<1> SUFFICES ASSUME NEW r \in stranded', call'[r].pc \in {"idle", "check", "insert"}
             PROVE  FALSE
  BY DEF StrandedBooked
<1>0. TypeOK /\ r \in Requests
  BY TypeStep DEF RowInv, TypeOK
<1>1. call[r].pc \in {"idle", "check", "insert"}
  BY <1>0, CallMoves
<1>2. ~Known(r) /\ r \notin stranded
  BY <1>0, <1>1 DEF RowInv, QuietBeforeInsert, StrandedBooked
<1> QED BY <1>0, <1>1, <1>2, StrandedMoves

LEMMA EditsStep ==
    ASSUME RowInv, EditsPresent, [Next]_vars
    PROVE  EditsPresent'
<1> SUFFICES ASSUME NEW a \in Admins, NEW r \in Requests, r \notin edited',
                    Edits(a, r)'
             PROVE  row'[r] # Absent
  BY DEF EditsPresent, Present
<1>1. r \notin edited
  BY UneditedRow
<1>2. Present(r)
  BY <1>1, AdmMoves DEF RowInv, EditsPresent
<1> QED BY <1>2, UneditedRow DEF Present, Row, Absent, Status

LEMMA LedgerInvariant == Spec => []LedgerInv
<1>1. Init => LedgerInv
  BY InitRowInv DEF Init, LedgerInv, OrderedCalls, StrandedBooked, EditsPresent,
                    Edits, NoCall, NoAdm
<1>2. LedgerInv /\ [Next]_vars => LedgerInv'
  <2> SUFFICES ASSUME LedgerInv, [Next]_vars PROVE LedgerInv'
    OBVIOUS
  <2> QED BY RowStep, OrderedStep, StrandedStep, EditsStep DEF LedgerInv, RowInv
<1> QED BY <1>1, <1>2, PTL DEF Spec

-----------------------------------------------------------------------------
(* The refinement.                                                         *)

(* The DLQ gives nothing back but to a broker that forgets.                *)
LEMMA ParkedMoves ==
    ASSUME TypeOK, [Next]_vars, NEW r \in Requests, Parked(r)
    PROVE  Parked(r)' \/ r \in stranded'
<1>0. dlq \in [Event -> Nat]
  BY DEF TypeOK
<1>1. PICK e \in Event : e.req = r /\ dlq[e] > 0
  BY DEF Parked
<1>2. ASSUME NEW h \in Handlers, Catch(h)
      PROVE  dlq'[e] > 0
  <2>1. dlq' = dlq \/ dlq' = Put(dlq, hnd[h].event)
    BY <1>2 DEF Catch
  <2> QED BY <1>0, <1>1, <2>1 DEF Put
<1>3. CASE BrokerRestart
  BY <1>3 DEF BrokerRestart
<1>4. UNCHANGED dlq \/ BrokerRestart \/ \E h \in Handlers : Catch(h)
  BY DEF Next, vars, CallStep, Delivery, HandlerStep, AdmStep, Environment, Submit,
         CheckOverlap, Insert, Emit, Confirm, ProducerDrop, CallFails, EmitLost,
         Deliver, Find, Skip, AckSaved, AckInTry, Decide, Write, Republish,
         AckRetried, DbFails, UpdateFind, UpdateReload, UpdateWrite, RemoveFind,
         RemoveDelete, AdmFails, Drop, Crash
<1> QED BY <1>1, <1>2, <1>3, <1>4 DEF Parked

(* The entry of a row no administrator wrote.                              *)
Entries == [r \in Requests |-> Entry(r)]

LEMMA EntryMoves ==
    ASSUME LedgerInv, [Next]_vars, NEW r \in Requests
    PROVE  Ledger!Move(r) \/ Entries'[r] = Entries[r]
<1> USE DEF LedgerInv
<1> DEFINE P == Ledger!Move(r) \/ Entries'[r] = Entries[r]
<1>0. /\ TypeOK
      /\ row \in [Requests -> Row \cup {Absent}]
      /\ row'[r] \in Row \cup {Absent}
      /\ Entries[r] = Entry(r)
      /\ Entries'[r] = Entry(r)'
  BY TypeStep DEF RowInv, TypeOK, Entries
<1>1. CASE r \in edited'
  <2>1. CASE r \in edited
    BY <1>0, <1>1, <2>1 DEF Entry
  <2>2. CASE r \notin edited
    <3>1. Present(r)
      <4>1. PICK a \in Admins : UpdateWrite(a) \/ RemoveDelete(a)
        BY <1>1, <2>2, RowMoves DEF Insert, Write
      <4>2. Edits(a, r)
        BY <1>1, <2>2, <4>1 DEF UpdateWrite, RemoveDelete, Edits
      <4> QED BY <2>2, <4>2 DEF EditsPresent
    <3>2. Entry(r).stage # "unbooked"
      BY <2>2, <3>1 DEF Entry
    <3>3. Entry(r)' = [stage |-> "theirs"]
      BY <1>1 DEF Entry
    <3> QED BY <1>0, <3>2, <3>3
            DEF Entries, Ledger!Move, Ledger!TakeOver, Ledger!Stage, Ledger!Theirs
  <2> QED BY <2>1, <2>2
<1>2. CASE r \notin edited'
  <2>0. r \notin edited
    BY <1>2, UneditedRow DEF LedgerInv
  <2>1. CASE row'[r] = row[r]
    <3>1. CASE row[r] = Absent \/ row[r].status # "PENDING"
      BY <1>0, <1>2, <2>0, <2>1, <3>1 DEF Entry, Present
    <3>2. CASE row[r] # Absent /\ row[r].status = "PENDING"
      <4> DEFINE S == IF r \in stranded THEN "lost"
                      ELSE IF Parked(r) THEN "parked" ELSE "booked"
                 T == IF r \in stranded' THEN "lost"
                      ELSE IF Parked(r)' THEN "parked" ELSE "booked"
                 E(stage) == [stage |-> stage, from |-> row[r].from, to |-> row[r].to]
      <4>1. Entries[r] = E(S) /\ Entries'[r] = E(T)
        BY <1>0, <1>2, <2>0, <2>1, <3>2 DEF Entry, Present
      <4>2. S = "lost" => T = "lost"
        BY <1>0, StrandedMoves
      <4>3. S = "parked" => T \in {"parked", "lost"}
        BY <1>0, ParkedMoves
      <4>4. CASE S = T
        BY <4>1, <4>4
      <4>5. CASE S = "booked" /\ T = "parked"
        <5>1. Entries'[r] = [Entries[r] EXCEPT !.stage = "parked"]
          BY <4>1, <4>5
        <5> QED BY <4>1, <4>5, <5>1
                DEF Entries, Ledger!Move, Ledger!Park, Ledger!Stage
      <4>6. CASE S \in {"booked", "parked"} /\ T = "lost"
        <5>1. Entries'[r] = [Entries[r] EXCEPT !.stage = "lost"]
          BY <4>1, <4>6
        <5> QED BY <4>1, <4>6, <5>1
                DEF Entries, Ledger!Move, Ledger!Lose, Ledger!Stage
      <4> QED BY <4>2, <4>3, <4>4, <4>5, <4>6
    <3> QED BY <3>1, <3>2
  <2>2. CASE Insert(r) /\ row[r] = Absent /\ row'[r] \in Row
    <3> DEFINE from == DayOf(call[r].from.read)
               to == DayOf(call[r].to.read)
    <3>0. call[r].from \in Dates /\ call[r].to \in Dates
      BY <1>0, <2>2 DEF Insert, TypeOK, Call, NoCall, CallEnded
    <3>1. /\ from \in Days /\ to \in Days
          /\ to + 1 >= from
      BY <2>2, <3>0 DEF Insert, OrderedCalls, Days
    <3>2. /\ row'[r].from = from /\ row'[r].to = to
          /\ row'[r].status = "PENDING"
      BY <1>0, <2>2 DEF Insert, Booked
    <3>3. r \notin stranded'
      BY <2>2 DEF Insert, StrandedBooked
    <3>4. ~Parked(r)'
      BY <2>2 DEF Insert, RowInv, QuietBeforeInsert, Known, Parked
    <3>5. Entry(r) = [stage |-> "unbooked"]
      BY <2>0, <2>2 DEF Entry, Present
    <3>6. Entry(r)' = [stage |-> "booked", from |-> from, to |-> to]
      BY <1>2, <2>2, <3>2, <3>3, <3>4 DEF Entry, Present, Absent
    <3>7. Ledger!Book(r, from, to)
      BY <1>0, <3>1, <3>5, <3>6
         DEF Entries, Ledger!Book, Ledger!Stage, Ledger!Open
    <3> QED BY <3>1, <3>7 DEF Ledger!Move
  <2>3. CASE /\ Present(r)
             /\ row'[r] \in Row
             /\ SameDates(row'[r], row[r])
             /\ WellDecided(row'[r])
             /\ row[r].status = "PENDING"
             /\ row'[r].status # "PENDING"
    <3> DEFINE from == row[r].from
               to == row[r].to
    <3>1. row'[r].from = from /\ row'[r].to = to
          /\ row'[r].status = Verdict(from, to)
      BY <2>3 DEF SameDates, WellDecided
    <3>2. /\ Entry(r).stage \in {"booked", "parked", "lost"}
          /\ Entry(r).from = from
          /\ Entry(r).to = to
      BY <2>0, <2>3 DEF Entry
    <3>3. Entry(r)' = [stage |-> "decided", from |-> from, to |-> to,
                       status |-> Verdict(from, to)]
      BY <1>2, <2>3, <3>1 DEF Entry, Present, Row, Absent
    <3> QED BY <1>0, <3>2, <3>3
            DEF Entries, Ledger!Move, Ledger!Settle, Ledger!Stage, Ledger!Closed,
                Ledger!Verdict, Ledger!Duration, Verdict, Duration
  <2>4. CASE /\ Present(r)
             /\ row'[r] \in Row
             /\ row[r].status # "PENDING"
             /\ \E now \in Times : row'[r] = [row[r] EXCEPT !.processed = now]
    <3>1. /\ row'[r].from = row[r].from /\ row'[r].to = row[r].to
          /\ row'[r].status = row[r].status
      BY <1>0, <2>4 DEF Present, Row
    <3> QED BY <1>0, <1>2, <2>0, <2>4, <3>1 DEF Entry, Present, Row, Absent
  <2> QED BY <1>2, <2>1, <2>2, <2>3, <2>4, UneditedRow DEF LedgerInv
<1> QED BY <1>1, <1>2

(* Whatever deliveries, retries, detached handlers and outages do, every   *)
(* request is booked once, keeps its dates, is parked, lost and decided    *)
(* only in the order the ledger allows, with the verdict of its dates, and *)
(* stays decided, until an administrator takes it over.                    *)
THEOREM PipelineKeepsTheLedger == Spec => LedgerSpec
<1>1. Init => Ledger!Init
  BY DEF Init, Ledger!Init, Ledger!Unbooked, Entry, Present
<1>2. LedgerInv /\ [Next]_vars => [Ledger!Next]_Entries
  <2> SUFFICES ASSUME LedgerInv, [Next]_vars PROVE Ledger!Next
    OBVIOUS
  <2> QED BY EntryMoves DEF Ledger!Next, Entries
<1> QED BY <1>1, <1>2, LedgerInvariant, PTL
        DEF Spec, LedgerSpec, Ledger!Spec, Entries
=============================================================================
