------------------------- MODULE LeaveHistoryProofs -------------------------
(***************************************************************************)
(* Proofs about LeaveHistory: what still holds of requests that            *)
(* administrators patch and delete while the pipeline works on them.       *)
(***************************************************************************)
EXTENDS LeaveHistory, LeavePipelineProofs

-----------------------------------------------------------------------------
(* The inductive invariant.                                                *)

(* The memory starts with the INSERT of a row and keeps what it has seen.  *)
MemoryKept ==
    \A r \in Requests :
        /\ Present(r) => Claim(row[r]) \subseteq had[r]
        /\ call[r].pc \in {"idle", "check", "insert"} => had[r] = {}
        /\ had[r] = {} =>
              /\ row[r] = Absent
              /\ ~Known(r)
              /\ call[r].pc \notin {"emit", "confirm"}
              /\ \A a \in Admins : ~Edits(a, r)
        /\ \A q \in seen[r].rows : had[q] # {}

(* The statuses a row with these claims may show: what administrators have *)
(* given it, and the verdicts of dates the row has had.                    *)
Given(claims, statuses) ==
    statuses \cup {"PENDING"}
      \cup {Verdict(d.from, d.to) : d \in {c \in claims : c.live}}

(* No row shows another status, and no handler or call is about to write   *)
(* one.  A handler decides the dates of a PENDING row it has really read.  *)
GivenOnly ==
    /\ \A r \in Requests : Present(r) => row[r].status \in Given(had[r], given[r])
    /\ \A h \in Handlers :
          /\ hnd[h].pc = "found" /\ hnd[h].entity.status = "PENDING"
             => Claim(hnd[h].entity) \subseteq had[hnd[h].event.req]
          /\ hnd[h].pc = "write"
             => hnd[h].entity.status \in Given(had[hnd[h].event.req], given[hnd[h].event.req])
    /\ \A a \in Admins : adm[a].pc \in {"loaded", "write"}
          => adm[a].entity.status \in Given(had[adm[a].req], given[adm[a].req])

(* What the only claim a row has had says about the dates of a call whose  *)
(* overlap query saw it, and about the only claim of the call's own row.   *)
ClearClaim(c, r) ==
    /\ call[r].pc = "insert"
       => Apart(c, Booked(call[r].from, call[r].to), seen[r].timed)
    /\ \A d : had[r] = {d} /\ d.live => Apart(c, d, seen[r].timed)
SteadyClear ==
    \A r \in Requests : \A q \in seen[r].rows : \A c :
        Owner[q] = Owner[r] /\ had[q] = {c} /\ c.live => ClearClaim(c, r)

HistoryInv == RowInv /\ MemoryKept /\ GivenOnly /\ SteadyClear

-----------------------------------------------------------------------------
(* The memory.                                                             *)

LEMMA ClaimOfLive ==
    ASSUME NEW x, x.status \in Active
    PROVE  Claim(x) = {[from |-> x.from, to |-> x.to, live |-> TRUE]}
BY DEF Claim

LEMMA ClaimOfOther ==
    ASSUME NEW x, x.status \notin Active
    PROVE  Claim(x) = {[from |-> 0, to |-> 0, live |-> FALSE]}
BY DEF Claim

LEMMA ClaimExists == \A x : Claim(x) # {}
BY DEF Claim

(* What a step adds to the memory of one row.                              *)
LEMMA HadMoves ==
    ASSUME Remember, NEW r \in Requests
    PROVE  /\ had[r] \subseteq had'[r]
           /\ given[r] \subseteq given'[r]
           /\ had'[r] = {} <=> had[r] = {} /\ row'[r] = Absent
           /\ row'[r] # Absent => had'[r] = had[r] \cup Claim(row'[r])
BY ClaimExists DEF Remember

(* A row of which nothing is remembered is written by its own INSERT only. *)
LEMMA FirstRow ==
    ASSUME TypeOK, MemoryKept, Next, NEW r \in Requests, had[r] = {},
           row'[r] # Absent
    PROVE  /\ Insert(r)
           /\ row'[r] = Booked(call[r].from, call[r].to)
<1>0. /\ row \in [Requests -> Row \cup {Absent}]
      /\ row[r] = Absent
      /\ ~Known(r)
      /\ \A a \in Admins : ~Edits(a, r)
  BY DEF TypeOK, MemoryKept
<1>1. ASSUME NEW q \in Requests, Insert(q)
      PROVE  Insert(r)
  BY <1>0, <1>1 DEF Insert
<1>2. ASSUME NEW h \in Handlers, Write(h)
      PROVE  FALSE
  <2>1. hnd[h].event.req # r
    BY <1>0, <1>2, BusyHandler DEF Write, Busy
  <2> QED BY <1>0, <1>2, <2>1 DEF Write
<1>3. ASSUME NEW a \in Admins, UpdateWrite(a) \/ RemoveDelete(a)
      PROVE  FALSE
  BY <1>0, <1>3 DEF UpdateWrite, RemoveDelete, Edits
<1>4. Insert(r)
  BY <1>0, <1>1, <1>2, <1>3, RowMoves
<1> QED BY <1>0, <1>4 DEF Insert

LEMMA MemoryStep ==
    ASSUME RowInv, MemoryKept, NextH
    PROVE  MemoryKept'
<1> SUFFICES ASSUME NEW r \in Requests
             PROVE  /\ row'[r] # Absent => Claim(row'[r]) \subseteq had'[r]
                    /\ call'[r].pc \in {"idle", "check", "insert"} => had'[r] = {}
                    /\ had'[r] = {} =>
                          /\ row'[r] = Absent
                          /\ ~Known(r)'
                          /\ call'[r].pc \notin {"emit", "confirm"}
                          /\ \A a \in Admins : ~Edits(a, r)'
                    /\ \A q \in seen'[r].rows : had'[q] # {}
  BY DEF MemoryKept, Present, Claim, Known, Edits
<1>0. TypeOK /\ TypeOK' /\ Next /\ Remember /\ RowInv'
  BY RowStep, TypeStep DEF RowInv, NextH
<1>1. row'[r] # Absent => Claim(row'[r]) \subseteq had'[r]
  BY <1>0, HadMoves
<1>2. ASSUME call'[r].pc \in {"idle", "check", "insert"}
      PROVE  had'[r] = {}
  <2>1. had[r] = {}
    BY <1>0, <1>2, CallMoves DEF MemoryKept
  <2>2. row'[r] = Absent
    BY <1>0, <1>2 DEF RowInv, QuietBeforeInsert
  <2> QED BY <1>0, <2>1, <2>2, HadMoves
<1>3. ASSUME had'[r] = {}
      PROVE  /\ row'[r] = Absent
             /\ ~Known(r)'
             /\ call'[r].pc \notin {"emit", "confirm"}
             /\ \A a \in Admins : ~Edits(a, r)'
  <2>1. had[r] = {} /\ row'[r] = Absent
    BY <1>0, <1>3, HadMoves
  <2>2. /\ ~Known(r)
        /\ ~Present(r)
        /\ call[r].pc \notin {"emit", "confirm"}
        /\ \A a \in Admins : ~Edits(a, r)
    BY <2>1 DEF MemoryKept, Present
  <2>3. ~Insert(r)
    BY <1>0, <2>1 DEF Insert, TypeOK, Booked, Absent
  <2>4. ~Known(r)'
    BY <1>0, <2>2, KnownMoves
  <2>5. call'[r].pc \notin {"emit", "confirm"}
    BY <1>0, <2>2, <2>3, CallMoves
  <2>6. \A a \in Admins : ~Edits(a, r)'
    BY <1>0, <2>2, AdmMoves
  <2> QED BY <2>1, <2>4, <2>5, <2>6
<1>4. ASSUME NEW q \in seen'[r].rows
      PROVE  had'[q] # {}
  <2>0. q \in Requests
    BY <1>0 DEF TypeOK
  <2>1. had[q] # {}
    <3>1. CASE CheckOverlap(r)
      <4>1. Present(q)
        BY <1>0, <3>1 DEF CheckOverlap, TypeOK
      <4> QED BY <2>0, <4>1, ClaimExists DEF MemoryKept
    <3>2. CASE seen'[r] = seen[r]
      BY <3>2 DEF MemoryKept
    <3> QED BY <1>0, <3>1, <3>2, SeenMoves
  <2> QED BY <1>0, <2>0, <2>1, HadMoves
<1> QED BY <1>1, <1>2, <1>3, <1>4

-----------------------------------------------------------------------------
(* Statuses.                                                               *)

LEMMA GivenGrows ==
    ASSUME Remember, NEW r \in Requests
    PROVE  Given(had[r], given[r]) \subseteq Given(had'[r], given'[r])
<1>1. had[r] \subseteq had'[r] /\ given[r] \subseteq given'[r]
  BY HadMoves
<1> QED BY <1>1 DEF Given

(* A save leaves a row with its own status or with that of the entity.     *)
LEMMA SavedStatus ==
    ASSUME NEW current \in Row \cup {Absent}, NEW base, NEW entity \in Row,
           NEW new, new = Saved(current, base, entity),
           new # Absent
    PROVE  \/ new.status = entity.status
           \/ current # Absent /\ new.status = current.status
<1>1. CASE base = Absent
  BY <1>1 DEF Saved
<1>2. CASE base # Absent
  BY <1>2, MergeColumns DEF Saved
<1> QED BY <1>1, <1>2

LEMMA RowGiven ==
    ASSUME RowInv, MemoryKept, GivenOnly, NextH, NEW r \in Requests,
           row'[r] # Absent
    PROVE  row'[r].status \in Given(had'[r], given'[r])
<1>0. /\ TypeOK /\ Next /\ Remember
      /\ row \in [Requests -> Row \cup {Absent}]
      /\ row[r] # Absent => row[r].status \in Given(had[r], given[r])
      /\ Given(had[r], given[r]) \subseteq Given(had'[r], given'[r])
  BY GivenGrows DEF RowInv, TypeOK, NextH, GivenOnly, Present
<1>a. row[r] \in Row \cup {Absent}
  BY <1>0
<1>1. CASE row'[r] = row[r]
  BY <1>0, <1>1
<1>2. ASSUME NEW q \in Requests, Insert(q), row'[r] # row[r]
      PROVE  row'[r].status = "PENDING"
  BY <1>0, <1>2 DEF Insert, Booked
<1>3. ASSUME NEW h \in Handlers, Write(h), row'[r] # row[r]
      PROVE  row'[r].status \in Given(had[r], given[r])
  <2>1. hnd[h].event.req = r /\ hnd[h].pc = "write"
    BY <1>0, <1>3 DEF Write
  <2>2. row'[r] = Saved(row[r], hnd[h].base, hnd[h].entity)
    BY <1>0, <1>3, <2>1 DEF Write
  <2>3. hnd[h].entity \in Row
    <3>1. hnd[h] \in Handler \ {Idle}
      BY <1>0, <2>1, BusyHandler DEF Busy
    <3> QED BY <1>0, <2>1, <3>1 DEF Handler, TypeOK
  <2>4. hnd[h].entity.status \in Given(had[r], given[r])
    BY <2>1 DEF GivenOnly
  <2>5. \/ row'[r].status = hnd[h].entity.status
        \/ row[r] # Absent /\ row'[r].status = row[r].status
    BY <1>a, <2>2, <2>3, SavedStatus
  <2> QED BY <1>0, <2>4, <2>5
<1>4. ASSUME NEW a \in Admins, UpdateWrite(a), row'[r] # row[r]
      PROVE  row'[r].status \in Given(had[r], given[r])
  <2>1. adm[a].req = r /\ adm[a].pc = "write"
    BY <1>0, <1>4 DEF UpdateWrite
  <2>2. row'[r] = Saved(row[r], adm[a].base, adm[a].entity)
    BY <1>0, <1>4, <2>1 DEF UpdateWrite
  <2>3. adm[a].entity \in Row
    BY <1>0, <2>1 DEF TypeOK, AdmCall, NoAdm, AdmDone
  <2>4. adm[a].entity.status \in Given(had[r], given[r])
    BY <2>1 DEF GivenOnly
  <2>5. \/ row'[r].status = adm[a].entity.status
        \/ row[r] # Absent /\ row'[r].status = row[r].status
    BY <1>a, <2>2, <2>3, SavedStatus
  <2> QED BY <1>0, <2>4, <2>5
<1>5. ASSUME NEW a \in Admins, RemoveDelete(a)
      PROVE  row'[r] = row[r]
  BY <1>0, <1>5 DEF RemoveDelete
<1>6. "PENDING" \in Given(had'[r], given'[r])
  BY DEF Given
<1> QED BY <1>0, <1>1, <1>2, <1>3, <1>4, <1>5, <1>6, RowMoves

LEMMA HandlerGiven ==
    ASSUME RowInv, MemoryKept, GivenOnly, NextH, NEW h \in Handlers
    PROVE  /\ hnd'[h].pc = "found" /\ hnd'[h].entity.status = "PENDING"
              => Claim(hnd'[h].entity) \subseteq had'[hnd'[h].event.req]
           /\ hnd'[h].pc = "write"
              => hnd'[h].entity.status \in Given(had'[hnd'[h].event.req], given'[hnd'[h].event.req])
<1> DEFINE P == /\ hnd'[h].pc = "found" /\ hnd'[h].entity.status = "PENDING"
                   => Claim(hnd'[h].entity) \subseteq had'[hnd'[h].event.req]
                /\ hnd'[h].pc = "write"
                   => hnd'[h].entity.status \in Given(had'[hnd'[h].event.req], given'[hnd'[h].event.req])
<1> DEFINE r == hnd[h].event.req
<1>0. TypeOK /\ Next /\ Remember /\ hnd \in [Handlers -> Handler]
  BY DEF RowInv, TypeOK, NextH
<1>1. Busy(h) => /\ hnd[h] \in Handler \ {Idle}
                 /\ r \in Requests
                 /\ had[r] \subseteq had'[r]
                 /\ Given(had[r], given[r]) \subseteq Given(had'[r], given'[r])
  BY <1>0, BusyHandler, HadMoves, GivenGrows
<1>2. ASSUME hnd'[h].pc = hnd[h].pc, hnd'[h].event = hnd[h].event,
             hnd'[h].entity = hnd[h].entity
      PROVE  P
  <2>1. CASE Busy(h)
    BY <1>1, <1>2, <2>1 DEF GivenOnly
  <2>2. CASE ~Busy(h)
    BY <1>2, <2>2 DEF Busy
  <2> QED BY <2>1, <2>2
<1>3. CASE Find(h)
  <2>0. Busy(h)
    BY <1>3 DEF Find, Busy
  <2>1. /\ hnd'[h].pc = "found"
        /\ hnd'[h].event = hnd[h].event
        /\ hnd'[h].entity = row[r]
    BY <1>0, <1>1, <1>3, <2>0 DEF Find, Handler
  <2>2. row[r].status = "PENDING" => Claim(row[r]) \subseteq had[r]
    BY <1>1, <2>0 DEF MemoryKept, Present, Absent
  <2> QED BY <1>1, <2>0, <2>1, <2>2
<1>4. CASE Decide(h)
  <2>0. Busy(h)
    BY <1>4 DEF Decide, Busy
  <2> DEFINE x == hnd[h].entity
  <2>1. /\ hnd'[h].pc = "write"
        /\ hnd'[h].event = hnd[h].event
        /\ \E now \in Times : hnd'[h].entity = Decided(x, now)
    BY <1>0, <1>4, DecideEffect
  <2>2. x \in Row /\ x.status = "PENDING"
    BY <1>1, <1>4, <2>0 DEF Decide, Handler, Absent
  <2>3. [from |-> x.from, to |-> x.to, live |-> TRUE] \in had[r]
    BY <1>4, <2>2, ClaimOfLive DEF Decide, GivenOnly, Active
  <2>4. Verdict(x.from, x.to) \in Given(had[r], given[r])
    BY <2>3 DEF Given
  <2>5. hnd'[h].entity.status = Verdict(x.from, x.to)
    BY <2>1, <2>2, DecidedType
  <2> QED BY <1>1, <2>0, <2>1, <2>4, <2>5
<1>5. CASE Delivery(h) \/ Skip(h) \/ Write(h) \/ AckSaved(h) \/ Catch(h)
           \/ Republish(h) \/ AckRetried(h) \/ DbFails(h) \/ hnd'[h] = Idle
  <2>1. hnd'[h].pc \notin {"found", "write"}
    BY <1>0, <1>5 DEF Delivery, Deliver, Skip, Write, AckSaved, AckInTry, Catch,
                      Republish, AckRetried, DbFails, Handler, Idle
  <2> QED BY <2>1
<1>6. CASE Busy(h) /\ hnd'[h] = [hnd[h] EXCEPT !.held = FALSE]
  <2>1. /\ hnd'[h].pc = hnd[h].pc
        /\ hnd'[h].event = hnd[h].event
        /\ hnd'[h].entity = hnd[h].entity
    BY <1>1, <1>6 DEF Handler
  <2> QED BY <1>2, <2>1
<1> QED BY <1>0, <1>2, <1>3, <1>4, <1>5, <1>6, HandlerMoves DEF HandlerStep

(* What a PATCH is about to write has been read, or set by it.             *)
LEMMA AdmSource ==
    ASSUME TypeOK, Next, Remember, NEW a \in Admins,
           adm'[a].pc \in {"loaded", "write"}
    PROVE  \/ /\ adm[a].pc \in {"loaded", "write"}
              /\ adm'[a].req = adm[a].req
              /\ adm'[a].entity = adm[a].entity
           \/ /\ adm'[a].req \in Requests
              /\ Present(adm'[a].req)
              /\ adm'[a].entity.status
                   \in {row[adm'[a].req].status} \cup given'[adm'[a].req]
<1> DEFINE P == \/ /\ adm[a].pc \in {"loaded", "write"}
                   /\ adm'[a].req = adm[a].req
                   /\ adm'[a].entity = adm[a].entity
                \/ /\ adm'[a].req \in Requests
                   /\ Present(adm'[a].req)
                   /\ adm'[a].entity.status
                        \in {row[adm'[a].req].status} \cup given'[adm'[a].req]
<1>0. adm \in [Admins -> AdmCall] /\ row \in [Requests -> Row \cup {Absent}]
  BY DEF TypeOK
<1>1. CASE adm'[a] = adm[a]
  BY <1>1
<1>2. ASSUME NEW q \in Requests, NEW i \in Instances, UpdateFind(a, q, i)
      PROVE  P
  <2>1. Present(q)
    <3> SUFFICES ASSUME row[q] = Absent PROVE FALSE
      BY DEF Present
    <3>1. adm' = [adm EXCEPT ![a] = AdmDone]
      BY <1>2 DEF UpdateFind
    <3> QED BY <1>0, <3>1 DEF AdmDone
  <2>2. PICK from \in Assigned(row[q].from), to \in Assigned(row[q].to),
             status \in {row[q].status} \cup PatchStatuses :
          adm' = [adm EXCEPT ![a] = Patching(q, i, from, to, status)]
    BY <1>2, <2>1 DEF UpdateFind, Present
  <2>3. row[q] \in Row
    BY <1>0, <2>1 DEF Present
  <2>4. adm'[a].req = q /\ adm'[a].entity.status = status
    BY <1>0, <2>2, <2>3 DEF Row, Patching
  <2>5. status # row[q].status => status \in given'[q]
    <3>1. status # row[q].status => a \in GivenBy(q)
      BY <1>0, <1>2, <2>2, <2>4 DEF GivenBy, UpdateFind, Patching
    <3> QED BY <2>4, <3>1 DEF Remember
  <2> QED BY <2>1, <2>4, <2>5
<1>3. CASE UpdateReload(a)
  <2>1. adm[a] \in AdmCall \ {NoAdm, AdmDone}
    BY <1>0, <1>3 DEF UpdateReload, NoAdm, AdmDone
  <2> QED BY <1>0, <1>3, <2>1 DEF UpdateReload, AdmCall
<1>4. ASSUME NEW q \in Requests, NEW i \in Instances, RemoveFind(a, q, i)
      PROVE  FALSE
  BY <1>0, <1>4 DEF RemoveFind, AdmDone
<1>5. CASE UpdateWrite(a) \/ RemoveDelete(a) \/ AdmFails(a)
  BY <1>0, <1>5 DEF UpdateWrite, RemoveDelete, AdmFails, AdmDone
<1>6. ASSUME NEW i \in Instances, Crash(i)
      PROVE  P
  BY <1>0, <1>6 DEF Crash, AdmDone
<1>7. \/ UNCHANGED adm
      \/ \E b \in Admins, q \in Requests, i \in Instances :
            UpdateFind(b, q, i) \/ RemoveFind(b, q, i)
      \/ \E b \in Admins : AdmStep(b) \/ AdmFails(b)
      \/ \E i \in Instances : Crash(i)
  BY DEF Next, CallStep, Delivery, HandlerStep, Environment, Submit,
         CheckOverlap, Insert, Emit, Confirm, ProducerDrop, CallFails, EmitLost,
         Deliver, Find, Skip, AckSaved, AckInTry, Decide, Write, Catch,
         Republish, AckRetried, DbFails, Drop, BrokerRestart
<1>8. ASSUME NEW b \in Admins, b # a,
             \/ \E q \in Requests, i \in Instances :
                   UpdateFind(b, q, i) \/ RemoveFind(b, q, i)
             \/ AdmStep(b) \/ AdmFails(b)
      PROVE  adm'[a] = adm[a]
  BY <1>0, <1>8 DEF UpdateFind, RemoveFind, AdmStep, UpdateReload, UpdateWrite,
                    RemoveDelete, AdmFails
<1> QED BY <1>1, <1>2, <1>3, <1>4, <1>5, <1>6, <1>7, <1>8 DEF AdmStep

LEMMA GivenStep ==
    ASSUME RowInv, MemoryKept, GivenOnly, NextH
    PROVE  GivenOnly'
<1>0. TypeOK /\ Next /\ Remember
  BY DEF RowInv, NextH
<1>1. ASSUME NEW a \in Admins, adm'[a].pc \in {"loaded", "write"}
      PROVE  adm'[a].entity.status \in Given(had'[adm'[a].req], given'[adm'[a].req])
  <2>1. CASE /\ adm[a].pc \in {"loaded", "write"}
             /\ adm'[a].req = adm[a].req
             /\ adm'[a].entity = adm[a].entity
    <3>1. adm[a].req \in Requests
      BY <1>0, <2>1 DEF TypeOK, AdmCall, NoAdm, AdmDone
    <3> QED BY <1>0, <2>1, <3>1, GivenGrows DEF GivenOnly
  <2>2. CASE /\ adm'[a].req \in Requests
             /\ Present(adm'[a].req)
             /\ adm'[a].entity.status
                  \in {row[adm'[a].req].status} \cup given'[adm'[a].req]
    <3> DEFINE r == adm'[a].req
    <3>1. adm'[a].entity.status \in Given(had[r], given[r]) \cup given'[r]
      BY <2>2 DEF GivenOnly
    <3>2. Given(had[r], given[r]) \subseteq Given(had'[r], given'[r])
      BY <1>0, <2>2, GivenGrows
    <3> QED BY <3>1, <3>2 DEF Given
  <2> QED BY <1>0, <1>1, <2>1, <2>2, AdmSource
<1>2. \A r \in Requests : row'[r] # Absent => row'[r].status \in Given(had'[r], given'[r])
  BY RowGiven
<1> QED BY <1>1, <1>2, HandlerGiven DEF GivenOnly, Present, Given

-----------------------------------------------------------------------------
(* Claims.                                                                 *)

LEMMA SteadyStep ==
    ASSUME RowInv, MemoryKept, SteadyClear, NextH
    PROVE  SteadyClear'
<1>0. /\ TypeOK /\ TypeOK' /\ Next /\ Remember
      /\ call \in [Requests -> Call]
  BY TypeStep DEF RowInv, TypeOK, NextH
<1> SUFFICES ASSUME NEW r \in Requests, NEW q \in seen'[r].rows, NEW c,
                    Owner[q] = Owner[r], had'[q] = {c}, c.live
             PROVE  /\ call'[r].pc = "insert"
                       => Apart(c, Booked(call'[r].from, call'[r].to),
                                seen'[r].timed)
                    /\ \A d : had'[r] = {d} /\ d.live
                          => Apart(c, d, seen'[r].timed)
  BY DEF SteadyClear, ClearClaim
<1>1. q \in Requests
  BY <1>0 DEF TypeOK
<1>2. had[q] \subseteq {c}
  BY <1>0, <1>1, HadMoves
<1>3. CASE CheckOverlap(r)
  <2>1. /\ UNCHANGED row
        /\ call[r].pc = "check"
        /\ row[r] = Absent
        /\ had[r] = {}
        /\ Present(q)
    BY <1>0, <1>3 DEF CheckOverlap, TypeOK, RowInv, QuietBeforeInsert, MemoryKept
  <2>2. had'[r] = {}
    BY <1>0, <2>1, HadMoves
  <2>3. Claim(row[q]) \subseteq {c}
    BY <1>1, <1>2, <2>1 DEF MemoryKept
  <2>4. row[q].status \in Active
    <3>1. CASE row[q].status \notin Active
      <4>1. c = [from |-> 0, to |-> 0, live |-> FALSE]
        BY <2>3, <3>1, ClaimOfOther
      <4> QED BY <4>1
    <3> QED BY <3>1
  <2>5. c = [from |-> row[q].from, to |-> row[q].to, live |-> TRUE]
    BY <2>3, <2>4, ClaimOfLive
  <2>6. ASSUME call'[r].pc = "insert"
        PROVE  Apart(c, Booked(call'[r].from, call'[r].to), seen'[r].timed)
    <3>1. /\ call'[r].from = call[r].from /\ call'[r].to = call[r].to
          /\ Overlapping(r) = {}
      BY <1>0, <1>3, <2>6 DEF CheckOverlap, CallEnded, TypeOK, Call, NoCall
    <3>2. q \notin Overlapping(r)
      BY <3>1
    <3>3. Apart(row[q], Booked(call[r].from, call[r].to), seen'[r].timed)
      BY <1>0, <1>1, <1>3, <2>1, <2>4, <3>2, QueryLeavesApart
    <3>4. SameDates(c, row[q])
      BY <2>5 DEF SameDates
    <3> QED BY <3>1, <3>3, <3>4, SameDatesApart DEF SameDates
  <2> QED BY <2>2, <2>6
<1>4. CASE seen'[r] = seen[r] /\ ~CheckOverlap(r)
  <2>1. q \in seen[r].rows /\ had[q] = {c}
    BY <1>2, <1>4 DEF MemoryKept
  <2>2. ClearClaim(c, r)
    BY <2>1 DEF SteadyClear
  <2>3. call'[r].pc = "insert"
          => Apart(c, Booked(call'[r].from, call'[r].to), seen'[r].timed)
    BY <1>0, <1>4, <2>2, CallMoves DEF ClearClaim
  <2>4. ASSUME NEW d, had'[r] = {d}, d.live
        PROVE  Apart(c, d, seen[r].timed)
    <3>1. CASE had[r] # {}
      <4>1. had[r] = {d}
        BY <1>0, <2>4, <3>1, HadMoves
      <4> QED BY <2>2, <2>4, <4>1 DEF ClearClaim
    <3>2. CASE had[r] = {}
      <4> DEFINE b == Booked(call[r].from, call[r].to)
      <4>1. row'[r] # Absent /\ Claim(row'[r]) = {d}
        BY <1>0, <2>4, <3>2, HadMoves
      <4>2. Insert(r) /\ row'[r] = b
        BY <1>0, <3>2, <4>1, FirstRow
      <4>3. d = [from |-> b.from, to |-> b.to, live |-> TRUE]
        BY <4>1, <4>2, ClaimOfLive DEF Active, Booked
      <4>4. SameDates(d, b) /\ SameDates(c, c)
        BY <4>3 DEF SameDates
      <4>5. Apart(c, b, seen[r].timed)
        BY <2>2, <4>2 DEF Insert, ClearClaim
      <4> HIDE DEF b
      <4> QED BY <4>4, <4>5, SameDatesApart
    <3> QED BY <3>1, <3>2
  <2> QED BY <1>4, <2>3, <2>4
<1> QED BY <1>0, <1>3, <1>4, SeenMoves

LEMMA HistoryInvariant == SpecH => []HistoryInv
<1>1. InitH => HistoryInv
  <2> SUFFICES ASSUME InitH PROVE HistoryInv
    OBVIOUS
  <2>1. RowInv /\ \A r \in Requests : ~Known(r)
    BY InitRowInv DEF InitH, Init, RowInv, QuietBeforeInsert, NoCall
  <2>2. MemoryKept
    BY <2>1 DEF InitH, Init, MemoryKept, Present, Edits, NoCall, NoAdm
  <2>3. GivenOnly /\ SteadyClear
    BY DEF InitH, Init, GivenOnly, SteadyClear, Present, Idle, NoAdm
  <2> QED BY <2>1, <2>2, <2>3 DEF HistoryInv
<1>2. HistoryInv /\ NextH => HistoryInv'
  BY RowStep, MemoryStep, GivenStep, SteadyStep DEF HistoryInv, NextH
<1>3. HistoryInv /\ UNCHANGED varsH => HistoryInv'
  <2> SUFFICES ASSUME HistoryInv, UNCHANGED varsH PROVE HistoryInv'
    OBVIOUS
  <2>1. RowInv'
    BY RowStep DEF HistoryInv, varsH
  <2>2. UNCHANGED <<row, call, ready, dlq, hnd, adm, seen, had, given>>
    BY DEF vars, varsH
  <2>3. \A r \in Requests : Known(r)' <=> Known(r)
    BY <2>2 DEF Known, Queued, Parked, Busy
  <2>4. MemoryKept'
    BY <2>2, <2>3 DEF HistoryInv, MemoryKept, Present, Edits
  <2>5. GivenOnly' /\ SteadyClear'
    BY <2>2 DEF HistoryInv, GivenOnly, SteadyClear, ClearClaim, Present
  <2> QED BY <2>1, <2>4, <2>5 DEF HistoryInv
<1> QED BY <1>1, <1>2, <1>3, PTL DEF SpecH

(* However PATCH, DELETE and the handlers race, every status on file is    *)
(* PENDING, was set by an administrator, or follows from dates the row has *)
(* really had.                                                             *)
THEOREM VerdictsAreOfHeldDates == SpecH => []VerdictOfHeldDates
<1>1. HistoryInv => VerdictOfHeldDates
  BY DEF HistoryInv, GivenOnly, Given, VerdictOfHeldDates
<1> QED BY <1>1, HistoryInvariant, PTL

(* Whatever PATCH and DELETE do to other requests, the overlap check keeps *)
(* two requests apart whose own claims have never changed, unless their    *)
(* POSTs raced.                                                            *)
THEOREM OverlapNeedsAMoveOrARace == SpecH => []OverlapOnlyByMoveOrRace
<1>1. HistoryInv => OverlapOnlyByMoveOrRace
  <2> SUFFICES ASSUME HistoryInv, NEW r \in Requests, NEW q \in Requests,
                      Steady(r), Steady(q), Owner[r] = Owner[q],
                      row[r].status \in Active, row[q].status \in Active,
                      Overlaps(row[r], row[q])
               PROVE  MissedBy(r, q) /\ MissedBy(q, r)
    BY DEF OverlapOnlyByMoveOrRace
  <2> DEFINE C(p) == [from |-> row[p].from, to |-> row[p].to, live |-> TRUE]
  <2>1. ASSUME NEW p \in {r, q}
        PROVE  had[p] = {C(p)} /\ SameDates(C(p), row[p]) /\ row[p] \in Row
    <3>1. Present(p) /\ row[p] \in Row
      BY DEF Present, Active, Absent, HistoryInv, RowInv, TypeOK
    <3>2. C(p) \in had[p]
      BY <3>1, ClaimOfLive DEF HistoryInv, MemoryKept
    <3> QED BY <3>1, <3>2 DEF Steady, SameDates
  <2>2. Overlaps(row[q], row[r])
    BY <2>1, OverlapsSymmetric
  <2>3. Overlaps(C(r), C(q)) /\ Overlaps(C(q), C(r))
    BY <2>1, <2>2 DEF Overlaps, SameDates
  <2>4. C(r).live /\ C(q).live
    OBVIOUS
  <2>5. /\ C(r).from = row[r].from /\ C(r).to = row[r].to
        /\ C(q).from = row[q].from /\ C(q).to = row[q].to
    OBVIOUS
  <2> HIDE DEF C
  <2> QED BY <2>1, <2>3, <2>4, <2>5
          DEF HistoryInv, SteadyClear, ClearClaim, Apart, MissedBy
<1> QED BY <1>1, HistoryInvariant, PTL

(* The memory takes no part in what the pipeline does: every behaviour with*)
(* it is one of LeavePipeline, and what is proved there holds here.        *)
THEOREM HistoryIsThePipeline == SpecH => Spec
<1>1. InitH => Init
  BY DEF InitH
<1>2. [NextH]_varsH => [Next]_vars
  BY DEF NextH, varsH
<1> QED BY <1>1, <1>2, PTL DEF SpecH, Spec
=============================================================================
