---------------------------- MODULE EmployeeCache ----------------------------
(***************************************************************************)
(* The employee record and its copy in Redis.  GET /employees/:id is       *)
(* cache-aside: it answers from Redis, or loads the row with the leave     *)
(* history and stores the copy for about an hour.  PATCH and DELETE change *)
(* the row and then delete the copy.  The leave pipeline changes the       *)
(* history and knows nothing of the copy.                                  *)
(*                                                                         *)
(* Each action is what one await sends to MySQL or to Redis; the calls of  *)
(* all the replicas interleave between the awaits.                         *)
(***************************************************************************)
EXTENDS Naturals, SavedRows

CONSTANTS
    Employees,  \* the employee ids
    Profiles,   \* the contents a row's name, email and department may have
    Getters,    \* the GET calls, one each
    Writers,    \* the PATCH and DELETE calls, one each
    MaxFaults   \* how many calls the environment may break off

ASSUME FaultsAssumption == MaxFaults \in Nat

VARIABLES
    db,         \* the employees table: a row or Absent
    history,    \* the employee's leave requests
    cache,      \* the key employee:{id} in Redis: a copy or Absent
    get,        \* the GET calls
    put,        \* the PATCH and DELETE calls
    excused,    \* employees whose copy an overtaken GET stored, or whose copy
                \* a call that broke off should have deleted
    commits,    \* history: the statements of PATCH and DELETE committed per row
    acked,      \* history: how many of them their callers know of
    faults      \* calls broken off so far

ghosts == <<commits, acked>>
vars == <<db, history, cache, get, put, excused, ghosts, faults>>

-----------------------------------------------------------------------------

Row == [profile : Profiles]
History == {"none", "pending", "decided"}
(* A copy, with the number of commits it was made after.                   *)
Copy == [profile : Profiles, history : History, made : Nat]

Idle == [pc |-> "idle"]
Ended == [pc |-> "ended", answer |-> "refused"]
Failed == [pc |-> "ended", answer |-> "error"]

OnFile(e) == db[e] # Absent

(* Seeded fault: the row is loaded without its leave history.              *)
CopyOfRow(e) == [profile |-> db[e].profile]
CopyOf(e) ==
    [profile |-> db[e].profile, history |-> history[e], made |-> commits[e]]

(* The copy in Redis does not have the row's columns (or the row has gone).*)
Outdated(e) ==
    cache[e] # Absent /\ ~(OnFile(e) /\ cache[e].profile = db[e].profile)

(* Every GET that has loaded e and not stored its copy yet is overtaken by *)
(* a write that commits now.                                               *)
Overtake(e) ==
    [g \in Getters |-> IF get[g].pc = "loaded" /\ get[g].emp = e
                       THEN [get[g] EXCEPT !.overtaken = TRUE]
                       ELSE get[g]]

(* The call that has committed its statement on row e, and its number.     *)
Committed(e) == [pc |-> "invalidate", emp |-> e, at |-> commits[e] + 1]

(* A statement on row e commits.                                           *)
Commit(e, x) ==
    /\ db' = [db EXCEPT ![e] = x]
    /\ get' = Overtake(e)
    /\ commits' = [commits EXCEPT ![e] = @ + 1]

Fault == faults < MaxFaults /\ faults' = faults + 1

-----------------------------------------------------------------------------
(* GET /employees/:id                                                      *)

(* await redis.get: a hit is the answer.                                   *)
LookUp(g, e) ==
    /\ get[g] = Idle
    /\ get' = [get EXCEPT ![g] =
                  IF cache[e] # Absent
                  THEN [pc |-> "ended", answer |-> "copy"]
                  ELSE [pc |-> "missed", emp |-> e]]
    /\ UNCHANGED <<db, history, cache, put, excused, ghosts, faults>>

(* await findWithLeaveHistory: nobody on file is a 404.                    *)
Load(g) ==
    LET e == get[g].emp IN
    /\ get[g].pc = "missed"
    /\ get' = [get EXCEPT ![g] =
                  IF OnFile(e)
                  THEN [pc |-> "loaded", emp |-> e, copy |-> CopyOf(e),
                        overtaken |-> FALSE]
                  ELSE Ended]
    /\ UNCHANGED <<db, history, cache, put, excused, ghosts, faults>>

(* await redis.set with an expiry; the answer is what was loaded.          *)
Store(g) ==
    LET e == get[g].emp IN
    /\ get[g].pc = "loaded"
    /\ cache' = [cache EXCEPT ![e] = get[g].copy]
    /\ excused' = IF get[g].overtaken THEN excused \cup {e} ELSE excused \ {e}
    /\ get' = [get EXCEPT ![g] = [pc |-> "ended", answer |-> "copy"]]
    /\ UNCHANGED <<db, history, put, ghosts, faults>>

(* Redis stores the copy but the reply is lost: the client reconnects and  *)
(* sends the command again, whatever has been written meanwhile.           *)
StoreUnanswered(g) ==
    LET e == get[g].emp IN
    /\ get[g].pc = "loaded"
    /\ Fault
    /\ cache' = [cache EXCEPT ![e] = get[g].copy]
    /\ excused' = IF get[g].overtaken THEN excused \cup {e} ELSE excused \ {e}
    /\ UNCHANGED <<db, history, get, put, ghosts>>

(* A Redis command is rejected after its retries: nothing catches it.      *)
LookUpFails(g) ==
    /\ get[g] = Idle
    /\ Fault
    /\ get' = [get EXCEPT ![g] = Failed]
    /\ UNCHANGED <<db, history, cache, put, excused, ghosts>>
StoreFails(g) ==
    /\ get[g].pc = "loaded"
    /\ Fault
    /\ get' = [get EXCEPT ![g] = Failed]
    /\ UNCHANGED <<db, history, cache, put, excused, ghosts>>

-----------------------------------------------------------------------------
(* PATCH /employees/:id: find, find the department, assign, save (reload,  *)
(* then the statement), delete the copy.                                   *)

UpdateFind(w, e) ==
    /\ put[w] = Idle
    /\ IF OnFile(e)
       THEN \E p \in Profiles :
               put' = [put EXCEPT ![w] = [pc |-> "found", emp |-> e,
                                          entity |-> [profile |-> p]]]
       ELSE put' = [put EXCEPT ![w] = Ended]
    /\ UNCHANGED <<db, history, cache, get, excused, ghosts, faults>>

(* Another query, if the body names a department: not on file is a 404.    *)
UpdateDepartment(w) ==
    /\ put[w].pc = "found"
    /\ \/ put' = [put EXCEPT ![w].pc = "update"]
       \/ put' = [put EXCEPT ![w] = Ended]
    /\ UNCHANGED <<db, history, cache, get, excused, ghosts, faults>>

UpdateReload(w) ==
    /\ put[w].pc = "update"
    /\ put' = [put EXCEPT ![w] =
                  [pc |-> "write", emp |-> put[w].emp,
                   entity |-> put[w].entity, base |-> db[put[w].emp]]]
    /\ UNCHANGED <<db, history, cache, get, excused, ghosts, faults>>

(* Seeded fault: the call ends once the row is saved, without the del.     *)
UpdateWriteOnly(w) ==
    LET e == put[w].emp IN
    /\ put[w].pc = "write"
    /\ put' = [put EXCEPT ![w] = Ended]
    /\ IF Conflict(db[e], put[w].base)
       THEN UNCHANGED <<db, get, ghosts>>
       ELSE /\ Commit(e, Saved(db[e], put[w].base, put[w].entity))
            /\ acked' = [acked EXCEPT ![e] = commits[e] + 1]
    /\ UNCHANGED <<history, cache, excused, faults>>

(* Seeded fault: the answer does not await the del.                        *)
UpdateWriteAnswers(w) ==
    LET e == put[w].emp IN
    /\ put[w].pc = "write"
    /\ ~Conflict(db[e], put[w].base)
    /\ put' = [put EXCEPT ![w] = Committed(e)]
    /\ Commit(e, Saved(db[e], put[w].base, put[w].entity))
    /\ acked' = [acked EXCEPT ![e] = commits[e] + 1]
    /\ UNCHANGED <<history, cache, excused, faults>>

UpdateWrite(w) ==
    LET e == put[w].emp IN
    /\ put[w].pc = "write"
    /\ IF Conflict(db[e], put[w].base)
       THEN /\ put' = [put EXCEPT ![w] = Failed]
            /\ UNCHANGED <<db, get, commits>>
       ELSE /\ put' = [put EXCEPT ![w] = Committed(e)]
            /\ Commit(e, Saved(db[e], put[w].base, put[w].entity))
    /\ UNCHANGED <<history, cache, excused, acked, faults>>

(* DELETE /employees/:id: an employee with leave requests is kept, by the  *)
(* check or, when a request is booked after it, by the foreign key.        *)
RemoveFind(w, e) ==
    /\ put[w] = Idle
    /\ put' = [put EXCEPT ![w] =
                  IF OnFile(e) /\ history[e] = "none"
                  THEN [pc |-> "remove", emp |-> e]
                  ELSE Ended]
    /\ UNCHANGED <<db, history, cache, get, excused, ghosts, faults>>

RemoveDelete(w) ==
    LET e == put[w].emp IN
    /\ put[w].pc = "remove"
    /\ IF history[e] # "none"
       THEN /\ put' = [put EXCEPT ![w] = Failed]
            /\ UNCHANGED <<db, get, commits>>
       ELSE /\ put' = [put EXCEPT ![w] = Committed(e)]
            /\ Commit(e, Absent)
    /\ UNCHANGED <<history, cache, excused, acked, faults>>

(* await redis.del; then the caller has the answer.                        *)
Invalidate(w) ==
    LET e == put[w].emp IN
    /\ put[w].pc = "invalidate"
    /\ cache' = [cache EXCEPT ![e] = Absent]
    /\ excused' = excused \ {e}
    /\ put' = [put EXCEPT ![w] = [pc |-> "ended", answer |-> "done"]]
    /\ acked' = [acked EXCEPT ![e] = IF @ < put[w].at THEN put[w].at ELSE @]
    /\ UNCHANGED <<db, history, get, commits, faults>>

(* A query or the del is rejected, or the instance dies.  Once the row is  *)
(* committed this leaves the old copy behind.                              *)
WriterFails(w) ==
    /\ put[w].pc \in {"found", "update", "write", "remove", "invalidate"}
    /\ Fault
    /\ put' = [put EXCEPT ![w] = Failed]
    /\ excused' = IF put[w].pc = "invalidate"
                  THEN excused \cup {put[w].emp} ELSE excused
    /\ UNCHANGED <<db, history, cache, get, ghosts>>

-----------------------------------------------------------------------------
(* The leave pipeline, and the expiry of keys.                             *)

LeaveBooked(e) ==
    /\ OnFile(e)
    /\ history[e] = "none"
    /\ history' = [history EXCEPT ![e] = "pending"]
    /\ UNCHANGED <<db, cache, get, put, excused, ghosts, faults>>
LeaveDecided(e) ==
    /\ history[e] = "pending"
    /\ history' = [history EXCEPT ![e] = "decided"]
    /\ UNCHANGED <<db, cache, get, put, excused, ghosts, faults>>
LeaveDeleted(e) ==
    /\ history[e] # "none"
    /\ history' = [history EXCEPT ![e] = "none"]
    /\ UNCHANGED <<db, cache, get, put, excused, ghosts, faults>>

Expire(e) ==
    /\ cache[e] # Absent
    /\ cache' = [cache EXCEPT ![e] = Absent]
    /\ excused' = excused \ {e}
    /\ UNCHANGED <<db, history, get, put, ghosts, faults>>

-----------------------------------------------------------------------------

Init ==
    /\ db \in [Employees -> Row]
    /\ history = [e \in Employees |-> "none"]
    /\ cache = [e \in Employees |-> Absent]
    /\ get = [g \in Getters |-> Idle]
    /\ put = [w \in Writers |-> Idle]
    /\ excused = {}
    /\ commits = [e \in Employees |-> 0]
    /\ acked = [e \in Employees |-> 0]
    /\ faults = 0

GetStep(g) == Load(g) \/ Store(g)
PutStep(w) ==
    \/ UpdateDepartment(w) \/ UpdateReload(w) \/ UpdateWrite(w)
    \/ RemoveDelete(w) \/ Invalidate(w)

Next ==
    \/ \E g \in Getters :
          \/ \E e \in Employees : LookUp(g, e)
          \/ GetStep(g) \/ StoreUnanswered(g) \/ LookUpFails(g) \/ StoreFails(g)
    \/ \E w \in Writers :
          \/ \E e \in Employees : UpdateFind(w, e) \/ RemoveFind(w, e)
          \/ PutStep(w) \/ WriterFails(w)
    \/ \E e \in Employees :
          LeaveBooked(e) \/ LeaveDecided(e) \/ LeaveDeleted(e) \/ Expire(e)

Spec == Init /\ [][Next]_vars

-----------------------------------------------------------------------------
(* Properties.                                                             *)

GetCall == {Idle, Failed, Ended, [pc |-> "ended", answer |-> "copy"]}
           \cup [pc : {"missed"}, emp : Employees]
           \cup [pc : {"loaded"}, emp : Employees, copy : Copy,
                 overtaken : BOOLEAN]
PutCall == {Idle, Failed, Ended, [pc |-> "ended", answer |-> "done"]}
           \cup [pc : {"found", "update"}, emp : Employees, entity : Row]
           \cup [pc : {"write"}, emp : Employees, entity : Row,
                 base : Row \cup {Absent}]
           \cup [pc : {"remove"}, emp : Employees]
           \cup [pc : {"invalidate"}, emp : Employees, at : Nat]

(* Every variable holds a value of its type.                               *)
TypeOK ==
    /\ db \in [Employees -> Row \cup {Absent}]
    /\ history \in [Employees -> History]
    /\ cache \in [Employees -> Copy \cup {Absent}]
    /\ get \in [Getters -> GetCall]
    /\ put \in [Writers -> PutCall]
    /\ excused \subseteq Employees
    /\ commits \in [Employees -> Nat] /\ acked \in [Employees -> Nat]
    /\ faults \in Nat

(* The copy in Redis lags behind the row only while a PATCH or DELETE has  *)
(* still to delete it, or when a GET that the write overtook stored it, or *)
(* when the call that had to delete it broke off.                          *)
OutdatedOnlyByRace ==
    \A e \in Employees : Outdated(e) =>
        \/ e \in excused
        \/ \E w \in Writers : put[w].pc = "invalidate" /\ put[w].emp = e

(* Whoever has the answer to a PATCH or DELETE and asks for the employee   *)
(* then is not shown what it was before: the copy in Redis was made after  *)
(* every statement whose caller has been answered - short of the copy of a *)
(* GET that a write overtook, or of a call that broke off before its del.  *)
AnsweredWritesShow ==
    \A e \in Employees :
        cache[e] # Absent /\ e \notin excused => cache[e].made >= acked[e]

-----------------------------------------------------------------------------
(* What the repository says of this code and the code does not do.         *)

(* employee.service.ts:103, "Invalidate cache": when no PATCH or DELETE is *)
(* between its save and its del, Redis has no copy older than the row.     *)
InvalidatedForGood ==
    (\A w \in Writers : put[w].pc # "invalidate")
        => \A e \in Employees : ~Outdated(e)
=============================================================================
