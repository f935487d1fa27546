------------------------- MODULE EmployeeCacheProofs -------------------------
(* What is proved of EmployeeCache for any employees, calls and faults.    *)
EXTENDS EmployeeCache, TLAPS

(* A GET that no write has overtaken carries the columns of the row.       *)
LoadedFresh ==
    \A g \in Getters :
        get[g].pc = "loaded" /\ ~get[g].overtaken =>
            LET e == get[g].emp IN
            /\ OnFile(e) /\ get[g].copy.profile = db[e].profile
            /\ get[g].copy.made = commits[e]

(* Only what has been committed is answered, or about to be.               *)
AckedCommitted ==
    /\ \A e \in Employees : acked[e] <= commits[e]
    /\ \A w \in Writers :
          put[w].pc = "invalidate" => put[w].at <= commits[put[w].emp]

Inv ==
    TypeOK /\ LoadedFresh /\ OutdatedOnlyByRace /\ AckedCommitted /\ AnsweredWritesShow

LEMMA SavedType ==
    ASSUME NEW current \in Row \cup {Absent}, NEW base \in Row \cup {Absent},
           NEW entity \in Row
    PROVE  Saved(current, base, entity) \in Row \cup {Absent}
BY DEF Saved, Merge, Row, Absent

LEMMA InitInv == Init => Inv
BY FaultsAssumption DEF Init, Inv, TypeOK, LoadedFresh, OutdatedOnlyByRace, Outdated,
   GetCall, PutCall, Idle, History, AckedCommitted, AnsweredWritesShow

-----------------------------------------------------------------------------

LEMMA GetStepInv ==
    ASSUME Inv, NEW g \in Getters,
           \/ \E e \in Employees : LookUp(g, e)
           \/ GetStep(g) \/ StoreUnanswered(g) \/ LookUpFails(g) \/ StoreFails(g)
    PROVE  Inv'
<1> USE DEF Inv, TypeOK, LoadedFresh, OutdatedOnlyByRace, Outdated, OnFile, AckedCommitted,
     AnsweredWritesShow, ghosts
<1>1. ASSUME NEW e \in Employees, LookUp(g, e) PROVE Inv'
  BY <1>1 DEF LookUp, GetCall, PutCall, Idle
<1>2. CASE Load(g)
  <2>1. get[g].emp \in Employees
    BY <1>2 DEF Load, GetCall, Idle, Failed, Ended
  <2> QED BY <1>2, <2>1 DEF Load, GetCall, Ended, CopyOf, Copy, Row
<1>3. CASE Store(g)
  <2>1. get[g].emp \in Employees /\ get[g].copy \in Copy
    BY <1>3 DEF Store, GetCall, Idle, Failed, Ended
  <2> QED BY <1>3, <2>1 DEF Store, GetCall
<1>4. CASE LookUpFails(g) \/ StoreFails(g)
  BY <1>4 DEF LookUpFails, StoreFails, Fault, GetCall, Failed
<1>5. CASE StoreUnanswered(g)
  <2>1. get[g].emp \in Employees /\ get[g].copy \in Copy
    BY <1>5 DEF StoreUnanswered, GetCall, Idle, Failed, Ended
  <2> QED BY <1>5, <2>1 DEF StoreUnanswered, Fault
<1> QED BY <1>1, <1>2, <1>3, <1>4, <1>5 DEF GetStep

(* Overtaking keeps the type, and marks every GET of e that has loaded.    *)
LEMMA Overtaken ==
    ASSUME TypeOK, NEW e \in Employees
    PROVE  /\ Overtake(e) \in [Getters -> GetCall]
           /\ \A g \in Getters :
                 \/ Overtake(e)[g] = get[g]
                      /\ (get[g].pc = "loaded" => get[g].emp # e)
                 \/ Overtake(e)[g].pc = "loaded" /\ Overtake(e)[g].overtaken
<1>1. ASSUME NEW g \in Getters, get[g].pc = "loaded"
      PROVE  /\ [get[g] EXCEPT !.overtaken = TRUE] \in GetCall
             /\ [get[g] EXCEPT !.overtaken = TRUE].pc = "loaded"
             /\ [get[g] EXCEPT !.overtaken = TRUE].overtaken = TRUE
  <2>1. get[g] \in [pc : {"loaded"}, emp : Employees, copy : Copy,
                    overtaken : BOOLEAN]
    BY <1>1 DEF TypeOK, GetCall, Idle, Failed, Ended
  <2> QED BY <2>1 DEF GetCall
<1> QED BY <1>1 DEF Overtake, TypeOK

(* A write leaves a call behind that has still to delete the copy.         *)
LEMMA CommitInv ==
    ASSUME Inv, NEW w \in Writers, NEW e \in Employees, NEW x \in Row \cup {Absent},
           put[w].pc \in {"write", "remove"}, put[w].emp = e,
           put' = [put EXCEPT ![w] = Committed(e)],
           db' = [db EXCEPT ![e] = x],
           get' = Overtake(e), commits' = [commits EXCEPT ![e] = @ + 1],
           UNCHANGED <<history, cache, excused, acked, faults>>
    PROVE  Inv'
<1> USE DEF Inv
<1>1. TypeOK'
  BY Overtaken DEF TypeOK, PutCall, Committed
<1>2. LoadedFresh'
  <2> SUFFICES ASSUME NEW g \in Getters, get'[g].pc = "loaded", ~get'[g].overtaken
               PROVE  /\ db'[get'[g].emp] # Absent
                      /\ get'[g].copy.profile = db'[get'[g].emp].profile
                      /\ get'[g].copy.made = commits'[get'[g].emp]
    BY DEF LoadedFresh, OnFile
  <2>1. get'[g] = get[g] /\ get[g].emp # e
    BY Overtaken
  <2> QED BY <2>1 DEF LoadedFresh, OnFile, TypeOK
<1>3. OutdatedOnlyByRace'
  <2> SUFFICES ASSUME NEW u \in Employees, Outdated(u)'
               PROVE  \/ u \in excused
                      \/ \E v \in Writers : put'[v].pc = "invalidate" /\ put'[v].emp = u
    BY DEF OutdatedOnlyByRace
  <2>1. CASE u = e
    BY <2>1 DEF TypeOK, Committed
  <2>2. CASE u # e
    <3>1. Outdated(u)
      BY <2>2 DEF Outdated, OnFile, TypeOK
    <3> QED BY <2>2, <3>1 DEF OutdatedOnlyByRace, TypeOK
  <2> QED BY <2>1, <2>2
<1>4. AckedCommitted'
  <2>0. \A u \in Employees : commits[u] \in Nat /\ commits'[u] \in Nat
                               /\ commits[u] <= commits'[u] /\ acked[u] \in Nat
    BY DEF TypeOK
  <2>1. ASSUME NEW u \in Employees PROVE acked'[u] <= commits'[u]
    BY <2>0 DEF AckedCommitted, TypeOK
  <2>2. ASSUME NEW v \in Writers, put'[v].pc = "invalidate"
        PROVE  put'[v].at <= commits'[put'[v].emp]
    <3>1. CASE v = w
      BY <3>1 DEF TypeOK, Committed
    <3>2. CASE v # w
      <4>1. put'[v] = put[v]
        BY <3>2 DEF TypeOK
      <4>2. put[v].at \in Nat /\ put[v].emp \in Employees
        BY <2>2, <4>1 DEF TypeOK, PutCall, Idle, Failed, Ended
      <4> QED BY <2>0, <2>2, <4>1, <4>2 DEF AckedCommitted
    <3> QED BY <3>1, <3>2
  <2> QED BY <2>1, <2>2 DEF AckedCommitted
<1>5. AnsweredWritesShow'
  BY DEF AnsweredWritesShow
<1> QED BY <1>1, <1>2, <1>3, <1>4, <1>5

LEMMA PutStepInv ==
    ASSUME Inv, NEW w \in Writers,
           \/ \E e \in Employees : UpdateFind(w, e) \/ RemoveFind(w, e)
           \/ PutStep(w) \/ WriterFails(w)
    PROVE  Inv'
<1> USE DEF Inv
<1>1. ASSUME NEW e \in Employees, UpdateFind(w, e) \/ RemoveFind(w, e)
      PROVE  Inv'
  BY <1>1 DEF UpdateFind, RemoveFind, PutCall, Idle, Ended, Row, TypeOK,
     LoadedFresh, OutdatedOnlyByRace, Outdated, OnFile, AckedCommitted,
     AnsweredWritesShow, ghosts
<1>2. CASE UpdateDepartment(w) \/ UpdateReload(w)
  BY <1>2 DEF UpdateDepartment, UpdateReload, PutCall, Idle, Ended, Failed, TypeOK,
     LoadedFresh, OutdatedOnlyByRace, Outdated, OnFile, AckedCommitted,
     AnsweredWritesShow, ghosts
<1>3. CASE UpdateWrite(w)
  <2>1. /\ put[w].emp \in Employees
        /\ put[w].entity \in Row
        /\ put[w].base \in Row \cup {Absent}
    BY <1>3 DEF UpdateWrite, TypeOK, PutCall, Idle, Ended, Failed
  <2>2. CASE Conflict(db[put[w].emp], put[w].base)
    BY <1>3, <2>2 DEF UpdateWrite, PutCall, Failed, TypeOK,
       LoadedFresh, OutdatedOnlyByRace, Outdated, OnFile, AckedCommitted,
     AnsweredWritesShow, ghosts
  <2>3. CASE ~Conflict(db[put[w].emp], put[w].base)
    <3>1. Saved(db[put[w].emp], put[w].base, put[w].entity) \in Row \cup {Absent}
      BY <2>1, SavedType DEF TypeOK
    <3> QED BY <1>3, <2>1, <2>3, <3>1, CommitInv DEF UpdateWrite, Commit
  <2> QED BY <2>2, <2>3
<1>4. CASE RemoveDelete(w)
  <2>1. put[w].emp \in Employees
    BY <1>4 DEF RemoveDelete, TypeOK, PutCall, Idle, Ended, Failed
  <2>2. CASE history[put[w].emp] # "none"
    BY <1>4, <2>2 DEF RemoveDelete, PutCall, Failed, TypeOK,
       LoadedFresh, OutdatedOnlyByRace, Outdated, OnFile, AckedCommitted,
     AnsweredWritesShow, ghosts
  <2>3. CASE history[put[w].emp] = "none"
    BY <1>4, <2>1, <2>3, CommitInv DEF RemoveDelete, Commit
  <2> QED BY <2>2, <2>3
<1>5. CASE Invalidate(w)
  <2>1. put[w].emp \in Employees /\ put[w].at \in Nat
    BY <1>5 DEF Invalidate, TypeOK, PutCall, Idle, Ended, Failed
  <2> QED BY <1>5, <2>1 DEF Invalidate, PutCall, TypeOK,
         LoadedFresh, OutdatedOnlyByRace, Outdated, OnFile, AckedCommitted,
     AnsweredWritesShow, ghosts
<1>6. CASE WriterFails(w)
  <2>1. put[w].emp \in Employees
    BY <1>6 DEF WriterFails, TypeOK, PutCall, Idle, Ended, Failed
  <2> QED BY <1>6, <2>1 DEF WriterFails, Fault, PutCall, Failed, TypeOK,
         LoadedFresh, OutdatedOnlyByRace, Outdated, OnFile, AckedCommitted,
     AnsweredWritesShow, ghosts
<1> QED BY <1>1, <1>2, <1>3, <1>4, <1>5, <1>6 DEF PutStep

LEMMA OtherStepInv ==
    ASSUME Inv, NEW e \in Employees,
           LeaveBooked(e) \/ LeaveDecided(e) \/ LeaveDeleted(e) \/ Expire(e)
    PROVE  Inv'
BY DEF LeaveBooked, LeaveDecided, LeaveDeleted, Expire, Inv, TypeOK, History,
   LoadedFresh, OutdatedOnlyByRace, Outdated, OnFile, AckedCommitted,
     AnsweredWritesShow, ghosts

LEMMA Invariance == Spec => []Inv
<1>1. Inv /\ [Next]_vars => Inv'
  <2>1. Inv /\ UNCHANGED vars => Inv'
    BY DEF Inv, TypeOK, LoadedFresh, OutdatedOnlyByRace, Outdated, OnFile, AckedCommitted,
     AnsweredWritesShow, ghosts, vars
  <2> QED BY <2>1, GetStepInv, PutStepInv, OtherStepInv DEF Next
<1> QED BY <1>1, InitInv, PTL DEF Spec

(* Every variable of every reachable state has its type.                   *)
THEOREM CacheTypeCorrect == Spec => []TypeOK
<1>1. Inv => TypeOK
  BY DEF Inv
<1> QED BY <1>1, Invariance, PTL

(* A sequence of calls that do not overlap and do not break off never      *)
(* leaves an outdated copy of an employee in Redis.                        *)
THEOREM OutdatedNeedsARace == Spec => []OutdatedOnlyByRace
<1>1. Inv => OutdatedOnlyByRace
  BY DEF Inv
<1> QED BY <1>1, Invariance, PTL

(* A caller who has the answer to a write reads no older copy, unless a    *)
(* GET was overtaken or a call broke off.                                  *)
THEOREM ReadersSeeAnsweredWrites == Spec => []AnsweredWritesShow
<1>1. Inv => AnsweredWritesShow
  BY DEF Inv
<1> QED BY <1>1, Invariance, PTL
=============================================================================
