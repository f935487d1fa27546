---------------------------- MODULE OrgDirectory ----------------------------
(***************************************************************************)
(* The handlers of departments and employees, and the booking of a leave   *)
(* request as far as it depends on them.  Each checks first and writes     *)
(* later, with awaits between; the calls of all replicas interleave there. *)
(* An action is one query or statement and what the code does with its     *)
(* answer.                                                                 *)
(***************************************************************************)
EXTENDS OrgTables

CONSTANT Calls      \* the HTTP calls, one each

VARIABLES
    call,           \* where each call stands
    born,           \* the ids (uuids) handed out so far
    overtaken       \* history: the running calls whose tables have changed
                    \* since they began

vars == <<dept, emp, leave, call, born, overtaken>>

Idle == [pc |-> "idle"]
Done == [pc |-> "done"]         \* a 2xx answer
Refused == [pc |-> "refused"]   \* a 404 or 409 of a check
Denied == [pc |-> "denied"]     \* a 500: an index or a key refused the statement
Failed == [pc |-> "failed"]     \* a 500 of any other kind, or no answer

Busy(c) == call[c].pc \notin {"idle", "done", "refused", "denied", "failed"}

Become(c, next) == call' = [call EXCEPT ![c] = next]

-----------------------------------------------------------------------------
(* Departments.                                                            *)

(* create: the name is looked up, then the row inserted.                   *)
CreateDept(c, d, n) ==
    /\ call[c] = Idle
    /\ d \notin born
    /\ born' = born \cup {d}
    /\ Become(c, IF NameTaken(n, d) THEN Refused
                 ELSE [pc |-> "deptWrite", id |-> d, entity |-> [name |-> n],
                       base |-> Absent])
    /\ UNCHANGED tables

(* update: a PATCH may leave the name out.                                 *)
UpdateDept(c, d) ==
    /\ call[c] = Idle
    /\ IF HasDept(d)
       THEN \/ Become(c, [pc |-> "deptSave", id |-> d, entity |-> dept[d]])
            \/ \E n \in Names :
                  Become(c, [pc |-> "deptName", id |-> d,
                             entity |-> [name |-> n]])
       ELSE Become(c, Refused)
    /\ UNCHANGED <<tables, born>>

CheckName(c) ==
    /\ call[c].pc = "deptName"
    /\ Become(c, IF NameTaken(call[c].entity.name, call[c].id) THEN Refused
                 ELSE [call[c] EXCEPT !.pc = "deptSave"])
    /\ UNCHANGED <<tables, born>>

ReloadDept(c) ==
    /\ call[c].pc = "deptSave"
    /\ Become(c, [pc |-> "deptWrite", id |-> call[c].id,
                  entity |-> call[c].entity, base |-> dept[call[c].id]])
    /\ UNCHANGED <<tables, born>>

WriteDept(c) ==
    LET d == call[c].id
        new == Saved(dept[d], call[c].base, call[c].entity)
    IN
    /\ call[c].pc = "deptWrite"
    /\ IF Conflict(dept[d], call[c].base) \/ (new # Absent /\ NameTaken(new.name, d))
       THEN Become(c, Denied) /\ UNCHANGED dept
       ELSE Become(c, Done) /\ dept' = [dept EXCEPT ![d] = new]
    /\ UNCHANGED <<emp, leave, born>>

(* remove: a department with employees is kept.                            *)
RemoveDept(c, d) ==
    /\ call[c] = Idle
    /\ Become(c, IF HasDept(d) /\ ~Staffed(d)
                 THEN [pc |-> "deptDelete", id |-> d] ELSE Refused)
    /\ UNCHANGED <<tables, born>>

DeleteDept(c) ==
    LET d == call[c].id IN
    /\ call[c].pc = "deptDelete"
    /\ IF Staffed(d)
       THEN Become(c, Denied) /\ UNCHANGED dept
       ELSE Become(c, Done) /\ dept' = [dept EXCEPT ![d] = Absent]
    /\ UNCHANGED <<emp, leave, born>>

-----------------------------------------------------------------------------
(* Employees.                                                              *)

(* Seeded fault: remove does not look at the leave requests.               *)
RemoveEmpAnyhow(c, u) ==
    /\ call[c] = Idle
    /\ Become(c, IF HasEmp(u) THEN [pc |-> "empDelete", id |-> u] ELSE Refused)
    /\ UNCHANGED <<tables, born>>

(* create: the department is looked up, then the address, then (after the  *)
(* password is hashed) the row inserted.                                   *)
CreateEmp(c, u, m, d) ==
    /\ call[c] = Idle
    /\ u \notin born
    /\ born' = born \cup {u}
    /\ Become(c, IF HasDept(d)
                 THEN [pc |-> "empMail", id |-> u,
                       entity |-> [email |-> m, dept |-> d]]
                 ELSE Refused)
    /\ UNCHANGED tables

CheckMail(c) ==
    /\ call[c].pc = "empMail"
    /\ Become(c, IF MailTaken(call[c].entity.email, call[c].id) THEN Refused
                 ELSE [pc |-> "empWrite", id |-> call[c].id,
                       entity |-> call[c].entity, base |-> Absent])
    /\ UNCHANGED <<tables, born>>

(* Seeded fault: the entity is replaced by the body of the PATCH.          *)
AssignedAnew(entity, m, d) == [email |-> m]

(* Object.assign                                                           *)
Assigned(entity, m, d) == [entity EXCEPT !.email = m, !.dept = d]

(* update: the fields left out of the PATCH keep what was read; a new      *)
(* department is looked up first, a new address is not.                    *)
UpdateEmp(c, u) ==
    /\ call[c] = Idle
    /\ IF HasEmp(u)
       THEN \E m \in {emp[u].email} \cup Mails :
               \/ Become(c, [pc |-> "empSave", id |-> u,
                             entity |-> Assigned(emp[u], m, emp[u].dept)])
               \/ \E d \in Depts :
                     Become(c, [pc |-> "empDept", id |-> u,
                                entity |-> Assigned(emp[u], m, d)])
       ELSE Become(c, Refused)
    /\ UNCHANGED <<tables, born>>

CheckDept(c) ==
    /\ call[c].pc = "empDept"
    /\ Become(c, IF HasDept(call[c].entity.dept)
                 THEN [call[c] EXCEPT !.pc = "empSave"] ELSE Refused)
    /\ UNCHANGED <<tables, born>>

ReloadEmp(c) ==
    /\ call[c].pc = "empSave"
    /\ Become(c, [pc |-> "empWrite", id |-> call[c].id,
                  entity |-> call[c].entity, base |-> emp[call[c].id]])
    /\ UNCHANGED <<tables, born>>

WriteEmp(c) ==
    LET u == call[c].id
        new == Saved(emp[u], call[c].base, call[c].entity)
    IN
    /\ call[c].pc = "empWrite"
    /\ IF \/ Conflict(emp[u], call[c].base)
          \/ new # Absent /\ (MailTaken(new.email, u) \/ ~HasDept(new.dept))
       THEN Become(c, Denied) /\ UNCHANGED emp
       ELSE Become(c, Done) /\ emp' = [emp EXCEPT ![u] = new]
    /\ UNCHANGED <<dept, leave, born>>

(* remove: an employee with leave requests is kept.                        *)
RemoveEmp(c, u) ==
    /\ call[c] = Idle
    /\ Become(c, IF HasEmp(u) /\ ~HasLeaves(u)
                 THEN [pc |-> "empDelete", id |-> u] ELSE Refused)
    /\ UNCHANGED <<tables, born>>

DeleteEmp(c) ==
    LET u == call[c].id IN
    /\ call[c].pc = "empDelete"
    /\ IF HasLeaves(u)
       THEN Become(c, Denied) /\ UNCHANGED emp
       ELSE Become(c, Done) /\ emp' = [emp EXCEPT ![u] = Absent]
    /\ UNCHANGED <<dept, leave, born>>

-----------------------------------------------------------------------------
(* Leave requests: who they belong to.                                     *)

BookLeave(c, l, u) ==
    /\ call[c] = Idle
    /\ l \notin born
    /\ born' = born \cup {l}
    /\ Become(c, IF HasEmp(u)
                 THEN [pc |-> "leaveWrite", id |-> l, entity |-> [emp |-> u]]
                 ELSE Refused)
    /\ UNCHANGED tables

WriteLeave(c) ==
    /\ call[c].pc = "leaveWrite"
    /\ IF HasEmp(call[c].entity.emp)
       THEN /\ Become(c, Done)
            /\ leave' = [leave EXCEPT ![call[c].id] = call[c].entity]
       ELSE Become(c, Denied) /\ UNCHANGED leave
    /\ UNCHANGED <<dept, emp, born>>

DeleteLeave(l) ==
    /\ leave[l] # Absent
    /\ leave' = [leave EXCEPT ![l] = Absent]
    /\ UNCHANGED <<dept, emp, call, born>>

(* A query is rejected, or the instance dies: before the statement takes   *)
(* effect, or after, when the 2xx answer is not sent.                      *)
CallFails(c) ==
    /\ Busy(c) \/ call[c] = Done
    /\ Become(c, Failed)
    /\ UNCHANGED <<tables, born>>

-----------------------------------------------------------------------------

(* The calls find a directory that earlier calls have left.                *)
Init ==
    /\ TablesOK /\ NoOrphans /\ UniqueKeys
    /\ call = [c \in Calls |-> Idle]
    /\ born = {d \in Depts : HasDept(d)} \cup {u \in Emps : HasEmp(u)}
                 \cup {l \in Leaves : leave[l] # Absent}
    /\ overtaken = {}

DeptCall(c) ==
    \/ \E d \in Depts : \/ \E n \in Names : CreateDept(c, d, n)
                        \/ UpdateDept(c, d) \/ RemoveDept(c, d)
    \/ CheckName(c) \/ ReloadDept(c) \/ WriteDept(c) \/ DeleteDept(c)
EmpCall(c) ==
    \/ \E u \in Emps : \/ \E m \in Mails, d \in Depts : CreateEmp(c, u, m, d)
                       \/ UpdateEmp(c, u) \/ RemoveEmp(c, u)
    \/ CheckMail(c) \/ CheckDept(c) \/ ReloadEmp(c) \/ WriteEmp(c) \/ DeleteEmp(c)
LeaveCall(c) ==
    \/ \E l \in Leaves, u \in Emps : BookLeave(c, l, u)
    \/ WriteLeave(c)

Step ==
    \/ \E c \in Calls : DeptCall(c) \/ EmpCall(c) \/ LeaveCall(c) \/ CallFails(c)
    \/ \E l \in Leaves : DeleteLeave(l)

(* A call is overtaken when anybody's statement changes a table under it.  *)
Overtake ==
    overtaken' = {c \in Calls : Busy(c)' /\ (c \in overtaken \/ tables' # tables)}

Next == Step /\ Overtake

Spec == Init /\ [][Next]_vars

-----------------------------------------------------------------------------
(* Properties.                                                             *)

Call == {Idle, Done, Refused, Denied, Failed}
        \cup [pc : {"deptName", "deptSave"}, id : Depts, entity : Dept]
        \cup [pc : {"deptWrite"}, id : Depts, entity : Dept,
              base : Dept \cup {Absent}]
        \cup [pc : {"deptDelete"}, id : Depts]
        \cup [pc : {"empMail", "empDept", "empSave"}, id : Emps, entity : Emp]
        \cup [pc : {"empWrite"}, id : Emps, entity : Emp,
              base : Emp \cup {Absent}]
        \cup [pc : {"empDelete"}, id : Emps]
        \cup [pc : {"leaveWrite"}, id : Leaves, entity : Leave]

(* Every variable holds a value of its type.                               *)
TypeOK ==
    /\ TablesOK
    /\ call \in [Calls -> Call]
    /\ born \subseteq Depts \cup Emps \cup Leaves
    /\ overtaken \subseteq Calls

(* An address the PATCH gives to an employee on file: nobody looked it up. *)
AddressTaken(c) ==
    LET k == call[c] IN
    /\ k.pc = "empWrite" /\ k.base # Absent
    /\ k.entity.email # k.base.email
    /\ MailTaken(k.entity.email, k.id)

(* What the services check covers what MySQL enforces: an index or a       *)
(* foreign key refuses a statement (a 500, where the checks answer 404 or  *)
(* 409) only when another call has changed the tables since this one began *)
(* - or for an address of a PATCH, which update assigns unchecked.         *)
DeniedOnlyByRace ==
    [][\A c \in Calls :
          call'[c] = Denied /\ call[c] # Denied
             => c \in overtaken \/ AddressTaken(c)]_vars
=============================================================================
