------------------------------ MODULE OrgTables ------------------------------
(***************************************************************************)
(* The tables departments, employees and leave_requests with the unique    *)
(* indexes and foreign keys the migrations create.                         *)
(***************************************************************************)
EXTENDS SavedRows

CONSTANTS
    Depts,      \* the department ids
    Names,      \* the names a department may have
    Emps,       \* the employee ids
    Mails,      \* the e-mail addresses an employee may have
    Leaves      \* the leave request ids

VARIABLES
    dept,       \* departments: a row or Absent per id
    emp,        \* employees
    leave       \* leave_requests

tables == <<dept, emp, leave>>

Dept == [name : Names]
Emp == [email : Mails, dept : Depts]
Leave == [emp : Emps]

HasDept(d) == dept[d] # Absent
HasEmp(u) == emp[u] # Absent

TablesOK ==
    /\ dept \in [Depts -> Dept \cup {Absent}]
    /\ emp \in [Emps -> Emp \cup {Absent}]
    /\ leave \in [Leaves -> Leave \cup {Absent}]

(* Seeded faults: a foreign key that is not there, an index not unique.    *)
StaffedNever(d) == FALSE
MailTakenNever(m, u) == FALSE

(* What the indexes and keys look up: a name or an address in use by any   *)
(* other row, a row that others refer to.                                  *)
NameTaken(n, d) == \E x \in Depts \ {d} : HasDept(x) /\ dept[x].name = n
MailTaken(m, u) == \E x \in Emps \ {u} : HasEmp(x) /\ emp[x].email = m
Staffed(d) == \E u \in Emps : HasEmp(u) /\ emp[u].dept = d
HasLeaves(u) == \E l \in Leaves : leave[l] # Absent /\ leave[l].emp = u

(* Nobody works for a department, and no request belongs to an employee,   *)
(* that is not on file.                                                    *)
NoOrphans ==
    /\ \A u \in Emps : HasEmp(u) => HasDept(emp[u].dept)
    /\ \A l \in Leaves : leave[l] # Absent => HasEmp(leave[l].emp)

(* No two departments share a name, no two employees an address.           *)
UniqueKeys ==
    /\ \A d, x \in Depts :
          HasDept(d) /\ HasDept(x) /\ dept[d].name = dept[x].name => d = x
    /\ \A u, x \in Emps :
          HasEmp(u) /\ HasEmp(x) /\ emp[u].email = emp[x].email => u = x
=============================================================================
