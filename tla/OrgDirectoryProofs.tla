------------------------- MODULE OrgDirectoryProofs -------------------------
(* What is proved of OrgDirectory for any tables and any number of calls.  *)
EXTENDS OrgDirectory, TLAPS

LEMMA RowsPresent ==
    /\ \A x \in Dept : x # Absent
    /\ \A x \in Emp : x # Absent
    /\ \A x \in Leave : x # Absent
BY DEF Dept, Emp, Leave, Absent

LEMMA SavedDept ==
    ASSUME NEW current \in Dept \cup {Absent}, NEW base \in Dept \cup {Absent},
           NEW entity \in Dept
    PROVE  Saved(current, base, entity) \in Dept \cup {Absent}
BY DEF Saved, Merge, Dept, Absent

LEMMA SavedEmp ==
    ASSUME NEW current \in Emp \cup {Absent}, NEW base \in Emp \cup {Absent},
           NEW entity \in Emp
    PROVE  Saved(current, base, entity) \in Emp \cup {Absent}
<1>1. ASSUME current # Absent, base # Absent
      PROVE  Merge(current, base, entity) \in Emp
  BY <1>1 DEF Merge, Emp
<1> QED BY <1>1 DEF Saved

(* save leaves nothing behind only where there was nothing.                *)
LEMMA SavedStays ==
    ASSUME NEW S \in {Dept, Emp}, NEW current \in S \cup {Absent},
           NEW base \in S \cup {Absent}, NEW entity \in S,
           Saved(current, base, entity) = Absent
    PROVE  current = Absent
<1>1. entity # Absent
  BY RowsPresent
<1>2. ASSUME current # Absent, base # Absent
      PROVE  Merge(current, base, entity) # Absent
  <2>1. CASE S = Dept
    BY <1>2, <2>1, RowsPresent DEF Merge, Dept
  <2>2. CASE S = Emp
    BY <1>2, <2>2, RowsPresent DEF Merge, Emp
  <2> QED BY <2>1, <2>2
<1> QED BY <1>1, <1>2 DEF Saved

-----------------------------------------------------------------------------
(* What each call does to the tables: nothing, or one operation.           *)

(* What a call carries when it is about to write.                          *)
LEMMA CallFacts ==
    ASSUME TypeOK, NEW c \in Calls
    PROVE  /\ call[c].pc \in {"deptName", "deptSave", "deptWrite"} =>
                 call[c].id \in Depts /\ call[c].entity \in Dept
           /\ call[c].pc = "deptWrite" => call[c].base \in Dept \cup {Absent}
           /\ call[c].pc = "deptDelete" => call[c].id \in Depts
           /\ call[c].pc \in {"empMail", "empDept", "empSave", "empWrite"} =>
                 call[c].id \in Emps /\ call[c].entity \in Emp
           /\ call[c].pc = "empWrite" => call[c].base \in Emp \cup {Absent}
           /\ call[c].pc = "empDelete" => call[c].id \in Emps
           /\ call[c].pc = "leaveWrite" =>
                 call[c].id \in Leaves /\ call[c].entity \in Leave
<1>1. call[c] \in Call
  BY DEF TypeOK
<1> QED BY <1>1 DEF Call, Idle, Done, Refused, Denied, Failed

(* One statement on the tables, with what the indexes and keys ask of it.  *)
PutDept(d, x) ==
    ~NameTaken(x.name, d) /\ dept' = [dept EXCEPT ![d] = x] /\ UNCHANGED <<emp, leave>>
CloseDept(d) ==
    ~Staffed(d) /\ dept' = [dept EXCEPT ![d] = Absent] /\ UNCHANGED <<emp, leave>>
PutEmp(u, x) ==
    /\ HasDept(x.dept) /\ ~MailTaken(x.email, u)
    /\ emp' = [emp EXCEPT ![u] = x] /\ UNCHANGED <<dept, leave>>
DropEmp(u) ==
    ~HasLeaves(u) /\ emp' = [emp EXCEPT ![u] = Absent] /\ UNCHANGED <<dept, leave>>
PutLeave(l, x) ==
    /\ x # Absent => HasEmp(x.emp)
    /\ leave' = [leave EXCEPT ![l] = x] /\ UNCHANGED <<dept, emp>>
Statement ==
    \/ \E d \in Depts : CloseDept(d) \/ \E x \in Dept : PutDept(d, x)
    \/ \E u \in Emps : DropEmp(u) \/ \E x \in Emp : PutEmp(u, x)
    \/ \E l \in Leaves, x \in Leave \cup {Absent} : PutLeave(l, x)

LEMMA DeptStep ==
    ASSUME TypeOK, NEW c \in Calls, DeptCall(c), overtaken' \subseteq Calls
    PROVE  /\ TypeOK'
           /\ \/ UNCHANGED tables
              \/ \E d \in Depts :
                    CloseDept(d) \/ \E x \in Dept : PutDept(d, x)
<1> USE DEF TypeOK, TablesOK, tables, Become
<1>1. ASSUME NEW d \in Depts, NEW n \in Names, CreateDept(c, d, n)
      PROVE  TypeOK' /\ UNCHANGED tables
  BY <1>1 DEF CreateDept, Call, Dept
<1>2. ASSUME NEW d \in Depts, UpdateDept(c, d)
      PROVE  TypeOK' /\ UNCHANGED tables
  BY <1>2 DEF UpdateDept, Call, Dept, HasDept
<1>3. ASSUME NEW d \in Depts, RemoveDept(c, d)
      PROVE  TypeOK' /\ UNCHANGED tables
  BY <1>3 DEF RemoveDept, Call
<1>4. CASE CheckName(c)
  <2>1. call[c].pc = "deptName" /\ call[c] \in Call
    BY <1>4 DEF CheckName
  <2>2. [call[c] EXCEPT !.pc = "deptSave"] \in Call
    BY <2>1 DEF Call, Idle, Done, Refused, Denied, Failed
  <2> QED BY <1>4, <2>2 DEF CheckName, Call
<1>5. CASE ReloadDept(c)
  BY <1>5, CallFacts DEF ReloadDept, Call
<1>6. CASE WriteDept(c)
  <2> DEFINE d == call[c].id
             new == Saved(dept[d], call[c].base, call[c].entity)
  <2>1. d \in Depts /\ new \in Dept \cup {Absent}
    BY <1>6, CallFacts, SavedDept DEF WriteDept
  <2> HIDE DEF new
  <2>2. TypeOK'
    BY <1>6, <2>1 DEF WriteDept, Call, new
  <2>3. CASE UNCHANGED dept
    BY <1>6, <2>2, <2>3 DEF WriteDept
  <2>4. CASE /\ new # Absent
             /\ ~NameTaken(new.name, d)
             /\ dept' = [dept EXCEPT ![d] = new]
    <3>1. PutDept(d, new)
      BY <1>6, <2>4 DEF WriteDept, PutDept
    <3> QED BY <2>1, <2>2, <2>4, <3>1
  <2>5. CASE new = Absent /\ dept' = [dept EXCEPT ![d] = new]
    <3>1. dept[d] = Absent
      BY <1>6, <2>1, <2>5, CallFacts, RowsPresent, SavedStays DEF WriteDept, new
    <3> QED BY <1>6, <2>1, <2>2, <2>5, <3>1 DEF WriteDept
  <2> QED BY <1>6, <2>3, <2>4, <2>5 DEF WriteDept, new
<1>7. CASE DeleteDept(c)
  <2>1. call[c].id \in Depts
    BY <1>7, CallFacts DEF DeleteDept
  <2>2. TypeOK'
    BY <1>7, <2>1 DEF DeleteDept, Call
  <2>3. UNCHANGED tables \/ CloseDept(call[c].id)
    BY <1>7 DEF DeleteDept, CloseDept
  <2> QED BY <2>1, <2>2, <2>3
<1> QED BY <1>1, <1>2, <1>3, <1>4, <1>5, <1>6, <1>7 DEF DeptCall

LEMMA EmpStep ==
    ASSUME TypeOK, NEW c \in Calls, EmpCall(c), overtaken' \subseteq Calls
    PROVE  /\ TypeOK'
           /\ \/ UNCHANGED tables
              \/ \E u \in Emps :
                    DropEmp(u) \/ \E x \in Emp : PutEmp(u, x)
<1> USE DEF TypeOK, TablesOK, tables, Become
<1>1. ASSUME NEW u \in Emps, NEW m \in Mails, NEW d \in Depts, CreateEmp(c, u, m, d)
      PROVE  TypeOK' /\ UNCHANGED tables
  BY <1>1 DEF CreateEmp, Call, Emp
<1>2. ASSUME NEW u \in Emps, UpdateEmp(c, u)
      PROVE  TypeOK' /\ UNCHANGED tables
  <2>1. ASSUME NEW m \in Mails, NEW d \in Depts, HasEmp(u)
        PROVE  Assigned(emp[u], m, d) \in Emp
    BY <2>1 DEF Assigned, Emp, HasEmp
  <2>2. HasEmp(u) => emp[u].email \in Mails /\ emp[u].dept \in Depts
    BY DEF HasEmp, Emp
  <2> HIDE DEF TypeOK, TablesOK
  <2>3. call' \in [Calls -> Call] /\ UNCHANGED <<tables, born>>
    BY <1>2, <2>1, <2>2 DEF UpdateEmp, Call, TypeOK
  <2> QED BY <2>3 DEF TypeOK, TablesOK
<1>3. ASSUME NEW u \in Emps, RemoveEmp(c, u)
      PROVE  TypeOK' /\ UNCHANGED tables
  BY <1>3 DEF RemoveEmp, Call
<1>4. CASE CheckDept(c)
  <2>1. call[c].pc = "empDept" /\ call[c] \in Call
    BY <1>4 DEF CheckDept
  <2>2. [call[c] EXCEPT !.pc = "empSave"] \in Call
    BY <2>1 DEF Call, Idle, Done, Refused, Denied, Failed
  <2> QED BY <1>4, <2>2 DEF CheckDept, Call
<1>5. CASE CheckMail(c) \/ ReloadEmp(c)
  BY <1>5, CallFacts DEF CheckMail, ReloadEmp, Call
<1>6. CASE WriteEmp(c)
  <2> DEFINE u == call[c].id
             new == Saved(emp[u], call[c].base, call[c].entity)
  <2>1. u \in Emps /\ new \in Emp \cup {Absent}
    BY <1>6, CallFacts, SavedEmp DEF WriteEmp
  <2> HIDE DEF new
  <2>2. TypeOK'
    BY <1>6, <2>1 DEF WriteEmp, Call, new
  <2>3. CASE UNCHANGED emp
    BY <1>6, <2>2, <2>3 DEF WriteEmp
  <2>4. CASE /\ new # Absent
             /\ ~MailTaken(new.email, u)
             /\ HasDept(new.dept)
             /\ emp' = [emp EXCEPT ![u] = new]
    <3>1. PutEmp(u, new)
      BY <1>6, <2>4 DEF WriteEmp, PutEmp
    <3> QED BY <2>1, <2>2, <2>4, <3>1
  <2>5. CASE new = Absent /\ emp' = [emp EXCEPT ![u] = new]
    <3>1. emp[u] = Absent
      BY <1>6, <2>1, <2>5, CallFacts, RowsPresent, SavedStays DEF WriteEmp, new
    <3> QED BY <1>6, <2>1, <2>2, <2>5, <3>1 DEF WriteEmp
  <2> QED BY <1>6, <2>3, <2>4, <2>5 DEF WriteEmp, new
<1>7. CASE DeleteEmp(c)
  <2>1. call[c].id \in Emps
    BY <1>7, CallFacts DEF DeleteEmp
  <2>2. TypeOK'
    BY <1>7, <2>1 DEF DeleteEmp, Call
  <2>3. UNCHANGED tables \/ DropEmp(call[c].id)
    BY <1>7 DEF DeleteEmp, DropEmp
  <2> QED BY <2>1, <2>2, <2>3
<1> QED BY <1>1, <1>2, <1>3, <1>4, <1>5, <1>6, <1>7 DEF EmpCall

LEMMA LeaveStep ==
    ASSUME TypeOK, NEW c \in Calls, LeaveCall(c), overtaken' \subseteq Calls
    PROVE  /\ TypeOK'
           /\ \/ UNCHANGED tables
              \/ \E l \in Leaves, x \in Leave : PutLeave(l, x)
<1> USE DEF TypeOK, TablesOK, tables, Become
<1>1. ASSUME NEW l \in Leaves, NEW u \in Emps, BookLeave(c, l, u)
      PROVE  TypeOK' /\ UNCHANGED tables
  BY <1>1 DEF BookLeave, Call, Leave
<1>2. CASE WriteLeave(c)
  <2>1. call[c].id \in Leaves /\ call[c].entity \in Leave
    BY <1>2, CallFacts DEF WriteLeave
  <2>2. TypeOK'
    BY <1>2, <2>1 DEF WriteLeave, Call
  <2>3. UNCHANGED tables \/ PutLeave(call[c].id, call[c].entity)
    BY <1>2 DEF WriteLeave, PutLeave
  <2> QED BY <2>1, <2>2, <2>3
<1> QED BY <1>1, <1>2 DEF LeaveCall

LEMMA DirectoryStep ==
    ASSUME TypeOK, [Next]_vars
    PROVE  TypeOK' /\ [Statement]_tables
<1>1. overtaken' \subseteq Calls
  BY DEF Next, Overtake, TypeOK, vars
<1>2. ASSUME NEW c \in Calls, DeptCall(c) \/ EmpCall(c) \/ LeaveCall(c)
      PROVE  TypeOK' /\ [Statement]_tables
  BY <1>1, <1>2, DeptStep, EmpStep, LeaveStep DEF Statement
<1>3. ASSUME NEW c \in Calls, CallFails(c)
      PROVE  TypeOK' /\ UNCHANGED tables
  BY <1>1, <1>3 DEF CallFails, Become, TypeOK, TablesOK, tables, Call
<1>4. ASSUME NEW l \in Leaves, DeleteLeave(l)
      PROVE  TypeOK' /\ PutLeave(l, Absent)
  BY <1>1, <1>4 DEF DeleteLeave, PutLeave, TypeOK, TablesOK
<1>5. CASE UNCHANGED vars
  BY <1>5 DEF TypeOK, TablesOK, tables, vars
<1> QED BY <1>2, <1>3, <1>4, <1>5 DEF Next, Step, Statement

LEMMA InitType == Init => TypeOK
BY DEF Init, TypeOK, Call

LEMMA DirectoryType == Spec => []TypeOK
<1>1. TypeOK /\ [Next]_vars => TypeOK'
  BY DirectoryStep
<1> QED BY <1>1, InitType, PTL DEF Spec

(* Every variable of every reachable state has its type.                   *)
THEOREM DirectoryTypeCorrect == Spec => []TypeOK
BY DirectoryType

-----------------------------------------------------------------------------
(* What every statement preserves.                                         *)

Keyed == TablesOK /\ NoOrphans /\ UniqueKeys

LEMMA PutDeptKeeps ==
    ASSUME Keyed, NEW d \in Depts, NEW x \in Dept, ~NameTaken(x.name, d),
           dept' = [dept EXCEPT ![d] = x], UNCHANGED <<emp, leave>>
    PROVE  NoOrphans' /\ UniqueKeys'
BY RowsPresent DEF Keyed, TablesOK, NoOrphans, UniqueKeys, NameTaken, HasDept, HasEmp

LEMMA CloseDeptKeeps ==
    ASSUME Keyed, NEW d \in Depts, ~Staffed(d),
           dept' = [dept EXCEPT ![d] = Absent], UNCHANGED <<emp, leave>>
    PROVE  NoOrphans' /\ UniqueKeys'
BY DEF Keyed, TablesOK, NoOrphans, UniqueKeys, Staffed, HasDept, HasEmp, Emp

LEMMA PutEmpKeeps ==
    ASSUME Keyed, NEW u \in Emps, NEW x \in Emp, ~MailTaken(x.email, u),
           HasDept(x.dept), emp' = [emp EXCEPT ![u] = x], UNCHANGED <<dept, leave>>
    PROVE  NoOrphans' /\ UniqueKeys'
BY RowsPresent DEF Keyed, TablesOK, NoOrphans, UniqueKeys, MailTaken, HasDept, HasEmp

LEMMA DropEmpKeeps ==
    ASSUME Keyed, NEW u \in Emps, ~HasLeaves(u),
           emp' = [emp EXCEPT ![u] = Absent], UNCHANGED <<dept, leave>>
    PROVE  NoOrphans' /\ UniqueKeys'
BY DEF Keyed, TablesOK, NoOrphans, UniqueKeys, HasLeaves, HasDept, HasEmp, Leave

LEMMA LeaveKeeps ==
    ASSUME Keyed, NEW l \in Leaves, NEW x \in Leave \cup {Absent},
           x # Absent => HasEmp(x.emp),
           leave' = [leave EXCEPT ![l] = x], UNCHANGED <<dept, emp>>
    PROVE  NoOrphans' /\ UniqueKeys'
BY DEF Keyed, TablesOK, NoOrphans, UniqueKeys, HasDept, HasEmp

LEMMA StatementKeeps ==
    ASSUME Keyed, [Statement]_tables
    PROVE  NoOrphans' /\ UniqueKeys'
<1>2. ASSUME NEW d \in Depts, NEW x \in Dept, PutDept(d, x)
      PROVE  NoOrphans' /\ UniqueKeys'
  BY <1>2, PutDeptKeeps DEF PutDept
<1>3. ASSUME NEW d \in Depts, CloseDept(d)
      PROVE  NoOrphans' /\ UniqueKeys'
  BY <1>3, CloseDeptKeeps DEF CloseDept
<1>4. ASSUME NEW u \in Emps, NEW x \in Emp, PutEmp(u, x)
      PROVE  NoOrphans' /\ UniqueKeys'
  BY <1>4, PutEmpKeeps DEF PutEmp
<1>5. ASSUME NEW u \in Emps, DropEmp(u)
      PROVE  NoOrphans' /\ UniqueKeys'
  BY <1>5, DropEmpKeeps DEF DropEmp
<1>6. ASSUME NEW l \in Leaves, NEW x \in Leave \cup {Absent}, PutLeave(l, x)
      PROVE  NoOrphans' /\ UniqueKeys'
  BY <1>6, LeaveKeeps DEF PutLeave
<1>8. CASE UNCHANGED tables
  BY <1>8 DEF tables, Keyed, NoOrphans, UniqueKeys, HasDept, HasEmp
<1> QED BY <1>2, <1>3, <1>4, <1>5, <1>6, <1>8 DEF Statement

LEMMA KeysInvariant == Spec => [](TypeOK /\ NoOrphans /\ UniqueKeys)
<1>1. Init => TypeOK /\ NoOrphans /\ UniqueKeys
  BY InitType DEF Init
<1>2. TypeOK /\ NoOrphans /\ UniqueKeys /\ [Next]_vars
         => (TypeOK /\ NoOrphans /\ UniqueKeys)'
  BY DirectoryStep, StatementKeeps DEF Keyed, TypeOK
<1> QED BY <1>1, <1>2, PTL DEF Spec

(* No interleaving of creations, moves and removals leaves an employee     *)
(* without a department, or a leave request without an employee.           *)
THEOREM NobodyOrphaned == Spec => []NoOrphans
BY KeysInvariant, PTL

(* Two calls that both found a name or an address free do not both get it. *)
THEOREM KeysStayUnique == Spec => []UniqueKeys
BY KeysInvariant, PTL

-----------------------------------------------------------------------------
(* Why only a race makes a statement fail.                                 *)

(* Every row has an id handed out before, and so has every call's row.     *)
RowsBorn ==
    /\ \A d \in Depts : HasDept(d) => d \in born
    /\ \A u \in Emps : HasEmp(u) => u \in born
    /\ \A c \in Calls :
          call[c].pc \in {"deptName", "deptSave", "deptWrite", "empMail",
                         "empDept", "empSave", "empWrite"} => call[c].id \in born

(* What a call has checked and read is still so.                           *)
Checked(c) ==
    LET k == call[c] IN
    /\ k.pc \in {"deptName", "deptSave"} => HasDept(k.id)
    /\ k.pc \in {"deptSave", "deptWrite"} => ~NameTaken(k.entity.name, k.id)
    /\ k.pc = "deptWrite" => k.base = dept[k.id]
    /\ k.pc = "deptDelete" => ~Staffed(k.id)
    /\ k.pc = "empMail" => ~HasEmp(k.id)
    /\ k.pc \in {"empDept", "empSave"} => HasEmp(k.id)
    /\ k.pc \in {"empMail", "empSave", "empWrite"} => HasDept(k.entity.dept)
    /\ k.pc = "empWrite" =>
          /\ k.base = emp[k.id]
          /\ k.base = Absent => ~MailTaken(k.entity.email, k.id)
    /\ k.pc = "empDelete" => ~HasLeaves(k.id)
    /\ k.pc = "leaveWrite" => HasEmp(k.entity.emp)

ChecksHold == \A c \in Calls : c \notin overtaken => Checked(c)

DirInv == TypeOK /\ NoOrphans /\ UniqueKeys /\ RowsBorn /\ ChecksHold

LEMMA BornStep ==
    ASSUME TypeOK, RowsBorn, Step
    PROVE  RowsBorn'
<1> USE DEF RowsBorn, TypeOK, TablesOK, HasDept, HasEmp, Become, tables
<1>1. ASSUME NEW c \in Calls, CallFails(c) PROVE RowsBorn'
  BY <1>1 DEF CallFails, Failed
<1>2. ASSUME NEW l \in Leaves, DeleteLeave(l) PROVE RowsBorn'
  BY <1>2 DEF DeleteLeave
<1>3. ASSUME NEW c \in Calls, DeptCall(c) PROVE RowsBorn'
  <2>1. ASSUME NEW d \in Depts, NEW n \in Names, CreateDept(c, d, n)
        PROVE  RowsBorn'
    BY <2>1 DEF CreateDept, Refused
  <2>2. ASSUME NEW d \in Depts, UpdateDept(c, d) \/ RemoveDept(c, d)
        PROVE  RowsBorn'
    BY <2>2 DEF UpdateDept, RemoveDept, Refused
  <2>3. CASE CheckName(c)
    <3>1. call[c] \in Call /\ call[c].pc = "deptName"
      BY <2>3 DEF CheckName
    <3>2. [call[c] EXCEPT !.pc = "deptSave"].id = call[c].id
      BY <3>1 DEF Call, Idle, Done, Refused, Denied, Failed
    <3> QED BY <2>3, <3>1, <3>2 DEF CheckName, Refused
  <2>4. CASE ReloadDept(c) \/ DeleteDept(c) \/ WriteDept(c)
    BY <2>4, CallFacts DEF ReloadDept, DeleteDept, WriteDept, Denied, Done
  <2> QED BY <1>3, <2>1, <2>2, <2>3, <2>4 DEF DeptCall
<1>4. ASSUME NEW c \in Calls, EmpCall(c) PROVE RowsBorn'
  <2>1. ASSUME NEW u \in Emps, NEW m \in Mails, NEW d \in Depts,
               CreateEmp(c, u, m, d)
        PROVE  RowsBorn'
    BY <2>1 DEF CreateEmp, Refused
  <2>2. ASSUME NEW u \in Emps, UpdateEmp(c, u) \/ RemoveEmp(c, u)
        PROVE  RowsBorn'
    BY <2>2 DEF UpdateEmp, RemoveEmp, Refused
  <2>3. CASE CheckDept(c)
    <3>1. call[c] \in Call /\ call[c].pc = "empDept"
      BY <2>3 DEF CheckDept
    <3>2. [call[c] EXCEPT !.pc = "empSave"].id = call[c].id
      BY <3>1 DEF Call, Idle, Done, Refused, Denied, Failed
    <3> QED BY <2>3, <3>1, <3>2 DEF CheckDept, Refused
  <2>4. CASE CheckMail(c) \/ ReloadEmp(c) \/ DeleteEmp(c) \/ WriteEmp(c)
    BY <2>4, CallFacts DEF CheckMail, ReloadEmp, DeleteEmp, WriteEmp, Denied, Done, Refused
  <2> QED BY <1>4, <2>1, <2>2, <2>3, <2>4 DEF EmpCall
<1>5. ASSUME NEW c \in Calls, LeaveCall(c) PROVE RowsBorn'
  <2>1. ASSUME NEW l \in Leaves, NEW u \in Emps, BookLeave(c, l, u)
        PROVE  RowsBorn'
    BY <2>1 DEF BookLeave, Refused
  <2>2. CASE WriteLeave(c)
    BY <2>2 DEF WriteLeave, Done, Denied
  <2> QED BY <1>5, <2>1, <2>2 DEF LeaveCall
<1> QED BY <1>1, <1>2, <1>3, <1>4, <1>5 DEF Step

(* While the tables stand still, a call checks what it will rely on.       *)
LEMMA DeptChecks ==
    ASSUME TypeOK, UniqueKeys, RowsBorn, NEW c \in Calls, Checked(c), DeptCall(c),
           UNCHANGED tables
    PROVE  Checked(c)'
<1> USE DEF Become, TypeOK, tables
<1>1. ASSUME call'[c] \in {Done, Refused, Denied, Failed} PROVE Checked(c)'
  BY <1>1 DEF Checked, Done, Refused, Denied, Failed
<1>2. ASSUME NEW d \in Depts, NEW n \in Names, CreateDept(c, d, n)
      PROVE  Checked(c)'
  BY <1>1, <1>2 DEF CreateDept, Checked, NameTaken, HasDept, RowsBorn
<1>3. ASSUME NEW d \in Depts, UpdateDept(c, d)
      PROVE  Checked(c)'
  BY <1>1, <1>3 DEF UpdateDept, Checked, NameTaken, HasDept, UniqueKeys
<1>4. ASSUME NEW d \in Depts, RemoveDept(c, d)
      PROVE  Checked(c)'
  BY <1>1, <1>4 DEF RemoveDept, Checked, Staffed, HasDept, HasEmp
<1>5. CASE CheckName(c)
  <2>1. call[c] \in Call /\ call[c].pc = "deptName"
    BY <1>5 DEF CheckName
  <2>2. /\ [call[c] EXCEPT !.pc = "deptSave"].id = call[c].id
        /\ [call[c] EXCEPT !.pc = "deptSave"].entity = call[c].entity
        /\ [call[c] EXCEPT !.pc = "deptSave"].pc = "deptSave"
    BY <2>1 DEF Call, Idle, Done, Refused, Denied, Failed
  <2> QED BY <1>1, <1>5, <2>1, <2>2 DEF CheckName, Checked, NameTaken, HasDept
<1>6. CASE ReloadDept(c)
  BY <1>6 DEF ReloadDept, Checked, NameTaken, HasDept
<1>7. CASE WriteDept(c) \/ DeleteDept(c)
  BY <1>1, <1>7 DEF WriteDept, DeleteDept
<1> QED BY <1>2, <1>3, <1>4, <1>5, <1>6, <1>7 DEF DeptCall

LEMMA EmpChecks ==
    ASSUME TypeOK, NoOrphans, RowsBorn, NEW c \in Calls, Checked(c), EmpCall(c),
           UNCHANGED tables
    PROVE  Checked(c)'
<1> USE DEF Become, TypeOK, tables
<1>1. ASSUME call'[c] \in {Done, Refused, Denied, Failed} PROVE Checked(c)'
  BY <1>1 DEF Checked, Done, Refused, Denied, Failed
<1>2. ASSUME NEW u \in Emps, NEW m \in Mails, NEW d \in Depts, CreateEmp(c, u, m, d)
      PROVE  Checked(c)'
  BY <1>1, <1>2 DEF CreateEmp, Checked, HasDept, HasEmp, RowsBorn
<1>3. ASSUME NEW u \in Emps, UpdateEmp(c, u)
      PROVE  Checked(c)'
  <2>1. HasEmp(u) => /\ HasDept(emp[u].dept)
                     /\ \A m \in Mails, d \in Depts : Assigned(emp[u], m, d).dept = d
                     /\ emp[u].dept \in Depts /\ emp[u].email \in Mails
    BY DEF NoOrphans, Assigned, HasEmp, TablesOK, Emp
  <2> QED BY <1>1, <1>3, <2>1 DEF UpdateEmp, Checked, HasDept, HasEmp
<1>4. ASSUME NEW u \in Emps, RemoveEmp(c, u)
      PROVE  Checked(c)'
  BY <1>1, <1>4 DEF RemoveEmp, Checked, HasLeaves, HasEmp
<1>5. CASE CheckMail(c)
  BY <1>1, <1>5 DEF CheckMail, Checked, MailTaken, HasDept, HasEmp
<1>6. CASE CheckDept(c)
  <2>1. call[c] \in Call /\ call[c].pc = "empDept"
    BY <1>6 DEF CheckDept
  <2>2. /\ [call[c] EXCEPT !.pc = "empSave"].id = call[c].id
        /\ [call[c] EXCEPT !.pc = "empSave"].entity = call[c].entity
        /\ [call[c] EXCEPT !.pc = "empSave"].pc = "empSave"
    BY <2>1 DEF Call, Idle, Done, Refused, Denied, Failed
  <2> QED BY <1>1, <1>6, <2>1, <2>2 DEF CheckDept, Checked, HasDept, HasEmp
<1>7. CASE ReloadEmp(c)
  BY <1>7 DEF ReloadEmp, Checked, HasDept, HasEmp
<1>8. CASE WriteEmp(c) \/ DeleteEmp(c)
  BY <1>1, <1>8 DEF WriteEmp, DeleteEmp
<1> QED BY <1>2, <1>3, <1>4, <1>5, <1>6, <1>7, <1>8 DEF EmpCall

LEMMA LeaveChecks ==
    ASSUME TypeOK, NEW c \in Calls, Checked(c), LeaveCall(c), UNCHANGED tables
    PROVE  Checked(c)'
BY DEF LeaveCall, BookLeave, WriteLeave, Checked, Become, TypeOK, tables, HasEmp,
   Done, Refused, Denied

LEMMA ChecksStep ==
    ASSUME DirInv, [Next]_vars
    PROVE  ChecksHold'
<1> USE DEF DirInv
<1>1. CASE UNCHANGED vars
  BY <1>1 DEF vars, ChecksHold, Checked, HasDept, HasEmp, NameTaken, MailTaken,
     Staffed, HasLeaves
<1>2. CASE Next
  <2> SUFFICES ASSUME NEW c \in Calls, c \notin overtaken'
               PROVE  Checked(c)'
    BY DEF ChecksHold
  <2>1. CASE ~Busy(c)'
    BY <2>1 DEF Busy, Checked
  <2>2. CASE Busy(c)'
    <3>1. c \notin overtaken /\ UNCHANGED tables /\ Checked(c)
      BY <1>2, <2>2 DEF Next, Overtake, ChecksHold
    <3>2. CASE call'[c] = call[c]
      BY <3>1, <3>2 DEF Checked, tables, HasDept, HasEmp, NameTaken, MailTaken,
         Staffed, HasLeaves
    <3>3. CASE DeptCall(c) \/ EmpCall(c) \/ LeaveCall(c)
      BY <3>1, <3>3, DeptChecks, EmpChecks, LeaveChecks
    <3>4. CASE CallFails(c)
      BY <2>2, <3>4 DEF CallFails, Become, Busy, Failed, TypeOK
    <3>5. ASSUME NEW x \in Calls, x # c,
                 DeptCall(x) \/ EmpCall(x) \/ LeaveCall(x) \/ CallFails(x)
          PROVE  call'[c] = call[c]
      BY <3>5 DEF DeptCall, EmpCall, LeaveCall, CallFails, CreateDept, UpdateDept,
         CheckName, ReloadDept, WriteDept, RemoveDept, DeleteDept, CreateEmp,
         CheckMail, UpdateEmp, CheckDept, ReloadEmp, WriteEmp, RemoveEmp, DeleteEmp,
         BookLeave, WriteLeave, Become, TypeOK
    <3>6. ASSUME NEW l \in Leaves, DeleteLeave(l) PROVE call'[c] = call[c]
      BY <3>6 DEF DeleteLeave
    <3> QED BY <1>2, <3>2, <3>3, <3>4, <3>5, <3>6 DEF Next, Step
  <2> QED BY <2>1, <2>2
<1> QED BY <1>1, <1>2

(* A save that goes back over the row it has reloaded leaves the entity.   *)
LEMMA SavedOver ==
    ASSUME NEW S \in {Dept, Emp}, NEW base \in S \cup {Absent}, NEW entity \in S
    PROVE  Saved(base, base, entity) = entity
<1>1. ASSUME base # Absent PROVE Merge(base, base, entity) = entity
  <2>1. CASE S = Dept
    BY <1>1, <2>1 DEF Merge, Dept
  <2>2. CASE S = Emp
    BY <1>1, <2>2 DEF Merge, Emp
  <2> QED BY <2>1, <2>2
<1> QED BY <1>1 DEF Saved

LEMMA DenialStep ==
    ASSUME DirInv, Next, NEW c \in Calls, call'[c] = Denied, call[c] # Denied,
           c \notin overtaken
    PROVE  AddressTaken(c)
<1> USE DEF DirInv, TypeOK, Become
<1>1. Checked(c)
  BY DEF ChecksHold
<1>2. ASSUME NEW x \in Calls, DeptCall(x) \/ EmpCall(x) \/ LeaveCall(x) \/ CallFails(x)
      PROVE  x = c
  BY <1>2 DEF DeptCall, EmpCall, LeaveCall, CallFails, CreateDept, UpdateDept,
     CheckName, ReloadDept, WriteDept, RemoveDept, DeleteDept, CreateEmp,
     CheckMail, UpdateEmp, CheckDept, ReloadEmp, WriteEmp, RemoveEmp, DeleteEmp,
     BookLeave, WriteLeave
<1>3. ~\E l \in Leaves : DeleteLeave(l)
  BY DEF DeleteLeave
<1>4. DeptCall(c) \/ EmpCall(c) \/ LeaveCall(c)
  BY <1>2, <1>3 DEF Next, Step, CallFails, Denied, Failed
<1>5. ASSUME DeptCall(c) PROVE WriteDept(c) \/ DeleteDept(c)
  <2>1. ASSUME CheckName(c) PROVE FALSE
    <3>1. call[c] \in Call /\ call[c].pc = "deptName"
      BY <2>1 DEF CheckName
    <3>2. [call[c] EXCEPT !.pc = "deptSave"].pc = "deptSave"
      BY <3>1 DEF Call, Idle, Done, Refused, Denied, Failed
    <3> QED BY <2>1, <3>2 DEF CheckName, Denied, Refused
  <2> QED BY <1>5, <2>1 DEF DeptCall, CreateDept, UpdateDept, ReloadDept,
         RemoveDept, Denied, Refused
<1>6. ASSUME EmpCall(c) PROVE WriteEmp(c) \/ DeleteEmp(c)
  <2>1. ASSUME CheckDept(c) PROVE FALSE
    <3>1. call[c] \in Call /\ call[c].pc = "empDept"
      BY <2>1 DEF CheckDept
    <3>2. [call[c] EXCEPT !.pc = "empSave"].pc = "empSave"
      BY <3>1 DEF Call, Idle, Done, Refused, Denied, Failed
    <3> QED BY <2>1, <3>2 DEF CheckDept, Denied, Refused
  <2> QED BY <1>6, <2>1 DEF EmpCall, CreateEmp, UpdateEmp, CheckMail, ReloadEmp,
         RemoveEmp, Denied, Refused
<1>7. ~WriteDept(c)
  BY <1>1, CallFacts, SavedOver DEF WriteDept, Checked, Conflict, Denied, Done
<1>8. ~DeleteDept(c) /\ ~DeleteEmp(c) /\ ~LeaveCall(c)
  BY <1>1 DEF DeleteDept, DeleteEmp, LeaveCall, BookLeave, WriteLeave, Checked,
     Denied, Done, Refused
<1>9. ASSUME WriteEmp(c) PROVE AddressTaken(c)
  <2> DEFINE k == call[c]
  <2>1. /\ k.pc = "empWrite" /\ k.base = emp[k.id] /\ HasDept(k.entity.dept)
        /\ k.id \in Emps /\ k.entity \in Emp
        /\ Saved(emp[k.id], k.base, k.entity) = k.entity
    BY <1>1, <1>9, CallFacts, SavedOver DEF WriteEmp, Checked
  <2>2. MailTaken(k.entity.email, k.id)
    BY <1>9, <2>1 DEF WriteEmp, Conflict, Denied, Done
  <2>3. k.base # Absent
    BY <1>1, <2>1, <2>2 DEF Checked
  <2>4. k.entity.email # k.base.email
    BY <2>1, <2>2, <2>3 DEF MailTaken, UniqueKeys, HasEmp
  <2> QED BY <2>1, <2>2, <2>3, <2>4 DEF AddressTaken
<1> QED BY <1>4, <1>5, <1>6, <1>7, <1>8, <1>9

(* MySQL refuses no statement of a call that had the tables to itself,     *)
(* except one that gives a PATCHed employee an address in use.             *)
THEOREM DenialNeedsARace == Spec => DeniedOnlyByRace
<1>1. Init => DirInv
  BY InitType DEF Init, DirInv, RowsBorn, ChecksHold, Checked, Idle
<1>2. DirInv /\ [Next]_vars => DirInv'
  <2>1. ASSUME DirInv, [Next]_vars PROVE RowsBorn'
    <3>1. CASE UNCHANGED vars
      BY <2>1, <3>1 DEF DirInv, RowsBorn, vars, HasDept, HasEmp
    <3> QED BY <2>1, <3>1, BornStep DEF DirInv, Next
  <2> QED BY <2>1, DirectoryStep, StatementKeeps, ChecksStep DEF DirInv, Keyed, TypeOK
<1>3. DirInv /\ [Next]_vars
         => [\A c \in Calls :
                call'[c] = Denied /\ call[c] # Denied
                   => c \in overtaken \/ AddressTaken(c)]_vars
  BY DenialStep
<1> QED BY <1>1, <1>2, <1>3, PTL DEF Spec, DeniedOnlyByRace
=============================================================================
