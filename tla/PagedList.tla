------------------------------ MODULE PagedList ------------------------------
(***************************************************************************)
(* A client that walks through the pages of a list endpoint while rows join*)
(* and leave the list.  GET /leave-requests, /employees, /departments and  *)
(* /departments/:id/employees page alike: newest first, by offset, and each*)
(* answer says whether a next page exists.  No order is kept between two   *)
(* requests, so a walk may skip a row or show one twice; this module says  *)
(* when, and how often.                                                    *)
(***************************************************************************)
EXTENDS Integers, FiniteSets

CONSTANTS
    Rows,       \* the rows that may be on the list
    Created,    \* their createdAt; two rows may share one
    Limit,      \* the limit of the walk, one for all its pages
    MaxChanges  \* how many rows join or leave during a walk

(* PaginationDto: limit is optional, at least 1 and at most 100.           *)
Limits == 1 .. 100

ASSUME RowsAssumption == IsFiniteSet(Rows)
ASSUME CreatedAssumption == Created \in [Rows -> Int]
ASSUME LimitAssumption == Limit \in Limits
ASSUME ChangesAssumption == MaxChanges \in Nat

VARIABLES
    listed,     \* the rows the endpoint's WHERE clause selects now
    walk,       \* the client's walk, and the query of its current request
    shown,      \* rows some page of the walk has shown
    again,      \* rows a later page has shown again
    stayed,     \* rows on the list ever since the walk began
    left,       \* departures during the walk
    joins       \* arrivals during the walk

vars == <<listed, walk, shown, again, stayed, left, joins>>

-----------------------------------------------------------------------------
(* Order, pages and totals.                                                *)

(* createdAt DESC and nothing else: the order of a tie is MySQL's choice.  *)
Newer(x, y) == Created[x] > Created[y]
Untied == {r \in Rows : \A x \in Rows \ {r} : Created[x] # Created[r]}
Before(r) == Cardinality({x \in listed : Newer(x, r)})

(* What may come first when the list is sorted, n rows or all there are.   *)
Heads(n) ==
    {A \in SUBSET listed :
        /\ \A x \in A, y \in listed \ A : ~Newer(y, x)
        /\ Cardinality(A) = IF n < Cardinality(listed) THEN n
                            ELSE Cardinality(listed)}

(* Seeded faults: pages counted from zero, and an offset that overlaps.    *)
OffsetFromZero(page) == page * Limit
OffsetOverlapping(page) == (page - 1) * (Limit - 1)

(* skip: (page - 1) * limit                                                *)
Offset(page) == (page - 1) * Limit

(* The pages LIMIT and OFFSET may cut out of the list.                     *)
Windows(page) ==
    {rows \in SUBSET listed :
        \E A \in Heads(Offset(page)) :
            rows \cap A = {} /\ rows \cup A \in Heads(Offset(page) + Limit)}

(* Seeded fault: a full last page announces another one.                   *)
HasNextPageInclusive(page, total) == page * Limit <= total

(* getPaginationMeta: page < Math.ceil(total / limit), without the division*)
HasNextPage(page, total) == page * Limit < total

-----------------------------------------------------------------------------
(* The requests of the walk.                                               *)

NoWalk == [pc |-> "idle"]

(* The first request, or the one after an answer that announced more.      *)
Get(list) ==
    /\ \/ /\ walk = NoWalk
          /\ walk' = [pc |-> "select", list |-> list, page |-> 1, window |-> {},
                      robbed |-> FALSE]
          /\ stayed' = listed
       \/ /\ walk.pc = "more" /\ walk.list = list
          /\ walk' = [walk EXCEPT !.pc = "select", !.page = @ + 1,
                                    !.robbed = FALSE]
          /\ UNCHANGED stayed
    /\ UNCHANGED <<listed, shown, again, left, joins>>
GetLeaveRequests == Get("leave requests")
GetEmployees == Get("employees")
GetDepartments == Get("departments")
GetStaff == Get("staff")

Show(rows) ==
    /\ shown' = shown \cup rows
    /\ again' = again \cup (shown \cap rows)

(* findAndCount without relations: one SELECT brings the page.             *)
SelectPage ==
    /\ walk.pc = "select"
    /\ \E rows \in Windows(walk.page) :
          /\ walk' = [walk EXCEPT !.pc = "count", !.window = rows]
          /\ Show(rows)
    /\ UNCHANGED <<listed, stayed, left, joins>>
FindDepartments == walk.pc # "idle" /\ walk.list = "departments" /\ SelectPage
FindStaff == walk.pc # "idle" /\ walk.list = "staff" /\ SelectPage

(* With relations, the page's ids are selected first, then the entities of *)
(* these ids with what they are joined to.  A full page is robbed when one *)
(* of its rows is deleted in between: it comes back short.                 *)
SelectIds ==
    /\ walk.pc = "select"
    /\ \E ids \in Windows(walk.page) :
          walk' = [walk EXCEPT !.pc = "load", !.window = ids]
    /\ UNCHANGED <<listed, shown, again, stayed, left, joins>>
FindLeaveRequests ==
    walk.pc # "idle" /\ walk.list = "leave requests" /\ SelectIds
FindEmployees == walk.pc # "idle" /\ walk.list = "employees" /\ SelectIds

LoadEntities ==
    /\ walk.pc = "load"
    /\ walk' = [walk EXCEPT !.pc = "count", !.window = @ \cap listed,
                            !.robbed = /\ Cardinality(walk.window) >= Limit
                                       /\ ~(walk.window \subseteq listed)]
    /\ Show(walk.window \cap listed)
    /\ UNCHANGED <<listed, stayed, left, joins>>

(* The total of findAndCount: a COUNT of its own, unless TypeORM tells it  *)
(* from a page that is not full.                                           *)
Totals ==
    {Cardinality(listed)} \cup
    {Offset(walk.page) + n : n \in {Cardinality(walk.window)} \cap (0 .. Limit - 1)}

Answer ==
    /\ walk.pc = "count"
    /\ \E total \in Totals :
          walk' = [walk EXCEPT !.pc = IF HasNextPage(walk.page, total)
                                      THEN "more" ELSE "done"]
    /\ UNCHANGED <<listed, shown, again, stayed, left, joins>>

-----------------------------------------------------------------------------
(* The other clients.                                                      *)

Changing == walk # NoWalk /\ joins + left < MaxChanges

(* POST, a PATCH of the department, or a save that inserts a deleted row   *)
(* again with its old createdAt.                                           *)
Join(x) ==
    /\ Changing
    /\ x \notin listed
    /\ listed' = listed \cup {x}
    /\ joins' = joins + 1
    /\ UNCHANGED <<walk, shown, again, stayed, left>>

(* DELETE, or a PATCH of the department.                                   *)
Leave(x) ==
    /\ Changing
    /\ x \in listed
    /\ listed' = listed \ {x}
    /\ stayed' = stayed \ {x}
    /\ left' = left + 1
    /\ UNCHANGED <<walk, shown, again, joins>>

-----------------------------------------------------------------------------

Init ==
    /\ listed \in SUBSET Rows
    /\ walk = NoWalk
    /\ shown = {}
    /\ again = {}
    /\ stayed = {}
    /\ left = 0
    /\ joins = 0

Request ==
    \/ GetLeaveRequests \/ GetEmployees \/ GetDepartments \/ GetStaff
    \/ FindLeaveRequests \/ FindEmployees \/ FindDepartments \/ FindStaff
    \/ LoadEntities
    \/ Answer

Next == Request \/ \E x \in Rows : Join(x) \/ Leave(x)

Spec == Init /\ [][Next]_vars

-----------------------------------------------------------------------------
(* Properties.                                                             *)

Lists == {"leave requests", "employees", "departments", "staff"}
PCs == {"select", "load", "count", "more", "done"}
Walks == [pc : PCs, list : Lists, page : Nat \ {0}, window : SUBSET Rows,
          robbed : BOOLEAN]

(* Every variable holds a value of its type, and no request asks for a page*)
(* beyond the last one the list could ever have.                           *)
TypeOK ==
    /\ listed \subseteq Rows
    /\ walk \in Walks \cup {NoWalk}
    /\ walk # NoWalk /\ walk.page > 1 =>
          (walk.page - 1) * Limit < Cardinality(Rows)
    /\ shown \subseteq Rows
    /\ again \subseteq Rows
    /\ stayed \subseteq listed
    /\ left \in Nat
    /\ joins \in Nat

(* A walk that ends has shown every row that was there all along, but for  *)
(* one row per departure.  Excepted are rows that share a createdAt with   *)
(* another, which nothing orders, and a walk whose last page was robbed:   *)
(* the total that TypeORM infers from the short page ends it early.        *)
Unseen == (stayed \cap Untied) \ shown
MissesAreDepartures ==
    walk.pc = "done" /\ ~walk.robbed => Cardinality(Unseen) <= left

(* A walk shows a row twice only as often as rows have joined the list.    *)
RepeatsAreJoins == Cardinality(again \cap Untied) <= joins
=============================================================================
