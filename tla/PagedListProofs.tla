--------------------------- MODULE PagedListProofs ---------------------------
(***************************************************************************)
(* Proofs about PagedList, for every list, limit and number of changes.    *)
(***************************************************************************)
EXTENDS PagedList, FiniteSetTheorems, TLAPS

-----------------------------------------------------------------------------
(* Counting rows.                                                          *)

LEMMA RowsCount ==
    ASSUME NEW S \in SUBSET Rows
    PROVE  /\ IsFiniteSet(S)
           /\ Cardinality(S) \in Nat
           /\ Cardinality(S) <= Cardinality(Rows)
           /\ Cardinality(Rows) \in Nat
BY RowsAssumption, FS_Subset, FS_CardinalityType

LEMMA FewerRows ==
    ASSUME NEW S \in SUBSET Rows, NEW T \in SUBSET S
    PROVE  /\ Cardinality(T) <= Cardinality(S)
           /\ Cardinality(T) = Cardinality(S) => T = S
BY RowsCount, FS_Subset

(* A set that gains at most one row grows by at most one.                  *)
LEMMA OneMoreRow ==
    ASSUME NEW S \in SUBSET Rows, NEW T \in SUBSET Rows,
           \A x, y \in T \ S : x = y
    PROVE  Cardinality(T) <= Cardinality(S) + 1
<1>1. CASE T \subseteq S
  BY <1>1, FewerRows, RowsCount
<1>2. CASE ~(T \subseteq S)
  <2>1. PICK x \in T : x \notin S
    BY <1>2
  <2>2. S \cup {x} \in SUBSET Rows /\ T \subseteq S \cup {x}
    BY <2>1
  <2>3. Cardinality(S \cup {x}) = Cardinality(S) + 1
    BY <2>1, RowsCount, FS_AddElement
  <2> QED BY <2>2, <2>3, FewerRows
<1> QED BY <1>1, <1>2

-----------------------------------------------------------------------------
(* The place of a row in a list.                                           *)

Rank(S, r) == Cardinality({x \in S : Newer(x, r)})

LEMMA RankType ==
    ASSUME NEW S \in SUBSET Rows, NEW r
    PROVE  Rank(S, r) \in Nat
BY RowsCount DEF Rank

LEMMA RankJoin ==
    ASSUME NEW S \in SUBSET Rows, NEW x \in Rows \ S, NEW r
    PROVE  Rank(S \cup {x}, r)
             = IF Newer(x, r) THEN Rank(S, r) + 1 ELSE Rank(S, r)
<1> DEFINE N == {y \in S : Newer(y, r)}
<1>1. IsFiniteSet(N) /\ x \notin N
  BY RowsCount
<1>2. CASE Newer(x, r)
  <2>1. {y \in S \cup {x} : Newer(y, r)} = N \cup {x}
    BY <1>2
  <2> QED BY <1>1, <1>2, <2>1, FS_AddElement DEF Rank
<1>3. CASE ~Newer(x, r)
  <2>1. {y \in S \cup {x} : Newer(y, r)} = N
    BY <1>3
  <2> QED BY <1>3, <2>1 DEF Rank
<1> QED BY <1>2, <1>3

LEMMA RankLeave ==
    ASSUME NEW S \in SUBSET Rows, NEW x \in S, NEW r
    PROVE  Rank(S \ {x}, r)
             = IF Newer(x, r) THEN Rank(S, r) - 1 ELSE Rank(S, r)
<1>1. S \ {x} \in SUBSET Rows /\ x \in Rows \ (S \ {x}) /\ (S \ {x}) \cup {x} = S
  OBVIOUS
<1>2. Rank(S, r) = IF Newer(x, r) THEN Rank(S \ {x}, r) + 1
                   ELSE Rank(S \ {x}, r)
  BY <1>1, RankJoin
<1> QED BY <1>1, <1>2, RankType

(* What is newer than a row is newer than every row behind it.             *)
LEMMA RankOrder ==
    ASSUME NEW S \in SUBSET Rows, NEW r \in Rows, NEW s \in Rows, Newer(r, s)
    PROVE  /\ Rank(S, r) <= Rank(S, s)
           /\ r \in S => Rank(S, r) < Rank(S, s)
<1> DEFINE N(t) == {x \in S : Newer(x, t)}
<1>1. N(s) \in SUBSET Rows /\ N(r) \subseteq N(s)
  BY CreatedAssumption DEF Newer
<1>2. r \in S => r \in N(s) /\ r \notin N(r)
  BY CreatedAssumption DEF Newer
<1> QED BY <1>1, <1>2, FewerRows, RowsCount DEF Rank

(* Two rows that share their createdAt with none have different places.    *)
LEMMA RankDistinct ==
    ASSUME NEW S \in SUBSET Rows, NEW r \in S \cap Untied, NEW s \in S \cap Untied,
           Rank(S, r) = Rank(S, s)
    PROVE  r = s
<1> SUFFICES ASSUME r # s PROVE FALSE
  OBVIOUS
<1>1. Newer(r, s) \/ Newer(s, r)
  BY CreatedAssumption DEF Newer, Untied
<1>2. Rank(S, r) \in Nat /\ Rank(S, s) \in Nat
  BY RankType
<1> QED BY <1>1, <1>2, RankOrder

LEMMA RankListed ==
    ASSUME NEW S \in SUBSET Rows, NEW r \in S
    PROVE  Rank(S, r) < Cardinality(S)
<1> DEFINE N == {x \in S : Newer(x, r)}
<1>1. N \subseteq S /\ r \notin N
  BY CreatedAssumption DEF Newer
<1> QED BY <1>1, FewerRows, RowsCount DEF Rank

(* The first n rows of any sorted list hold the untied rows before n.      *)
LEMMA HeadRank ==
    ASSUME listed \in SUBSET Rows, NEW n \in Nat, NEW A \in Heads(n),
           NEW r \in listed \cap Untied
    PROVE  r \in A <=> Rank(listed, r) < n
<1> DEFINE N == {x \in listed : Newer(x, r)}
<1>0. /\ A \in SUBSET listed
      /\ \A x \in A, y \in listed \ A : ~Newer(y, x)
      /\ Cardinality(A) = IF n < Cardinality(listed) THEN n
                          ELSE Cardinality(listed)
      /\ Cardinality(A) \in Nat /\ Cardinality(listed) \in Nat
      /\ Rank(listed, r) \in Nat
  BY RowsCount, RankType DEF Heads
<1>1. ASSUME r \in A
      PROVE  Rank(listed, r) < n
  <2>1. N \subseteq A /\ r \notin N
    BY <1>0, <1>1, CreatedAssumption DEF Newer
  <2>2. Cardinality(N) < Cardinality(A)
    BY <1>0, <1>1, <2>1, FewerRows, RowsCount
  <2> QED BY <1>0, <2>2 DEF Rank
<1>2. ASSUME r \notin A
      PROVE  Rank(listed, r) >= n
  <2>1. A \subseteq N
    BY <1>0, <1>2, CreatedAssumption DEF Newer, Untied
  <2>2. Cardinality(A) <= Cardinality(N)
    BY <2>1, FewerRows
  <2>3. Cardinality(A) # Cardinality(listed)
    BY <1>0, <1>2, FewerRows
  <2> QED BY <1>0, <2>2, <2>3 DEF Rank
<1> QED BY <1>0, <1>1, <1>2

(* A page that is not full ends the list.                                  *)
LEMMA ShortPage ==
    ASSUME listed \in SUBSET Rows, NEW n \in Nat, NEW A \in Heads(n),
           NEW W \in SUBSET listed, W \cap A = {}, W \cup A \in Heads(n + Limit),
           Cardinality(W) < Limit
    PROVE  W \cup A = listed
<1>1. /\ Limit \in Nat
      /\ A \in SUBSET Rows /\ W \in SUBSET Rows /\ W \cup A \in SUBSET listed
      /\ Cardinality(A) \in Nat /\ Cardinality(W) \in Nat
      /\ Cardinality(listed) \in Nat
  BY LimitAssumption, RowsCount DEF Limits, Heads
<1>2. Cardinality(W \cup A) = Cardinality(W) + Cardinality(A)
  <2>1. IsFiniteSet(W) /\ IsFiniteSet(A)
    BY <1>1, RowsCount
  <2>2. Cardinality(W \cap A) = 0
    BY FS_EmptySet
  <2> QED BY <1>1, <2>1, <2>2, FS_Union
<1>3. /\ Cardinality(A) = IF n < Cardinality(listed) THEN n
                          ELSE Cardinality(listed)
      /\ Cardinality(W \cup A) = IF n + Limit < Cardinality(listed) THEN n + Limit
                                 ELSE Cardinality(listed)
  BY DEF Heads
<1>4. Cardinality(W \cup A) = Cardinality(listed)
  BY <1>1, <1>2, <1>3
<1> QED BY <1>1, <1>4, FewerRows

-----------------------------------------------------------------------------
(* Type correctness.                                                       *)

(* What each request of a walk does to the walk.                           *)
LEMMA Steps ==
    ASSUME Next
    PROVE  \/ \E list \in Lists :
                 Get(list)
           \/ /\ walk # NoWalk
              /\ \/ SelectPage
                 \/ SelectIds
                 \/ LoadEntities
                 \/ Answer
           \/ \E x \in Rows : Join(x) \/ Leave(x)
<1>1. NoWalk.pc = "idle"
  BY DEF NoWalk
<1>2. LoadEntities \/ Answer => walk # NoWalk
  BY <1>1 DEF LoadEntities, Answer
<1>3. FindDepartments \/ FindStaff => walk # NoWalk /\ SelectPage
  BY <1>1 DEF FindDepartments, FindStaff
<1>4. FindLeaveRequests \/ FindEmployees => walk # NoWalk /\ SelectIds
  BY <1>1 DEF FindLeaveRequests, FindEmployees
<1>5. GetLeaveRequests \/ GetEmployees \/ GetDepartments \/ GetStaff
        => \E list \in Lists : Get(list)
  BY DEF GetLeaveRequests, GetEmployees, GetDepartments, GetStaff, Lists
<1> QED BY <1>2, <1>3, <1>4, <1>5 DEF Next, Request

LEMMA WalkFields ==
    ASSUME walk \in Walks \cup {NoWalk}, walk # NoWalk
    PROVE  /\ walk \in Walks
           /\ walk.page \in Nat /\ walk.page > 0
           /\ walk.page + 1 \in Nat \ {0}
           /\ walk.window \in SUBSET Rows
<1>1. walk \in Walks
  OBVIOUS
<1>2. walk.page \in Nat \ {0} /\ walk.window \in SUBSET Rows
  BY <1>1 DEF Walks
<1> QED BY <1>1, <1>2

LEMMA LimitType == Limit \in Nat /\ Limit > 0
BY LimitAssumption DEF Limits

LEMMA WindowType ==
    ASSUME NEW page, NEW W \in Windows(page)
    PROVE  W \in SUBSET listed
BY DEF Windows

(* Only a total above the rows shown so far announces another page.        *)
LEMMA MoreRows ==
    ASSUME TypeOK, walk # NoWalk, NEW total \in Totals,
           HasNextPage(walk.page, total)
    PROVE  walk.page * Limit < Cardinality(Rows)
<1>1. walk.page \in Nat /\ walk.page > 0 /\ Limit \in Nat /\ Limit > 0
  BY WalkFields, LimitType DEF TypeOK
<1>2. CASE total = Cardinality(listed)
  BY <1>1, <1>2, RowsCount DEF HasNextPage, TypeOK
<1>3. ASSUME NEW n \in 0 .. Limit - 1, total = Offset(walk.page) + n
      PROVE  FALSE
  <2>1. (walk.page - 1) * Limit + n < walk.page * Limit
    BY <1>1, <1>3
  <2> QED BY <1>1, <1>3, <2>1 DEF HasNextPage, Offset
<1> QED BY <1>1, <1>2, <1>3 DEF Totals

(* What TypeOK needs to be inductive: the page to come exists, too.        *)
PagesExist ==
    walk # NoWalk /\ walk.pc = "more" => walk.page * Limit < Cardinality(Rows)
TypeInv == TypeOK /\ PagesExist

LEMMA TypeInit == Init => TypeInv
BY DEF Init, TypeInv, TypeOK, PagesExist

LEMMA GetType ==
    ASSUME TypeInv, NEW list \in Lists, Get(list)
    PROVE  TypeInv'
<1>1. CASE walk = NoWalk
  <2>1. NoWalk.pc = "idle"
    BY DEF NoWalk
  <2>2. /\ walk' = [pc |-> "select", list |-> list, page |-> 1, window |-> {},
                     robbed |-> FALSE]
        /\ stayed' = listed
        /\ UNCHANGED <<listed, shown, again, left, joins>>
    BY <1>1, <2>1 DEF Get
  <2>3. walk' \in Walks
    BY <2>2 DEF Walks, PCs
  <2>4. walk'.pc = "select" /\ walk'.page = 1
    BY <2>2
  <2> QED BY <2>2, <2>3, <2>4 DEF TypeInv, TypeOK, PagesExist
<1>2. CASE walk # NoWalk
  <2>1. /\ walk.pc = "more"
        /\ walk' = [walk EXCEPT !.pc = "select", !.page = @ + 1,
                                !.robbed = FALSE]
        /\ UNCHANGED <<listed, shown, again, stayed, left, joins>>
    BY <1>2 DEF Get
  <2>2. walk \in Walks /\ walk.page \in Nat /\ walk.page + 1 \in Nat \ {0}
    BY <1>2, WalkFields DEF TypeInv, TypeOK
  <2>3. walk' \in Walks
    BY <2>1, <2>2 DEF Walks, PCs
  <2>4. walk'.pc = "select" /\ walk'.page - 1 = walk.page
    BY <2>1, <2>2 DEF Walks
  <2> QED BY <1>2, <2>1, <2>3, <2>4 DEF TypeInv, TypeOK, PagesExist
<1> QED BY <1>1, <1>2

LEMMA RequestType ==
    ASSUME TypeInv, walk # NoWalk,
           SelectPage \/ SelectIds \/ LoadEntities \/ Answer
    PROVE  TypeInv'
<1>1. walk \in Walks /\ walk.window \in SUBSET Rows
  BY WalkFields DEF TypeInv, TypeOK
<1>2. ASSUME walk' \in Walks, walk'.page = walk.page,
             walk'.pc = "more" => walk.page * Limit < Cardinality(Rows),
             UNCHANGED <<listed, stayed, left, joins>>,
             shown' \subseteq Rows, again' \subseteq Rows
      PROVE  TypeInv'
  BY <1>2 DEF TypeInv, TypeOK, PagesExist
<1>3. CASE SelectPage
  <2>1. PICK rows \in Windows(walk.page) :
            /\ walk' = [walk EXCEPT !.pc = "count", !.window = rows]
            /\ Show(rows)
    BY <1>3 DEF SelectPage
  <2>2. rows \in SUBSET Rows
    BY WindowType DEF TypeInv, TypeOK
  <2>3. walk' \in Walks /\ walk'.pc = "count" /\ walk'.page = walk.page
    BY <1>1, <2>1, <2>2 DEF Walks, PCs
  <2>4. shown' \subseteq Rows /\ again' \subseteq Rows
    BY <2>1, <2>2 DEF Show, TypeInv, TypeOK
  <2> QED BY <1>2, <1>3, <2>3, <2>4 DEF SelectPage
<1>4. CASE SelectIds
  <2>1. PICK ids \in Windows(walk.page) :
            walk' = [walk EXCEPT !.pc = "load", !.window = ids]
    BY <1>4 DEF SelectIds
  <2>2. ids \in SUBSET Rows
    BY WindowType DEF TypeInv, TypeOK
  <2>3. walk' \in Walks /\ walk'.pc = "load" /\ walk'.page = walk.page
    BY <1>1, <2>1, <2>2 DEF Walks, PCs
  <2> QED BY <1>2, <1>4, <2>3 DEF SelectIds, TypeInv, TypeOK
<1>5. CASE LoadEntities
  <2>1. /\ walk' = [walk EXCEPT !.pc = "count", !.window = @ \cap listed,
                                !.robbed = /\ Cardinality(walk.window) >= Limit
                                           /\ ~(walk.window \subseteq listed)]
        /\ walk.window \cap listed \in SUBSET Rows
    BY <1>1, <1>5 DEF LoadEntities
  <2>2. walk' \in Walks /\ walk'.pc = "count" /\ walk'.page = walk.page
    BY <1>1, <2>1 DEF Walks, PCs
  <2>3. shown' \subseteq Rows /\ again' \subseteq Rows
    BY <1>5, <2>1 DEF LoadEntities, Show, TypeInv, TypeOK
  <2> QED BY <1>2, <1>5, <2>2, <2>3 DEF LoadEntities
<1>6. CASE Answer
  <2>1. PICK total \in Totals :
            walk' = [walk EXCEPT !.pc = IF HasNextPage(walk.page, total)
                                        THEN "more" ELSE "done"]
    BY <1>6 DEF Answer
  <2>2. /\ walk' \in Walks /\ walk'.page = walk.page
        /\ walk'.pc = "more" => HasNextPage(walk.page, total)
    BY <1>1, <2>1 DEF Walks, PCs
  <2>3. walk'.pc = "more" => walk.page * Limit < Cardinality(Rows)
    BY <2>2, MoreRows DEF TypeInv
  <2> QED BY <1>2, <1>6, <2>2, <2>3 DEF Answer, TypeInv, TypeOK
<1> QED BY <1>3, <1>4, <1>5, <1>6

LEMMA TypeStep == TypeInv /\ [Next]_vars => TypeInv'
<1> SUFFICES ASSUME TypeInv, [Next]_vars PROVE TypeInv'
  OBVIOUS
<1>1. CASE UNCHANGED vars
  BY <1>1 DEF vars, TypeInv, TypeOK, PagesExist
<1>2. ASSUME NEW x \in Rows, Join(x) \/ Leave(x)
      PROVE  TypeInv'
  BY <1>2 DEF Join, Leave, TypeInv, TypeOK, PagesExist
<1>3. CASE Next
  BY <1>2, <1>3, Steps, GetType, RequestType DEF TypeInv
<1> QED BY <1>1, <1>3

(* Every variable keeps its type, and no request asks for a page that the  *)
(* list could never have.                                                  *)
THEOREM ListTypeCorrect == Spec => []TypeOK
<1>1. TypeInv => TypeOK
  BY DEF TypeInv
<1> QED BY <1>1, TypeInit, TypeStep, PTL DEF Spec
-----------------------------------------------------------------------------
(* Rows a walk misses.                                                     *)

(* The places the walk has asked for, and the ids it is loading.           *)
Cover == IF walk.pc = "select" THEN Offset(walk.page)
         ELSE Offset(walk.page) + Limit
Pending == IF walk.pc = "load" THEN walk.window ELSE {}

(* Rows still to be shown, and those of them the walk has gone past.       *)
Open == (stayed \cap Untied) \ (shown \cup Pending)
Lost == {r \in Open : Rank(listed, r) < Cover}

(* Every row gone past is paid for by a departure; a page that is not full *)
(* leaves nothing else to be shown.                                        *)
MissInv ==
    walk # NoWalk =>
        /\ walk.pc # "done" => Cardinality(Lost) <= left
        /\ \/ walk.pc = "done"
           \/ walk.pc \in {"load", "count"} /\ Cardinality(walk.window) < Limit
           => (~walk.robbed => Cardinality(Open) <= left)
        /\ walk.pc \in {"select", "load"} => ~walk.robbed

LEMMA OffsetType ==
    ASSUME NEW page \in Nat, page > 0
    PROVE  /\ Offset(page) \in Nat
           /\ Offset(page + 1) = Offset(page) + Limit
           /\ Offset(page) + Limit = page * Limit
<1>1. page - 1 \in Nat /\ Limit \in Nat
  BY LimitType
<1>2. \A a, b \in Nat : a * b \in Nat
  OBVIOUS
<1>3. (page - 1) * Limit \in Nat
  BY <1>1, <1>2
<1>4. (page + 1 - 1) * Limit = (page - 1) * Limit + Limit
  BY <1>1
<1>5. (page - 1) * Limit + Limit = page * Limit
  BY <1>1
<1> QED BY <1>3, <1>4, <1>5 DEF Offset

LEMMA CoverType ==
    ASSUME TypeOK, walk # NoWalk
    PROVE  /\ walk.page \in Nat /\ walk.page > 0
           /\ walk.page * Limit \in Nat
           /\ Cover \in Nat
<1>1. walk \in Walks \cup {NoWalk}
  BY DEF TypeOK
<1>2. walk.page \in Nat /\ walk.page > 0
  BY <1>1, WalkFields
<1>3. Offset(walk.page) \in Nat /\ Offset(walk.page) + Limit = walk.page * Limit
  BY <1>2, OffsetType
<1>4. Offset(walk.page) + Limit \in Nat
  BY <1>3, LimitType
<1>5. walk.page * Limit \in Nat
  BY <1>3, <1>4
<1>6. Cover \in Nat
  BY <1>3, <1>4 DEF Cover
<1> QED BY <1>2, <1>5, <1>6

(* A page selected leaves behind what was behind before.                   *)
LEMMA SelectLoses ==
    ASSUME TypeInv, walk # NoWalk, walk.pc = "select",
           NEW rows \in Windows(walk.page),
           NEW r \in (stayed \cap Untied) \ (shown \cup rows),
           \/ Rank(listed, r) < Offset(walk.page) + Limit
           \/ Cardinality(rows) < Limit
    PROVE  r \in Lost
<1>1. walk.page \in Nat /\ walk.page > 0 /\ Limit \in Nat
  BY WalkFields, LimitType DEF TypeInv, TypeOK
<1>2. Offset(walk.page) \in Nat /\ Offset(walk.page) + Limit \in Nat
  BY <1>1, OffsetType
<1>3. PICK A \in Heads(Offset(walk.page)) :
          /\ rows \cap A = {}
          /\ rows \cup A \in Heads(Offset(walk.page) + Limit)
  BY DEF Windows
<1>4. listed \in SUBSET Rows /\ r \in listed \cap Untied /\ rows \in SUBSET listed
  BY WindowType DEF TypeInv, TypeOK
<1>5. r \in rows \cup A
  <2>1. CASE Rank(listed, r) < Offset(walk.page) + Limit
    BY <1>2, <1>3, <1>4, <2>1, HeadRank
  <2>2. CASE Cardinality(rows) < Limit
    BY <1>2, <1>3, <1>4, <2>2, ShortPage
  <2> QED BY <2>1, <2>2
<1>6. Rank(listed, r) < Offset(walk.page)
  BY <1>2, <1>3, <1>4, <1>5, HeadRank
<1> QED BY <1>6 DEF Lost, Open, Cover, Pending

LEMMA LostType ==
    ASSUME TypeInv
    PROVE  Open \in SUBSET Rows /\ Lost \in SUBSET Open /\ left \in Nat
BY DEF TypeInv, TypeOK, Open, Lost

LEMMA MissGet ==
    ASSUME TypeInv, MissInv, NEW list \in Lists, Get(list)
    PROVE  MissInv'
<1>1. CASE walk = NoWalk
  <2>1. NoWalk.pc = "idle"
    BY DEF NoWalk
  <2>2. /\ walk' = [pc |-> "select", list |-> list, page |-> 1, window |-> {},
                     robbed |-> FALSE]
        /\ stayed' = listed
        /\ UNCHANGED <<listed, shown, again, left, joins>>
    BY <1>1, <2>1 DEF Get
  <2>3. walk'.pc = "select" /\ walk'.page = 1 /\ ~walk'.robbed
    BY <2>2
  <2>4. Cover' = 0
    BY <2>3, LimitType DEF Cover, Offset
  <2>5. Lost' = {}
    BY <2>2, <2>4, RankType DEF Lost, TypeInv, TypeOK
  <2> QED BY <2>2, <2>3, <2>5, FS_EmptySet DEF MissInv, TypeInv, TypeOK
<1>2. CASE walk # NoWalk
  <2>1. /\ walk.pc = "more"
        /\ walk' = [walk EXCEPT !.pc = "select", !.page = @ + 1,
                                !.robbed = FALSE]
        /\ UNCHANGED <<listed, shown, again, stayed, left, joins>>
    BY <1>2 DEF Get
  <2>2. walk \in Walks /\ walk.page \in Nat /\ walk.page > 0
    BY <1>2, WalkFields DEF TypeInv, TypeOK
  <2>3. walk'.pc = "select" /\ walk'.page = walk.page + 1 /\ ~walk'.robbed
    BY <2>1, <2>2 DEF Walks
  <2>4. Cover' = Cover
    BY <2>1, <2>2, <2>3, OffsetType DEF Cover, Offset
  <2>5. Open' = Open
    BY <2>1, <2>3 DEF Open, Pending
  <2>6. Lost' = Lost
    BY <2>1, <2>4, <2>5 DEF Lost
  <2> QED BY <1>2, <2>1, <2>3, <2>6 DEF MissInv
<1> QED BY <1>1, <1>2
(* Both ways to select a page.                                             *)
LEMMA MissSelect ==
    ASSUME TypeInv, MissInv, walk # NoWalk, walk.pc = "select",
           NEW rows \in Windows(walk.page),
           \/ /\ walk' = [walk EXCEPT !.pc = "count", !.window = rows]
              /\ shown' = shown \cup rows
           \/ /\ walk' = [walk EXCEPT !.pc = "load", !.window = rows]
              /\ UNCHANGED shown,
           UNCHANGED <<listed, stayed, left>>
    PROVE  MissInv'
<1>1. walk \in Walks /\ rows \in SUBSET listed
  BY WalkFields, WindowType DEF TypeInv, TypeOK
<1>2. /\ walk'.page = walk.page /\ walk'.robbed = walk.robbed
      /\ walk'.window = rows
      /\ \/ walk'.pc = "load" /\ UNCHANGED shown
         \/ walk'.pc = "count" /\ shown' = shown \cup rows
  BY <1>1 DEF Walks
<1>3. Open' = (stayed \cap Untied) \ (shown \cup rows)
  BY <1>2 DEF Open, Pending
<1>4. Cover' = Offset(walk.page) + Limit
  BY <1>2 DEF Cover, Offset
<1>5. Lost' \in SUBSET Lost
  BY <1>3, <1>4, SelectLoses DEF Lost
<1>6. Cardinality(rows) < Limit => Open' \in SUBSET Lost
  BY <1>3, SelectLoses
<1>7. Lost \in SUBSET Rows /\ Cardinality(Lost) <= left /\ left \in Nat
  BY LostType DEF MissInv
<1>8. Cardinality(Lost') <= left
  BY <1>5, <1>7, FewerRows, RowsCount
<1>9. Cardinality(rows) < Limit => Cardinality(Open') <= left
  BY <1>6, <1>7, FewerRows, RowsCount
<1>10. ~walk'.robbed
  BY <1>2 DEF MissInv
<1> QED BY <1>2, <1>8, <1>9, <1>10 DEF MissInv

LEMMA MissLoad ==
    ASSUME TypeInv, MissInv, LoadEntities
    PROVE  MissInv'
<1>1. NoWalk.pc = "idle"
  BY DEF NoWalk
<1>2. walk # NoWalk /\ walk.pc = "load" /\ UNCHANGED <<listed, stayed, left>>
  BY <1>1 DEF LoadEntities
<1>3. walk \in Walks
  BY <1>2, WalkFields DEF TypeInv, TypeOK
<1>4. /\ walk'.pc = "count" /\ walk'.page = walk.page
      /\ walk'.window = walk.window \cap listed
      /\ walk'.robbed = /\ Cardinality(walk.window) >= Limit
                        /\ ~(walk.window \subseteq listed)
      /\ shown' = shown \cup (walk.window \cap listed)
  BY <1>3 DEF LoadEntities, Walks, Show
<1>5. Open' = Open
  BY <1>2, <1>4 DEF Open, Pending, TypeInv, TypeOK
<1>6. Cover' = Cover
  BY <1>2, <1>4 DEF Cover, Offset
<1>7. Lost' = Lost
  BY <1>2, <1>5, <1>6 DEF Lost
<1>8. Cardinality(walk'.window) < Limit /\ ~walk'.robbed
         => Cardinality(walk.window) < Limit
  <2>1. Cardinality(walk.window) \in Nat /\ Limit \in Nat
    BY <1>3, RowsCount, LimitType DEF Walks
  <2>2. walk.window \subseteq listed => walk'.window = walk.window
    BY <1>4
  <2> QED BY <1>4, <2>1, <2>2
<1>9. ~walk.robbed
  BY <1>2 DEF MissInv
<1> QED BY <1>2, <1>4, <1>5, <1>7, <1>8, <1>9 DEF MissInv

LEMMA MissAnswer ==
    ASSUME TypeInv, MissInv, Answer
    PROVE  MissInv'
<1>1. NoWalk.pc = "idle"
  BY DEF NoWalk
<1>2. walk # NoWalk /\ walk.pc = "count" /\ UNCHANGED <<listed, shown, stayed, left>>
  BY <1>1 DEF Answer
<1>3. walk \in Walks /\ walk.page \in Nat /\ walk.page > 0
  BY <1>2, WalkFields DEF TypeInv, TypeOK
<1>4. PICK total \in Totals :
          walk' = [walk EXCEPT !.pc = IF HasNextPage(walk.page, total)
                                      THEN "more" ELSE "done"]
  BY DEF Answer
<1>5. /\ walk'.page = walk.page /\ walk'.robbed = walk.robbed
      /\ walk'.pc = IF HasNextPage(walk.page, total) THEN "more" ELSE "done"
  BY <1>3, <1>4 DEF Walks
<1>6. Open' = Open
  BY <1>2, <1>5 DEF Open, Pending
<1>7. Cover' = Cover /\ Cover = walk.page * Limit
  BY <1>2, <1>3, <1>5, OffsetType DEF Cover, Offset
<1>8. Lost' = Lost
  BY <1>2, <1>6, <1>7 DEF Lost
<1>9. ASSUME ~HasNextPage(walk.page, total), ~walk.robbed
      PROVE  Cardinality(Open) <= left
  <2>1. CASE total = Cardinality(listed)
    <3>1. \A r \in Open : Rank(listed, r) < Cover
      <4>1. Cardinality(listed) <= walk.page * Limit
        BY <1>3, <1>9, <2>1, LimitType, RowsCount DEF HasNextPage, TypeInv, TypeOK
      <4>2. \A r \in Open : Rank(listed, r) \in Nat /\ Rank(listed, r) < Cardinality(listed)
        BY RankType, RankListed DEF Open, TypeInv, TypeOK
      <4>3. walk.page * Limit \in Nat
        <5>1. Offset(walk.page) \in Nat /\ Offset(walk.page) + Limit = walk.page * Limit
          BY <1>3, OffsetType
        <5>2. Offset(walk.page) + Limit \in Nat
          BY <5>1, LimitType
        <5> QED BY <5>1, <5>2
      <4>4. Cardinality(listed) \in Nat
        BY RowsCount DEF TypeInv, TypeOK
      <4> QED BY <1>7, <4>1, <4>2, <4>3, <4>4
    <3>2. Lost = Open
      BY <3>1 DEF Lost
    <3> QED BY <1>2, <3>2 DEF MissInv
  <2>2. CASE Cardinality(walk.window) < Limit
    BY <1>2, <1>9, <2>2 DEF MissInv
  <2>3. total = Cardinality(listed) \/ Cardinality(walk.window) < Limit
    BY LimitType DEF Totals
  <2> QED BY <2>1, <2>2, <2>3
<1> QED BY <1>2, <1>5, <1>6, <1>8, <1>9 DEF MissInv

LEMMA MissJoin ==
    ASSUME TypeInv, MissInv, NEW x \in Rows, Join(x)
    PROVE  MissInv'
<1>1. /\ UNCHANGED <<walk, shown, stayed, left>>
      /\ listed' = listed \cup {x} /\ x \in Rows \ listed /\ listed \in SUBSET Rows
      /\ walk # NoWalk
  BY DEF Join, Changing, TypeInv, TypeOK
<1>2. Open' = Open /\ Cover' = Cover
  BY <1>1 DEF Open, Pending, Cover, Offset
<1>3. walk.page \in Nat /\ walk.page > 0 /\ Cover \in Nat
  BY <1>1, CoverType DEF TypeInv
<1>4. \A r \in Open : Rank(listed', r) >= Rank(listed, r)
                      /\ Rank(listed', r) \in Nat /\ Rank(listed, r) \in Nat
  BY <1>1, RankJoin, RankType
<1>5. Lost' \in SUBSET Lost
  BY <1>2, <1>3, <1>4 DEF Lost
<1>6. Cardinality(Lost') <= Cardinality(Lost)
  BY <1>5, LostType, FewerRows
<1>7. Cardinality(Lost') \in Nat /\ Cardinality(Lost) \in Nat
  BY <1>5, LostType, RowsCount
<1>8. walk.pc # "done" => Cardinality(Lost') <= left
  BY <1>1, <1>6, <1>7, LostType DEF MissInv
<1> QED BY <1>1, <1>2, <1>8 DEF MissInv

LEMMA MissLeave ==
    ASSUME TypeInv, MissInv, NEW x \in Rows, Leave(x)
    PROVE  MissInv'
<1>1. /\ UNCHANGED <<walk, shown>>
      /\ listed' = listed \ {x} /\ x \in listed /\ listed \in SUBSET Rows
      /\ stayed' = stayed \ {x} /\ stayed \subseteq listed
      /\ left' = left + 1 /\ left \in Nat
      /\ walk # NoWalk
  BY DEF Leave, Changing, TypeInv, TypeOK
<1>2. Open' = Open \ {x} /\ Cover' = Cover
  BY <1>1 DEF Open, Pending, Cover, Offset
<1>3. walk.page \in Nat /\ walk.page > 0 /\ Cover \in Nat
  BY <1>1, CoverType DEF TypeInv
<1>4. Open \in SUBSET (listed \cap Untied)
  BY <1>1 DEF Open
<1>5. \A r \in Lost' \ Lost : r \in listed \cap Untied /\ Rank(listed, r) = Cover
  <2>1. SUFFICES ASSUME NEW r \in Lost' \ Lost
                 PROVE  r \in listed \cap Untied /\ Rank(listed, r) = Cover
    OBVIOUS
  <2>2. r \in Open /\ Rank(listed', r) < Cover /\ ~(Rank(listed, r) < Cover)
    BY <1>2 DEF Lost
  <2>3. Rank(listed', r) >= Rank(listed, r) - 1 /\ Rank(listed, r) \in Nat
        /\ Rank(listed', r) \in Nat
    <3>1. Rank(listed', r) = IF Newer(x, r) THEN Rank(listed, r) - 1
                             ELSE Rank(listed, r)
      BY <1>1, RankLeave
    <3>2. Rank(listed, r) \in Nat /\ Rank(listed \ {x}, r) \in Nat
      BY <1>1, RankType
    <3> QED BY <1>1, <3>1, <3>2
  <2> QED BY <1>3, <1>4, <2>2, <2>3
<1>6. \A r, s \in Lost' \ Lost : r = s
  BY <1>1, <1>5, RankDistinct
<1>7. Lost' \in SUBSET Rows /\ Lost \in SUBSET Rows
  BY <1>1, <1>2, <1>4 DEF Lost
<1>8. Cardinality(Lost') <= Cardinality(Lost) + 1
  BY <1>6, <1>7, OneMoreRow
<1>9. Cardinality(Lost') \in Nat /\ Cardinality(Lost) \in Nat
  BY <1>7, RowsCount
<1>10. walk.pc # "done" => Cardinality(Lost') <= left'
  BY <1>1, <1>8, <1>9 DEF MissInv
<1>11. /\ Open \in SUBSET Rows /\ Open' \in SUBSET Open
       /\ Cardinality(Open') <= Cardinality(Open)
       /\ Cardinality(Open') \in Nat /\ Cardinality(Open) \in Nat
  BY <1>2, LostType, FewerRows, RowsCount
<1> QED BY <1>1, <1>10, <1>11 DEF MissInv

LEMMA MissStep == TypeInv /\ MissInv /\ [Next]_vars => MissInv'
<1> SUFFICES ASSUME TypeInv, MissInv, [Next]_vars PROVE MissInv'
  OBVIOUS
<1>1. CASE UNCHANGED vars
  BY <1>1 DEF vars, MissInv, Lost, Open, Pending, Cover, Offset
<1>2. ASSUME walk # NoWalk, SelectPage
      PROVE  MissInv'
  <2>1. PICK rows \in Windows(walk.page) :
            /\ walk' = [walk EXCEPT !.pc = "count", !.window = rows]
            /\ Show(rows)
    BY <1>2 DEF SelectPage
  <2> QED BY <1>2, <2>1, MissSelect DEF SelectPage, Show
<1>3. ASSUME walk # NoWalk, SelectIds
      PROVE  MissInv'
  BY <1>3, MissSelect DEF SelectIds
<1>4. CASE Next
  BY <1>2, <1>3, <1>4, Steps, MissGet, MissLoad, MissAnswer, MissJoin, MissLeave
<1> QED BY <1>1, <1>4

(* A walk of any list that ends has shown every row that was there all     *)
(* along, but for one row per departure, unless its last page was robbed.  *)
THEOREM NoMissWithoutDeparture == Spec => []MissesAreDepartures
<1>1. Init => MissInv
  BY DEF Init, MissInv
<1>2. TypeInv /\ MissInv => MissesAreDepartures
  <2>1. NoWalk.pc = "idle"
    BY DEF NoWalk
  <2>2. walk.pc = "done" => Unseen = Open
    BY DEF Unseen, Open, Pending
  <2> QED BY <2>1, <2>2 DEF MissInv, MissesAreDepartures
<1> QED BY <1>1, <1>2, TypeInit, TypeStep, MissStep, PTL DEF Spec
-----------------------------------------------------------------------------
(* Rows a walk shows twice.                                                *)

(* Rows shown twice, or about to be; and rows shown that have slid back to *)
(* places the walk has yet to ask for.                                     *)
Twice == (again \cup (Pending \cap shown)) \cap Untied
Back == {r \in (shown \cup Pending) \cap listed \cap Untied :
            Rank(listed, r) >= Cover}

(* Every such row is paid for by an arrival.                               *)
RepeatInv ==
    /\ walk = NoWalk => shown = {} /\ again = {}
    /\ walk # NoWalk => Cardinality(Twice \cup Back) <= joins

LEMMA RepeatType ==
    ASSUME TypeInv
    PROVE  Twice \cup Back \in SUBSET Rows /\ joins \in Nat
BY DEF TypeInv, TypeOK, Twice, Back, Untied

(* A step that adds no such row keeps the invariant.                       *)
LEMMA RepeatNothingNew ==
    ASSUME TypeInv, RepeatInv, walk # NoWalk, walk' # NoWalk,
           Twice' \cup Back' \subseteq Twice \cup Back, joins' = joins
    PROVE  RepeatInv'
<1>1. Cardinality(Twice' \cup Back') <= Cardinality(Twice \cup Back)
  BY RepeatType, FewerRows
<1>2. /\ Cardinality(Twice' \cup Back') \in Nat
      /\ Cardinality(Twice \cup Back) \in Nat
  BY RepeatType, RowsCount
<1> QED BY <1>1, <1>2, RepeatType DEF RepeatInv

LEMMA RepeatGet ==
    ASSUME TypeInv, TypeInv', RepeatInv, NEW list \in Lists, Get(list)
    PROVE  RepeatInv'
<1>0. NoWalk.pc = "idle"
  BY DEF NoWalk
<1>1. CASE walk = NoWalk
  <2>1. /\ walk' = [pc |-> "select", list |-> list, page |-> 1, window |-> {},
                     robbed |-> FALSE]
        /\ UNCHANGED <<listed, shown, again, left, joins>>
    BY <1>0, <1>1 DEF Get
  <2>2. walk'.pc = "select" /\ walk' # NoWalk
    BY <1>0, <2>1
  <2>3. Twice' \cup Back' = {}
    BY <1>1, <2>1, <2>2 DEF RepeatInv, Twice, Back, Pending
  <2>4. Cardinality(Twice' \cup Back') = 0
    BY <2>3, FS_EmptySet
  <2>5. joins' \in Nat
    BY RepeatType, <2>1
  <2> QED BY <2>2, <2>4, <2>5 DEF RepeatInv
<1>2. CASE walk # NoWalk
  <2>1. /\ walk.pc = "more"
        /\ walk' = [walk EXCEPT !.pc = "select", !.page = @ + 1,
                                !.robbed = FALSE]
        /\ UNCHANGED <<listed, shown, again, stayed, left, joins>>
    BY <1>2 DEF Get
  <2>2. walk \in Walks /\ walk.page \in Nat /\ walk.page > 0
    BY <1>2, WalkFields DEF TypeInv, TypeOK
  <2>3. walk'.pc = "select" /\ walk'.page = walk.page + 1
    BY <2>1, <2>2 DEF Walks
  <2>4. Cover' = Cover
    BY <2>1, <2>2, <2>3, OffsetType DEF Cover, Offset
  <2>5. Twice' = Twice /\ Back' = Back
    BY <2>1, <2>3, <2>4 DEF Twice, Back, Pending
  <2> QED BY <1>0, <1>2, <2>1, <2>3, <2>5, RepeatNothingNew
<1> QED BY <1>1, <1>2

LEMMA RepeatSelect ==
    ASSUME TypeInv, RepeatInv, walk # NoWalk, walk.pc = "select",
           NEW rows \in Windows(walk.page),
           \/ /\ walk' = [walk EXCEPT !.pc = "count", !.window = rows]
              /\ shown' = shown \cup rows
              /\ again' = again \cup (shown \cap rows)
           \/ /\ walk' = [walk EXCEPT !.pc = "load", !.window = rows]
              /\ UNCHANGED <<shown, again>>,
           UNCHANGED <<listed, joins>>
    PROVE  RepeatInv'
<1>1. /\ walk \in Walks /\ rows \in SUBSET listed /\ listed \in SUBSET Rows
      /\ walk.page \in Nat /\ walk.page > 0 /\ Limit \in Nat
  BY WalkFields, WindowType, LimitType DEF TypeInv, TypeOK
<1>2. walk'.page = walk.page /\ walk'.window = rows /\ walk'.pc \in {"load", "count"}
  BY <1>1 DEF Walks
<1>3. /\ Cover = Offset(walk.page) /\ Cover' = Offset(walk.page) + Limit
      /\ Cover \in Nat /\ Cover' \in Nat
  BY <1>1, <1>2, OffsetType DEF Cover, Offset
<1>4. PICK A \in Heads(Offset(walk.page)) :
          /\ rows \cap A = {}
          /\ rows \cup A \in Heads(Offset(walk.page) + Limit)
  BY DEF Windows
<1>5. \A r \in rows \cap Untied :
          Cover <= Rank(listed, r) /\ Rank(listed, r) < Cover'
  <2>1. SUFFICES ASSUME NEW r \in rows \cap Untied
                 PROVE  Cover <= Rank(listed, r) /\ Rank(listed, r) < Cover'
    OBVIOUS
  <2>2. r \in listed \cap Untied /\ r \notin A /\ r \in rows \cup A
        /\ Rank(listed, r) \in Nat
    BY <1>1, <1>4, RankType
  <2> QED BY <1>1, <1>3, <1>4, <2>2, HeadRank
<1>6. /\ shown' \cup Pending' = shown \cup rows
      /\ Twice' = (again \cup (shown \cap rows)) \cap Untied
  <2>1. CASE walk' = [walk EXCEPT !.pc = "count", !.window = rows]
             /\ shown' = shown \cup rows /\ again' = again \cup (shown \cap rows)
    <3>1. walk'.pc = "count"
      BY <1>1, <2>1 DEF Walks
    <3>2. Pending' = {}
      BY <3>1 DEF Pending
    <3> QED BY <2>1, <3>1, <3>2 DEF Twice
  <2>2. CASE walk' = [walk EXCEPT !.pc = "load", !.window = rows]
             /\ UNCHANGED <<shown, again>>
    <3>1. walk'.pc = "load"
      BY <1>1, <2>2 DEF Walks
    <3>2. Pending' = rows
      BY <1>2, <3>1 DEF Pending
    <3> QED BY <2>2, <3>1, <3>2 DEF Twice
  <2> QED BY <2>1, <2>2
<1>7. Twice = again \cap Untied
      /\ \A r \in shown \cap listed \cap Untied : Rank(listed, r) >= Cover => r \in Back
  BY DEF Twice, Back, Pending
<1>8. Twice' \subseteq Twice \cup Back
  BY <1>1, <1>5, <1>6, <1>7
<1>9. Back' \subseteq Back
  <2>1. SUFFICES ASSUME NEW r \in Back' PROVE r \in Back
    OBVIOUS
  <2>2. /\ r \in (shown \cup rows) \cap listed \cap Untied
        /\ Rank(listed, r) >= Cover' /\ Rank(listed, r) \in Nat
    BY <1>1, <1>6, RankType DEF Back
  <2>3. r \notin rows
    BY <1>3, <1>5, <2>2
  <2> QED BY <1>1, <1>3, <1>7, <2>2, <2>3
<1>10. walk' # NoWalk
  BY <1>2 DEF NoWalk
<1> QED BY <1>8, <1>9, <1>10, RepeatNothingNew

LEMMA RepeatLoad ==
    ASSUME TypeInv, RepeatInv, LoadEntities
    PROVE  RepeatInv'
<1>1. NoWalk.pc = "idle"
  BY DEF NoWalk
<1>2. walk # NoWalk /\ walk.pc = "load" /\ UNCHANGED <<listed, joins>>
  BY <1>1 DEF LoadEntities
<1>3. walk \in Walks
  BY <1>2, WalkFields DEF TypeInv, TypeOK
<1>4. /\ walk'.pc = "count" /\ walk'.page = walk.page
      /\ shown' = shown \cup (walk.window \cap listed)
      /\ again' = again \cup (shown \cap (walk.window \cap listed))
  BY <1>3 DEF LoadEntities, Walks, Show
<1>5. Cover' = Cover
  BY <1>2, <1>4 DEF Cover, Offset
<1>6. Twice' \cup Back' \subseteq Twice \cup Back
  BY <1>2, <1>4, <1>5 DEF Twice, Back, Pending
<1> QED BY <1>1, <1>2, <1>4, <1>6, RepeatNothingNew

LEMMA RepeatAnswer ==
    ASSUME TypeInv, RepeatInv, Answer
    PROVE  RepeatInv'
<1>1. NoWalk.pc = "idle"
  BY DEF NoWalk
<1>2. walk # NoWalk /\ walk.pc = "count" /\ UNCHANGED <<listed, shown, again, joins>>
  BY <1>1 DEF Answer
<1>3. walk \in Walks
  BY <1>2, WalkFields DEF TypeInv, TypeOK
<1>4. walk'.page = walk.page /\ walk'.pc \in {"more", "done"}
  BY <1>3 DEF Answer, Walks
<1>5. Cover' = Cover
  BY <1>2, <1>4 DEF Cover, Offset
<1>6. Twice' \cup Back' \subseteq Twice \cup Back
  BY <1>2, <1>4, <1>5 DEF Twice, Back, Pending
<1> QED BY <1>1, <1>2, <1>4, <1>6, RepeatNothingNew

LEMMA RepeatJoin ==
    ASSUME TypeInv, RepeatInv, NEW x \in Rows, Join(x)
    PROVE  RepeatInv'
<1>1. /\ UNCHANGED <<walk, shown, again>>
      /\ listed' = listed \cup {x} /\ x \in Rows \ listed /\ listed \in SUBSET Rows
      /\ joins' = joins + 1 /\ joins \in Nat /\ walk # NoWalk
  BY DEF Join, Changing, TypeInv, TypeOK
<1>2. Twice' = Twice /\ Cover' = Cover
  BY <1>1 DEF Twice, Pending, Cover, Offset
<1>3. Cover \in Nat
  BY <1>1, CoverType DEF TypeInv
<1>4. Untied \subseteq Rows
  BY DEF Untied
<1>5. ASSUME NEW r \in Back' \ Back
      PROVE  /\ r \in Untied
             /\ \/ r = x /\ Rank(listed, r) >= Cover
                \/ Newer(x, r) /\ r \in listed /\ Rank(listed, r) = Cover - 1
  <2>1. /\ r \in (shown \cup Pending) \cap listed' \cap Untied
        /\ Rank(listed', r) >= Cover
    BY <1>1, <1>2 DEF Back, Pending
  <2>2. /\ Rank(listed', r) = IF Newer(x, r) THEN Rank(listed, r) + 1
                              ELSE Rank(listed, r)
        /\ Rank(listed, r) \in Nat
    BY <1>1, RankJoin, RankType
  <2>3. CASE r = x
    <3>1. ~Newer(x, r)
      BY <1>1, <2>3, CreatedAssumption DEF Newer
    <3> QED BY <2>1, <2>2, <2>3, <3>1
  <2>4. CASE r # x
    <3>1. r \in listed
      BY <1>1, <2>1, <2>4
    <3>2. Rank(listed, r) < Cover
      BY <1>3, <2>1, <2>2, <3>1 DEF Back
    <3> QED BY <1>3, <2>1, <2>2, <3>1, <3>2
  <2> QED BY <2>3, <2>4
<1>6. ASSUME NEW r \in Back' \ Back, NEW s \in Back' \ Back
      PROVE  r = s
  <2>1. ASSUME NEW y \in Untied, Newer(x, y), Rank(listed, y) = Cover - 1
        PROVE  ~(Rank(listed, x) >= Cover)
    <3>1. Rank(listed, x) <= Rank(listed, y)
      BY <1>1, <1>4, <2>1, RankOrder
    <3> QED BY <1>1, <1>3, <2>1, <3>1, RankType
  <2>2. r \in listed /\ s \in listed /\ Rank(listed, r) = Rank(listed, s) => r = s
    BY <1>1, <1>5, RankDistinct
  <2> QED BY <1>5, <2>1, <2>2
<1>7. Cardinality(Twice' \cup Back') <= Cardinality(Twice \cup Back) + 1
  <2>1. Twice' \cup Back' \in SUBSET Rows
    BY <1>2, <1>4, RepeatType DEF Back
  <2>2. \A r, s \in (Twice' \cup Back') \ (Twice \cup Back) : r = s
    BY <1>2, <1>6
  <2> QED BY <2>1, <2>2, RepeatType, OneMoreRow
<1>8. /\ Cardinality(Twice' \cup Back') \in Nat
      /\ Cardinality(Twice \cup Back) \in Nat
  BY <1>2, <1>4, RepeatType, RowsCount DEF Back
<1> QED BY <1>1, <1>7, <1>8 DEF RepeatInv

LEMMA RepeatLeave ==
    ASSUME TypeInv, RepeatInv, NEW x \in Rows, Leave(x)
    PROVE  RepeatInv'
<1>1. /\ UNCHANGED <<walk, shown, again, joins>>
      /\ listed' = listed \ {x} /\ x \in listed /\ listed \in SUBSET Rows
      /\ walk # NoWalk
  BY DEF Leave, Changing, TypeInv, TypeOK
<1>2. Twice' = Twice /\ Cover' = Cover
  BY <1>1 DEF Twice, Pending, Cover, Offset
<1>3. Cover \in Nat
  BY <1>1, CoverType DEF TypeInv
<1>4. ASSUME NEW r \in Back' PROVE r \in Back
  <2>1. /\ r \in (shown \cup Pending) \cap (listed \ {x}) \cap Untied
        /\ Rank(listed', r) >= Cover
    BY <1>1, <1>2 DEF Back, Pending
  <2>2. /\ Rank(listed, r) >= Rank(listed', r)
        /\ Rank(listed', r) \in Nat /\ Rank(listed, r) \in Nat
    <3>1. Rank(listed', r) = IF Newer(x, r) THEN Rank(listed, r) - 1
                             ELSE Rank(listed, r)
      BY <1>1, RankLeave
    <3>2. Rank(listed, r) \in Nat /\ Rank(listed \ {x}, r) \in Nat
      BY <1>1, RankType
    <3> QED BY <1>1, <3>1, <3>2
  <2> QED BY <1>3, <2>1, <2>2 DEF Back
<1> QED BY <1>1, <1>2, <1>4, RepeatNothingNew

LEMMA RepeatStep == TypeInv /\ TypeInv' /\ RepeatInv /\ [Next]_vars => RepeatInv'
<1> SUFFICES ASSUME TypeInv, TypeInv', RepeatInv, [Next]_vars PROVE RepeatInv'
  OBVIOUS
<1>1. CASE UNCHANGED vars
  BY <1>1 DEF vars, RepeatInv, Twice, Back, Pending, Cover, Offset
<1>2. ASSUME walk # NoWalk, SelectPage
      PROVE  RepeatInv'
  <2>1. PICK rows \in Windows(walk.page) :
            /\ walk' = [walk EXCEPT !.pc = "count", !.window = rows]
            /\ Show(rows)
    BY <1>2 DEF SelectPage
  <2> QED BY <1>2, <2>1, RepeatSelect DEF SelectPage, Show
<1>3. ASSUME walk # NoWalk, SelectIds
      PROVE  RepeatInv'
  BY <1>3, RepeatSelect DEF SelectIds
<1>4. CASE Next
  BY <1>2, <1>3, <1>4, Steps, RepeatGet, RepeatLoad, RepeatAnswer, RepeatJoin,
     RepeatLeave
<1> QED BY <1>1, <1>4

(* A walk shows a row twice only as often as rows have joined the list.    *)
THEOREM NoRepeatWithoutArrival == Spec => []RepeatsAreJoins
<1>1. Init => RepeatInv
  BY DEF Init, RepeatInv
<1>2. TypeInv /\ RepeatInv => RepeatsAreJoins
  <2> SUFFICES ASSUME TypeInv, RepeatInv PROVE RepeatsAreJoins
    OBVIOUS
  <2>1. CASE walk = NoWalk
    <3>1. again \cap Untied = {}
      BY <2>1 DEF RepeatInv
    <3>2. Cardinality(again \cap Untied) = 0
      BY <3>1, FS_EmptySet
    <3>3. joins \in Nat
      BY RepeatType
    <3> QED BY <3>2, <3>3 DEF RepeatsAreJoins
  <2>2. CASE walk # NoWalk
    <3>1. again \cap Untied \in SUBSET (Twice \cup Back)
      BY DEF Twice
    <3>2. Cardinality(again \cap Untied) <= Cardinality(Twice \cup Back)
      BY <3>1, RepeatType, FewerRows
    <3>3. /\ Cardinality(again \cap Untied) \in Nat
          /\ Cardinality(Twice \cup Back) \in Nat
      BY <3>1, RepeatType, RowsCount
    <3> QED BY <2>2, <3>2, <3>3, RepeatType DEF RepeatInv, RepeatsAreJoins
  <2> QED BY <2>1, <2>2
<1> QED BY <1>1, <1>2, TypeInit, TypeStep, RepeatStep, PTL DEF Spec
=============================================================================
