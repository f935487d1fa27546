-------------------------- MODULE LeaveCountsProofs --------------------------
(***************************************************************************)
(* Proofs about LeavePipeline that count: how many copies of an event there*)
(* can be, and how much work is left.                                      *)
(***************************************************************************)
EXTENDS LeavePipelineProofs

-----------------------------------------------------------------------------
(* Sums over finite sets.                                                  *)

LEMMA TokenOf ==
    ASSUME NEW S, NEW f \in [S -> Nat], NEW t
    PROVE  t \in Tokens(f) <=> \E x \in S : \E n \in 1 .. f[x] : t = <<x, n>>
BY DEF Tokens

LEMMA TotalType ==
    ASSUME NEW S, IsFiniteSet(S), NEW f \in [S -> Nat]
    PROVE  IsFiniteSet(Tokens(f)) /\ Total(f) \in Nat
<1> DEFINE Piece(x) == {x} \X (1 .. f[x])
           Pieces == {Piece(x) : x \in S}
           piece == [x \in S |-> Piece(x)]
<1>1. piece \in Surjection(S, Pieces)
  <2>1. piece \in [S -> Pieces] /\ \A T \in Pieces : \E x \in S : piece[x] = T
    OBVIOUS
  <2> HIDE DEF piece, Pieces
  <2> QED BY <2>1 DEF Surjection
<1>2. IsFiniteSet(Pieces)
  BY <1>1, FS_Surjection
<1>3. \A x \in S : IsFiniteSet(Piece(x))
  <2> TAKE x \in S
  <2>1. IsFiniteSet({x})
    BY FS_Singleton
  <2>2. f[x] \in Int
    OBVIOUS
  <2>3. IsFiniteSet(1 .. f[x])
    BY <2>2, FS_Interval
  <2> QED BY <2>1, <2>3, FS_Product
<1>4. IsFiniteSet(UNION Pieces)
  <2>1. \A T \in Pieces : IsFiniteSet(T)
    BY <1>3
  <2> HIDE DEF Pieces
  <2> QED BY <1>2, <2>1, FS_UNION
<1>5. Tokens(f) = UNION Pieces
  BY DEF Tokens
<1> QED BY <1>4, <1>5, FS_CardinalityType DEF Total

(* One member of the domain contributes its own value.                     *)
LEMMA TotalSplit ==
    ASSUME NEW S, IsFiniteSet(S), NEW f \in [S -> Nat], NEW x \in S
    PROVE  Total(f) = Total([y \in S \ {x} |-> f[y]]) + f[x]
<1> DEFINE rest == [y \in S \ {x} |-> f[y]]
           Own == {x} \X (1 .. f[x])
<1>1. rest \in [S \ {x} -> Nat]
  OBVIOUS
<1>2. IsFiniteSet(S \ {x})
  BY FS_RemoveElement
<1>3. IsFiniteSet(Tokens(rest)) /\ Total(rest) \in Nat
  BY <1>1, <1>2, TotalType
<1>4. IsFiniteSet(Own) /\ Cardinality(Own) = f[x]
  <2>1. IsFiniteSet({x}) /\ Cardinality({x}) = 1
    BY FS_Singleton
  <2>2. IsFiniteSet(1 .. f[x]) /\ Cardinality(1 .. f[x]) = f[x]
    BY FS_Interval
  <2>3. IsFiniteSet(Own) /\ Cardinality(Own) = Cardinality({x}) * Cardinality(1 .. f[x])
    BY <2>1, <2>2, FS_Product
  <2> QED BY <2>1, <2>2, <2>3
<1>5. Tokens(f) = Tokens(rest) \cup Own
  <2>1. \A t : t \in Tokens(f) <=> \E y \in S : \E n \in 1 .. f[y] : t = <<y, n>>
    BY TokenOf
  <2>2. \A t : t \in Tokens(rest) <=>
                 \E y \in S \ {x} : \E n \in 1 .. f[y] : t = <<y, n>>
    BY <1>1, TokenOf
  <2>3. \A t : t \in Own <=> \E n \in 1 .. f[x] : t = <<x, n>>
    OBVIOUS
  <2> QED BY <2>1, <2>2, <2>3
<1>6. Tokens(rest) \cap Own = {}
  <2>1. \A t : t \in Tokens(rest) => t[1] # x
    BY <1>1, TokenOf
  <2> QED BY <2>1
<1>7. Cardinality(Tokens(rest) \cap Own) = 0
  BY <1>6, FS_EmptySet
<1> HIDE DEF rest, Own
<1>8. Cardinality(Tokens(f)) = Cardinality(Tokens(rest)) + Cardinality(Own)
  <2>1. Cardinality(Tokens(rest) \cup Own)
          = Cardinality(Tokens(rest)) + Cardinality(Own)
              - Cardinality(Tokens(rest) \cap Own)
    BY <1>3, <1>4, FS_Union
  <2>2. Cardinality(Tokens(rest)) \in Nat /\ Cardinality(Own) \in Nat
    BY <1>3, <1>4, FS_CardinalityType
  <2> QED BY <1>5, <1>7, <2>1, <2>2
<1>9. Total(f) = Total(rest) + f[x]
  BY <1>4, <1>8 DEF Total
<1> QED BY <1>9 DEF rest

(* A sum whose terms differ at one place only.                             *)
LEMMA TotalChange ==
    ASSUME NEW S, IsFiniteSet(S), NEW f \in [S -> Nat], NEW g \in [S -> Nat],
           NEW x \in S, \A y \in S \ {x} : f[y] = g[y]
    PROVE  Total(f) + g[x] = Total(g) + f[x]
<1> DEFINE rest == [y \in S \ {x} |-> f[y]]
<1>1. Total(f) = Total(rest) + f[x]
  BY TotalSplit
<1>2. Total(g) = Total(rest) + g[x]
  <2>1. rest = [y \in S \ {x} |-> g[y]]
    OBVIOUS
  <2> HIDE DEF rest
  <2> QED BY <2>1, TotalSplit
<1>3. Total(rest) \in Nat
  BY FS_RemoveElement, TotalType
<1> HIDE DEF rest
<1> QED BY <1>1, <1>2, <1>3

LEMMA TotalZero ==
    ASSUME NEW S, NEW f \in [S -> Nat], \A x \in S : f[x] = 0
    PROVE  Total(f) = 0
<1>1. Tokens(f) = {}
  BY TokenOf
<1> QED BY <1>1, FS_EmptySet DEF Total

LEMMA TotalAtLeast ==
    ASSUME NEW S, IsFiniteSet(S), NEW f \in [S -> Nat], NEW x \in S
    PROVE  Total(f) >= f[x]
<1>1. Total([y \in S \ {x} |-> f[y]]) \in Nat
  BY FS_RemoveElement, TotalType
<1> QED BY <1>1, TotalSplit

(* Adding term by term: the tokens of g are counted after those of f.      *)
LEMMA TotalSum ==
    ASSUME NEW S, IsFiniteSet(S), NEW f \in [S -> Nat], NEW g \in [S -> Nat]
    PROVE  Total([x \in S |-> f[x] + g[x]]) = Total(f) + Total(g)
<1> DEFINE sum == [x \in S |-> f[x] + g[x]]
           Added == Tokens(sum) \ Tokens(f)
           shift == [t \in Tokens(g) |-> <<t[1], f[t[1]] + t[2]>>]
<1>0. sum \in [S -> Nat]
  OBVIOUS
<1>1. /\ IsFiniteSet(Tokens(f)) /\ IsFiniteSet(Tokens(g)) /\ IsFiniteSet(Tokens(sum))
      /\ Total(f) \in Nat /\ Total(g) \in Nat /\ Total(sum) \in Nat
  BY <1>0, TotalType
<1>2. \A t : t \in Tokens(g) <=> \E x \in S : \E n \in 1 .. g[x] : t = <<x, n>>
  BY TokenOf
<1>3. \A t : t \in Tokens(f) <=> \E x \in S : \E n \in 1 .. f[x] : t = <<x, n>>
  BY TokenOf
<1>4. \A t : t \in Tokens(sum) <=>
               \E x \in S : \E n \in 1 .. (f[x] + g[x]) : t = <<x, n>>
  BY <1>0, TokenOf
<1>5. Tokens(f) \subseteq Tokens(sum)
  BY <1>3, <1>4
<1>6. \A t : t \in Added <=>
               \E x \in S : \E n \in 1 .. g[x] : t = <<x, f[x] + n>>
  <2>1. ASSUME NEW x \in S, NEW n \in 1 .. g[x]
        PROVE  <<x, f[x] + n>> \in Added
    BY <1>3, <1>4
  <2>2. ASSUME NEW t \in Added
        PROVE  \E x \in S : \E n \in 1 .. g[x] : t = <<x, f[x] + n>>
    <3>1. PICK x \in S : \E m \in 1 .. (f[x] + g[x]) : t = <<x, m>>
      BY <1>4
    <3>4. PICK m \in 1 .. (f[x] + g[x]) : t = <<x, m>>
      BY <3>1
    <3>2. m \notin 1 .. f[x]
      BY <1>3, <3>4
    <3>3. m - f[x] \in 1 .. g[x] /\ t = <<x, f[x] + (m - f[x])>>
      BY <3>4, <3>2
    <3> QED BY <3>3
  <2> HIDE DEF Added
  <2> QED BY <2>1, <2>2
<1>7. shift \in Bijection(Tokens(g), Added)
  <2> HIDE DEF Added
  <2>1. \A t \in Tokens(g) : shift[t] \in Added
    BY <1>2, <1>6
  <2>2. \A s, t \in Tokens(g) : shift[s] = shift[t] => s = t
    BY <1>2
  <2>3. \A u \in Added : \E t \in Tokens(g) : shift[t] = u
    <3> TAKE u \in Added
    <3>1. PICK x \in S : \E n \in 1 .. g[x] : u = <<x, f[x] + n>>
      BY <1>6
    <3>2. PICK n \in 1 .. g[x] : u = <<x, f[x] + n>>
      BY <3>1
    <3>3. <<x, n>> \in Tokens(g)
      BY <1>2
    <3> QED BY <3>2, <3>3
  <2> QED BY <2>1, <2>2, <2>3 DEF Bijection, Injection, IsInjective, Surjection
<1>8. Cardinality(Added) = Total(g)
  <2> HIDE DEF Added, shift
  <2>1. ExistsBijection(Tokens(g), Added)
    BY <1>7 DEF ExistsBijection
  <2> QED BY <1>1, <2>1, FS_Bijection DEF Total
<1>9. Cardinality(Tokens(sum)) = Cardinality(Added) + Cardinality(Tokens(f))
  <2> HIDE DEF sum
  <2>1. Cardinality(Added)
          = Cardinality(Tokens(sum)) - Cardinality(Tokens(sum) \cap Tokens(f))
    BY <1>1, FS_Difference
  <2>2. Tokens(sum) \cap Tokens(f) = Tokens(f)
    BY <1>5
  <2>3. Cardinality(Tokens(sum)) \in Nat /\ Cardinality(Tokens(f)) \in Nat
    BY <1>1, FS_CardinalityType
  <2>4. Cardinality(Tokens(sum) \cap Tokens(f)) = Cardinality(Tokens(f))
    BY <2>2, Zenon
  <2> HIDE DEF Added
  <2> QED BY <2>1, <2>3, <2>4
<1> HIDE DEF Added, sum
<1>10. Total(sum) = Total(f) + Total(g)
  BY <1>1, <1>8, <1>9 DEF Total
<1> QED BY <1>10 DEF sum

(* Counting a finite set H by a key k of its members.                      *)
LEMMA TotalCount ==
    ASSUME NEW S, IsFiniteSet(S), NEW H, IsFiniteSet(H), NEW k \in [H -> S]
    PROVE  Total([x \in S |-> Cardinality({h \in H : k[h] = x})]) = Cardinality(H)
<1> DEFINE Fibre(x) == {h \in H : k[h] = x}
           count == [x \in S |-> Cardinality(Fibre(x))]
           nth == [x \in S |-> CHOOSE b : b \in Bijection(1 .. count[x], Fibre(x))]
           pick == [t \in Tokens(count) |-> nth[t[1]][t[2]]]
<1>1. \A x \in S : /\ IsFiniteSet(Fibre(x))
                    /\ Cardinality(Fibre(x)) \in Nat
                    /\ ExistsBijection(1 .. Cardinality(Fibre(x)), Fibre(x))
  <2> TAKE x \in S
  <2>1. IsFiniteSet(Fibre(x))
    BY FS_Subset
  <2> QED BY <2>1, FS_CardinalityType
<1>2. count \in [S -> Nat]
  BY <1>1
<1>3. \A x \in S : nth[x] \in Bijection(1 .. count[x], Fibre(x))
  <2> TAKE x \in S
  <2>1. \E b : b \in Bijection(1 .. count[x], Fibre(x))
    <3>1. ExistsBijection(1 .. count[x], Fibre(x))
      BY <1>1
    <3> HIDE DEF count, Fibre
    <3> QED BY <3>1 DEF ExistsBijection
  <2> HIDE DEF count, Fibre
  <2> QED BY <2>1 DEF nth
<1>4. \A x \in S : \A h \in Fibre(x) : h \in H /\ k[h] = x
  OBVIOUS
<1>5. \A h \in H : k[h] \in S /\ h \in Fibre(k[h])
  OBVIOUS
<1> HIDE DEF count, nth, Fibre
<1>6. ASSUME NEW x \in S
      PROVE  /\ nth[x] \in [1 .. count[x] -> Fibre(x)]
             /\ \A m, n \in 1 .. count[x] : nth[x][m] = nth[x][n] => m = n
             /\ \A h \in Fibre(x) : \E n \in 1 .. count[x] : nth[x][n] = h
  BY <1>3 DEF Bijection, Injection, IsInjective, Surjection
<1>7. \A t : t \in Tokens(count) <=> \E x \in S : \E n \in 1 .. count[x] : t = <<x, n>>
  BY <1>2, TokenOf
<1>8. pick \in Bijection(Tokens(count), H)
  <2>1. \A t \in Tokens(count) : pick[t] \in H /\ k[pick[t]] = t[1]
    <3> TAKE t \in Tokens(count)
    <3>1. PICK x \in S : \E n \in 1 .. count[x] : t = <<x, n>>
      BY <1>7
    <3>2. PICK n \in 1 .. count[x] : t = <<x, n>>
      BY <3>1
    <3>3. pick[t] = nth[x][n] /\ t[1] = x
      BY <3>2
    <3>4. nth[x][n] \in Fibre(x)
      BY <1>6
    <3> HIDE DEF pick
    <3> QED BY <1>4, <3>3, <3>4
  <2>2. \A s, t \in Tokens(count) : pick[s] = pick[t] => s = t
    <3> SUFFICES ASSUME NEW s \in Tokens(count), NEW t \in Tokens(count),
                        pick[s] = pick[t]
                 PROVE  s = t
      OBVIOUS
    <3>1. PICK x \in S : \E n \in 1 .. count[x] : s = <<x, n>>
      BY <1>7
    <3>2. PICK m \in 1 .. count[x] : s = <<x, m>>
      BY <3>1
    <3>3. t[1] = x
      BY <2>1, <3>2
    <3>4. PICK n \in 1 .. count[x] : t = <<x, n>>
      BY <1>7, <3>3
    <3>5. nth[x][m] = nth[x][n]
      BY <3>2, <3>4
    <3> QED BY <1>6, <3>2, <3>4, <3>5
  <2>3. \A h \in H : \E t \in Tokens(count) : pick[t] = h
    <3> TAKE h \in H
    <3>1. PICK x \in S : h \in Fibre(x)
      BY <1>5
    <3>2. PICK n \in 1 .. count[x] : nth[x][n] = h
      BY <1>6, <3>1
    <3>3. <<x, n>> \in Tokens(count)
      BY <1>7
    <3> QED BY <3>2, <3>3
  <2>4. pick \in [Tokens(count) -> H]
    BY <2>1
  <2> HIDE DEF pick
  <2> QED BY <2>2, <2>3, <2>4 DEF Bijection, Injection, IsInjective, Surjection
<1>9. Cardinality(Tokens(count)) = Cardinality(H)
  <2> HIDE DEF pick
  <2>1. ExistsBijection(Tokens(count), H)
    BY <1>8 DEF ExistsBijection
  <2>2. IsFiniteSet(Tokens(count))
    BY <1>2, TotalType
  <2> QED BY <2>1, <2>2, FS_Bijection
<1>10. Total(count) = Cardinality(H)
  BY <1>9 DEF Total
<1> QED BY <1>10 DEF count, Fibre

(* A finite set that gains or loses one element.                           *)
LEMMA SetChange ==
    ASSUME NEW S, IsFiniteSet(S), NEW T, IsFiniteSet(T), NEW x,
           S \ {x} = T \ {x}
    PROVE  Cardinality(S) + (IF x \in T THEN 1 ELSE 0)
             = Cardinality(T) + (IF x \in S THEN 1 ELSE 0)
<1>1. /\ Cardinality(S) \in Nat
      /\ Cardinality(T) \in Nat
      /\ Cardinality(S \ {x}) = IF x \in S THEN Cardinality(S) - 1 ELSE Cardinality(S)
      /\ Cardinality(T \ {x}) = IF x \in T THEN Cardinality(T) - 1 ELSE Cardinality(T)
  BY FS_CardinalityType, FS_RemoveElement
<1>2. Cardinality(S \ {x}) = Cardinality(T \ {x})
  BY Zenon
<1> QED BY <1>1, <1>2

-----------------------------------------------------------------------------
(* What there is to count.                                                 *)

LEMMA EventsFinite ==
    /\ IsFiniteSet(Event)
    /\ \A r \in Requests : IsFiniteSet(EventsOf(r)) /\ EventsOf(r) \subseteq Event
<1> DEFINE Retries == 0 .. MaxAttempts - 1
           event == [p \in Requests \X Retries |-> [req |-> p[1], retries |-> p[2]]]
<1>1. IsFiniteSet(Retries)
  BY AttemptsAssumption, FS_Interval
<1>2. IsFiniteSet(Requests \X Retries)
  BY <1>1, CallsAssumption, FS_Product
<1>3. event \in Surjection(Requests \X Retries, Event)
  <2>1. event \in [Requests \X Retries -> Event]
    BY DEF Event
  <2>2. ASSUME NEW e \in Event
        PROVE  \E p \in Requests \X Retries : event[p] = e
    <3>1. <<e.req, e.retries>> \in Requests \X Retries
      BY DEF Event
    <3>2. event[<<e.req, e.retries>>] = e
      BY <3>1 DEF Event
    <3> QED BY <3>1, <3>2
  <2> HIDE DEF event
  <2> QED BY <2>1, <2>2 DEF Surjection
<1>4. IsFiniteSet(Event)
  <2> HIDE DEF event
  <2> QED BY <1>2, <1>3, FS_Surjection
<1> QED BY <1>4, FS_Subset DEF EventsOf

(* The handlers of a request are among the handlers there are.             *)
LEMMA CarriersFinite ==
    ASSUME NEW r
    PROVE  /\ IsFiniteSet(Carriers(r)) /\ Cardinality(Carriers(r)) \in Nat
           /\ IsFiniteSet(Doubled(r)) /\ Cardinality(Doubled(r)) \in Nat
           /\ IsFiniteSet(Carriers(r)') /\ Cardinality(Carriers(r))' \in Nat
           /\ IsFiniteSet(Doubled(r)') /\ Cardinality(Doubled(r))' \in Nat
           /\ Cardinality(Doubled(r)) <= Cardinality(Carriers(r))
<1>1. /\ Carriers(r) \subseteq Handlers /\ Carriers(r)' \subseteq Handlers
      /\ Doubled(r) \subseteq Handlers /\ Doubled(r)' \subseteq Handlers
      /\ Doubled(r) \subseteq Carriers(r)
  BY DEF Carriers, Doubled, Busy
<1>2. /\ IsFiniteSet(Carriers(r)) /\ IsFiniteSet(Doubled(r))
      /\ IsFiniteSet(Carriers(r)') /\ IsFiniteSet(Doubled(r)')
  BY <1>1, HandlersAssumption, FS_Subset
<1> QED BY <1>1, <1>2, FS_Subset, FS_CardinalityType

LEMMA StoredType ==
    ASSUME TypeOK, TypeOK', NEW r \in Requests
    PROVE  /\ [e \in EventsOf(r) |-> ready[e] + dlq[e]] \in [EventsOf(r) -> Nat]
           /\ [e \in EventsOf(r) |-> ready'[e] + dlq'[e]] \in [EventsOf(r) -> Nat]
           /\ Stored(r)' = Total([e \in EventsOf(r) |-> ready'[e] + dlq'[e]])
           /\ Stored(r) \in Nat
           /\ Stored(r)' \in Nat
<1>1. [e \in EventsOf(r) |-> ready[e] + dlq[e]] \in [EventsOf(r) -> Nat]
  BY DEF TypeOK, EventsOf
<1>2. [e \in EventsOf(r) |-> ready'[e] + dlq'[e]] \in [EventsOf(r) -> Nat]
  BY DEF TypeOK, EventsOf
<1>3. Stored(r)' = Total([e \in EventsOf(r) |-> ready'[e] + dlq'[e]])
  BY DEF Stored, EventsOf, Event, Total, Tokens
<1> QED BY <1>1, <1>2, <1>3, EventsFinite, TotalType DEF Stored

(* A step that moves the copies of one event only.                         *)
LEMMA StoredChange ==
    ASSUME TypeOK, TypeOK', NEW r \in Requests, NEW e \in Event,
           \A f \in Event \ {e} : ready'[f] + dlq'[f] = ready[f] + dlq[f]
    PROVE  Stored(r)' + (IF e.req = r THEN ready[e] + dlq[e] ELSE 0)
             = Stored(r) + (IF e.req = r THEN ready'[e] + dlq'[e] ELSE 0)
<1> DEFINE now == [f \in EventsOf(r) |-> ready[f] + dlq[f]]
           next == [f \in EventsOf(r) |-> ready'[f] + dlq'[f]]
<1>1. now \in [EventsOf(r) -> Nat] /\ next \in [EventsOf(r) -> Nat]
  BY StoredType
<1>2. Stored(r) = Total(now) /\ Stored(r)' = Total(next)
  BY StoredType DEF Stored
<1>3. CASE e.req = r
  <2>1. e \in EventsOf(r)
    BY <1>3 DEF EventsOf
  <2>2. now[e] = ready[e] + dlq[e] /\ next[e] = ready'[e] + dlq'[e]
    BY <2>1
  <2>3. \A f \in EventsOf(r) \ {e} : next[f] = now[f]
    BY DEF EventsOf
  <2> HIDE DEF now, next
  <2>4. Total(next) + now[e] = Total(now) + next[e]
    BY <1>1, <2>1, <2>3, EventsFinite, TotalChange
  <2> QED BY <1>2, <1>3, <2>2, <2>4
<1>4. CASE e.req # r
  <2>1. now = next
    BY <1>4 DEF EventsOf
  <2>2. Total(now) = Total(next)
    BY <2>1, Zenon
  <2> QED BY <1>2, <1>4, <2>2, StoredType
<1> QED BY <1>3, <1>4

-----------------------------------------------------------------------------
(* Copies and their excuses.                                               *)

(* The steps of one handler.                                               *)
LEMMA HandlerAlone ==
    ASSUME TypeOK, NEW h \in Handlers, Delivery(h) \/ HandlerStep(h) \/ DbFails(h)
    PROVE  \A g \in Handlers \ {h} : hnd'[g] = hnd[g]
BY DEF TypeOK, Delivery, HandlerStep, Deliver, Find, Skip, AckSaved, AckInTry,
       Decide, Write, Catch, Republish, AckRetried, DbFails

LEMMA HandlerCounts ==
    ASSUME NEW h \in Handlers, \A g \in Handlers \ {h} : hnd'[g] = hnd[g], NEW r
    PROVE  /\ Cardinality(Carriers(r))' + (IF h \in Carriers(r) THEN 1 ELSE 0)
                = Cardinality(Carriers(r)) + (IF h \in Carriers(r)' THEN 1 ELSE 0)
           /\ Cardinality(Doubled(r))' + (IF h \in Doubled(r) THEN 1 ELSE 0)
                = Cardinality(Doubled(r)) + (IF h \in Doubled(r)' THEN 1 ELSE 0)
<1>1. Carriers(r)' \ {h} = Carriers(r) \ {h}
  BY DEF Carriers, Busy
<1>2. Doubled(r)' \ {h} = Doubled(r) \ {h}
  BY DEF Doubled
<1> QED BY <1>1, <1>2, CarriersFinite, SetChange

(* A handler at work that neither settles its message nor publishes a copy.*)
Working(h) ==
    \/ Find(h) \/ Decide(h) \/ Write(h) \/ DbFails(h)
    \/ Catch(h) /\ ShouldRetry(hnd[h].event.retries + 1)

LEMMA WorkingKeeps ==
    ASSUME TypeOK, NEW h \in Handlers, Working(h)
    PROVE  /\ hnd[h].pc \notin {"idle", "republished"}
           /\ hnd'[h].pc \notin {"idle", "republished"}
           /\ hnd'[h].event = hnd[h].event
           /\ hnd'[h].held = hnd[h].held
           /\ UNCHANGED <<call, ready, dlq>>
<1>1. hnd \in [Handlers -> Handler] /\ hnd[h] \in Handler \ {Idle}
  <2>1. HandlerStep(h) \/ DbFails(h)
    BY DEF Working, HandlerStep
  <2> QED BY <2>1, StepIsBusy DEF TypeOK, Busy, Idle
<1>2. CASE Find(h)
  <2>1. hnd'[h] = [hnd[h] EXCEPT !.pc = "found",
                                 !.entity = row[hnd[h].event.req]]
    BY <1>1, <1>2 DEF Find
  <2> QED BY <1>1, <1>2, <2>1 DEF Find, Handler
<1>3. CASE Decide(h)
  BY <1>1, <1>3, DecideEffect, Frames
<1>4. CASE Write(h)
  BY <1>1, <1>4 DEF Write, Handler
<1>5. CASE DbFails(h)
  BY <1>1, <1>5 DEF DbFails, Handler
<1>6. CASE Catch(h) /\ ShouldRetry(hnd[h].event.retries + 1)
  BY <1>1, <1>6 DEF Catch, Handler
<1> QED BY <1>2, <1>3, <1>4, <1>5, <1>6 DEF Working

(* Losing a consumer moves its unacked events to the queue, one for one.   *)
LEMMA RequeuedStored ==
    ASSUME TypeOK, TypeOK', NEW i \in Instances, NEW r \in Requests,
           ready' = Requeued(i), dlq' = dlq
    PROVE  /\ Cardinality(Unacked(i) \cap Carriers(r)) \in Nat
           /\ Stored(r)' = Stored(r) + Cardinality(Unacked(i) \cap Carriers(r))
<1> DEFINE Lost == Unacked(i) \cap Carriers(r)
           event == [h \in Lost |-> hnd[h].event]
           now == [e \in EventsOf(r) |-> ready[e] + dlq[e]]
           back == [e \in EventsOf(r) |-> Cardinality({h \in Lost : event[h] = e})]
<1>1. IsFiniteSet(Lost) /\ Cardinality(Lost) \in Nat
  BY CarriersFinite, FS_Intersection, FS_CardinalityType
<1>2. event \in [Lost -> EventsOf(r)]
  <2>1. \A h \in Lost : hnd[h].event \in EventsOf(r)
    BY BusyHandler DEF Carriers, EventsOf
  <2> QED BY <2>1
<1>3. now \in [EventsOf(r) -> Nat] /\ Stored(r) = Total(now)
  BY StoredType DEF Stored
<1>4. back \in [EventsOf(r) -> Nat]
  <2>1. \A e \in EventsOf(r) : Cardinality({h \in Lost : event[h] = e}) \in Nat
    <3> TAKE e \in EventsOf(r)
    <3>1. {h \in Lost : event[h] = e} \subseteq Lost
      OBVIOUS
    <3> QED BY <1>1, <3>1, FS_Subset, FS_CardinalityType
  <2> QED BY <2>1
<1>5. Total(back) = Cardinality(Lost)
  <2> HIDE DEF Lost, event
  <2> QED BY <1>1, <1>2, EventsFinite, TotalCount
<1>6. [e \in EventsOf(r) |-> ready'[e] + dlq'[e]] = [e \in EventsOf(r) |-> now[e] + back[e]]
  <2>1. ASSUME NEW e \in EventsOf(r)
        PROVE  ready'[e] + dlq'[e] = now[e] + back[e]
    <3>1. e \in Event /\ e.req = r
      BY DEF EventsOf
    <3>2. {h \in Unacked(i) : hnd[h].event = e} = {h \in Lost : event[h] = e}
      BY <3>1 DEF Unacked, Carriers
    <3>3. Cardinality({h \in Unacked(i) : hnd[h].event = e}) = back[e]
      BY <3>2, Zenon
    <3>4. ready'[e] = ready[e] + Cardinality({h \in Unacked(i) : hnd[h].event = e})
      BY <3>1 DEF Requeued
    <3>5. ready[e] \in Nat /\ dlq[e] \in Nat /\ dlq'[e] = dlq[e] /\ back[e] \in Nat
      BY <1>4, <3>1 DEF TypeOK
    <3>6. now[e] = ready[e] + dlq[e]
      OBVIOUS
    <3> HIDE DEF now, back
    <3> QED BY <3>3, <3>4, <3>5, <3>6
  <2> HIDE DEF now, back
  <2> QED BY <2>1
<1>7. Total([e \in EventsOf(r) |-> now[e] + back[e]]) = Total(now) + Total(back)
  <2> HIDE DEF now, back
  <2> QED BY <1>3, <1>4, EventsFinite, TotalSum
<1>8. Stored(r)' = Total([e \in EventsOf(r) |-> now[e] + back[e]])
  <2> HIDE DEF now, back
  <2>1. Stored(r)' = Total([e \in EventsOf(r) |-> ready'[e] + dlq'[e]])
    BY StoredType
  <2> QED BY <1>6, <2>1, Zenon
<1> QED BY <1>1, <1>3, <1>5, <1>7, <1>8

(* A handler that settles its message, or publishes the next copy of it.   *)
LEMMA SettlingKeeps ==
    ASSUME TypeOK, TypeOK', BackoffAllowed, NEW h \in Handlers,
           \/ Skip(h) \/ AckSaved(h) \/ Republish(h) \/ AckRetried(h)
           \/ Catch(h) /\ ~ShouldRetry(hnd[h].event.retries + 1),
           NEW r \in Requests
    PROVE  /\ UNCHANGED <<call, faults>>
           /\ Copies(r)' + Cardinality(Doubled(r))
                <= Copies(r) + Cardinality(Doubled(r))'
<1> DEFINE own == h \in Carriers(r)
           both == h \in Doubled(r)
<1>0. UNCHANGED <<call, faults>>
  BY DEF Skip, AckSaved, AckInTry, Republish, AckRetried, Catch
<1>1. /\ hnd \in [Handlers -> Handler] /\ hnd[h] \in Handler \ {Idle} /\ Busy(h)
      /\ hnd[h].event \in Event
      /\ hnd[h].held \in BOOLEAN
  BY DEF TypeOK, Skip, AckSaved, Republish, AckRetried, Catch, Idle, Busy, Handler
<1>2. HandlerStep(h)
  BY DEF HandlerStep
<1>3. /\ Cardinality(Carriers(r))' + (IF own THEN 1 ELSE 0)
            = Cardinality(Carriers(r)) + (IF h \in Carriers(r)' THEN 1 ELSE 0)
      /\ Cardinality(Doubled(r))' + (IF both THEN 1 ELSE 0)
            = Cardinality(Doubled(r)) + (IF h \in Doubled(r)' THEN 1 ELSE 0)
  BY <1>2, HandlerAlone, HandlerCounts
<1>4. /\ own <=> hnd[h].held /\ hnd[h].event.req = r
      /\ both <=> hnd[h].pc = "republished" /\ hnd[h].held /\ hnd[h].event.req = r
  BY <1>1 DEF Carriers, Doubled
<1>5. /\ Stored(r) \in Nat /\ Stored(r)' \in Nat
      /\ Cardinality(Carriers(r)) \in Nat /\ Cardinality(Carriers(r))' \in Nat
      /\ Cardinality(Doubled(r)) \in Nat /\ Cardinality(Doubled(r))' \in Nat
  BY StoredType, CarriersFinite
<1>6. SUFFICES Stored(r)' + Cardinality(Carriers(r))' + Cardinality(Doubled(r))
                 <= Stored(r) + Cardinality(Carriers(r)) + Cardinality(Doubled(r))'
  BY <1>0, <1>5 DEF Copies
<1> HIDE DEF own, both
<1>7. ASSUME hnd'[h] = Idle
      PROVE  h \notin Carriers(r)' /\ h \notin Doubled(r)'
  BY <1>7 DEF Carriers, Doubled, Busy, Idle
<1>8. ASSUME UNCHANGED <<ready, dlq>>
      PROVE  Stored(r)' = Stored(r)
  BY <1>8, StoredType DEF Stored
<1>9. CASE Skip(h) \/ AckSaved(h)
  <2>1. UNCHANGED <<ready, dlq>> /\ hnd[h].pc # "republished"
    BY <1>9 DEF Skip, AckSaved, AckInTry
  <2>2. CASE hnd'[h] = Idle
    BY <1>3, <1>4, <1>5, <1>7, <1>8, <2>1, <2>2
  <2>3. CASE ~hnd[h].held /\ hnd' = [hnd EXCEPT ![h].pc = "caught"]
    <3>1. ~hnd'[h].held
      BY <1>1, <2>3 DEF Handler
    <3>2. h \notin Carriers(r)' /\ h \notin Doubled(r)'
      BY <3>1 DEF Carriers, Doubled
    <3> QED BY <1>3, <1>4, <1>5, <1>8, <2>1, <2>3, <3>2
  <2> QED BY <1>1, <1>9, <2>2, <2>3 DEF Skip, AckSaved, AckInTry
<1>10. CASE Catch(h) /\ ~ShouldRetry(hnd[h].event.retries + 1)
  <2>1. /\ hnd'[h] = Idle
        /\ hnd[h].pc # "republished"
        /\ ready' = ready
        /\ dlq' = IF hnd[h].held THEN Put(dlq, hnd[h].event) ELSE dlq
    BY <1>1, <1>10 DEF Catch
  <2>2. CASE hnd[h].held
    <3> DEFINE e == hnd[h].event
    <3>1. /\ dlq \in [Event -> Nat] /\ ready[e] \in Nat /\ dlq[e] \in Nat
          /\ dlq' = [dlq EXCEPT ![e] = @ + 1]
      BY <1>1, <2>1, <2>2 DEF Put, TypeOK
    <3>2. /\ \A f \in Event \ {e} : ready'[f] + dlq'[f] = ready[f] + dlq[f]
          /\ ready'[e] + dlq'[e] = ready[e] + dlq[e] + 1
      BY <1>1, <2>1, <3>1
    <3>3. Stored(r)' + (IF e.req = r THEN ready[e] + dlq[e] ELSE 0)
            = Stored(r) + (IF e.req = r THEN ready'[e] + dlq'[e] ELSE 0)
      BY <1>1, <3>2, StoredChange
    <3> QED BY <1>3, <1>4, <1>5, <1>7, <2>1, <2>2, <3>1, <3>2, <3>3
  <2>3. CASE ~hnd[h].held
    BY <1>3, <1>4, <1>5, <1>7, <1>8, <2>1, <2>3
  <2> QED BY <2>2, <2>3
<1>11. CASE Republish(h)
  <2>1. CASE hnd[h].held
    <3> DEFINE e == [hnd[h].event EXCEPT !.retries = @ + 1]
    <3>1. e \in Event /\ e.req = hnd[h].event.req
      BY <1>1, <1>11, NextEvent DEF BackoffAllowed, Republish
    <3> HIDE DEF e
    <3>2. /\ ready \in [Event -> Nat] /\ ready[e] \in Nat /\ dlq[e] \in Nat
          /\ ready' = [ready EXCEPT ![e] = @ + 1] /\ dlq' = dlq
          /\ hnd' = [hnd EXCEPT ![h].pc = "republished"]
          /\ hnd[h].pc # "republished"
      BY <1>11, <2>1, <3>1 DEF Republish, Put, TypeOK, e
    <3>3. /\ \A f \in Event \ {e} : ready'[f] + dlq'[f] = ready[f] + dlq[f]
          /\ ready'[e] + dlq'[e] = ready[e] + dlq[e] + 1
      BY <3>1, <3>2
    <3>4. Stored(r)' + (IF e.req = r THEN ready[e] + dlq[e] ELSE 0)
            = Stored(r) + (IF e.req = r THEN ready'[e] + dlq'[e] ELSE 0)
      BY <3>1, <3>3, StoredChange
    <3>5. /\ hnd'[h].pc = "republished" /\ hnd'[h].held = hnd[h].held
          /\ hnd'[h].event = hnd[h].event
      BY <1>1, <3>2 DEF Handler
    <3>6. /\ h \in Carriers(r)' <=> hnd[h].event.req = r
          /\ h \in Doubled(r)' <=> hnd[h].event.req = r
      BY <2>1, <3>5 DEF Carriers, Doubled, Busy
    <3> QED BY <1>3, <1>4, <1>5, <2>1, <3>1, <3>2, <3>3, <3>4, <3>6
  <2>2. CASE ~hnd[h].held
    <3>1. hnd'[h] = Idle /\ UNCHANGED <<ready, dlq>> /\ hnd[h].pc # "republished"
      BY <1>1, <1>11, <2>2 DEF Republish
    <3> QED BY <1>3, <1>4, <1>5, <1>7, <1>8, <2>2, <3>1
  <2> QED BY <2>1, <2>2
<1>12. CASE AckRetried(h)
  <2>1. hnd'[h] = Idle /\ UNCHANGED <<ready, dlq>> /\ hnd[h].pc = "republished"
    BY <1>1, <1>12 DEF AckRetried
  <2> QED BY <1>3, <1>4, <1>5, <1>7, <1>8, <2>1
<1> QED BY <1>9, <1>10, <1>11, <1>12

(* A step that delivers an event, or works on it, counts nothing new.      *)
LEMMA DeliveryKeeps ==
    ASSUME TypeOK, TypeOK', NEW h \in Handlers, Delivery(h), NEW r \in Requests
    PROVE  /\ UNCHANGED <<call, faults>>
           /\ Copies(r)' = Copies(r)
           /\ Cardinality(Doubled(r))' = Cardinality(Doubled(r))
<1>1. PICK e \in Event : Deliver(h, e)
  BY DEF Delivery
<1>2. /\ hnd \in [Handlers -> Handler] /\ hnd[h] = Idle
      /\ ready \in [Event -> Nat] /\ dlq \in [Event -> Nat] /\ ready[e] > 0
      /\ ready' = [ready EXCEPT ![e] = @ - 1] /\ dlq' = dlq
      /\ hnd'[h] = [pc |-> "find", event |-> e, held |-> TRUE,
                    entity |-> Absent, base |-> Absent]
  BY <1>1 DEF Deliver, Take, TypeOK
<1>3. /\ h \notin Carriers(r) /\ h \notin Doubled(r) /\ h \notin Doubled(r)'
      /\ h \in Carriers(r)' <=> e.req = r
  BY <1>2 DEF Carriers, Doubled, Busy, Idle
<1>4. /\ Cardinality(Carriers(r))' + (IF h \in Carriers(r) THEN 1 ELSE 0)
            = Cardinality(Carriers(r)) + (IF h \in Carriers(r)' THEN 1 ELSE 0)
      /\ Cardinality(Doubled(r))' + (IF h \in Doubled(r) THEN 1 ELSE 0)
            = Cardinality(Doubled(r)) + (IF h \in Doubled(r)' THEN 1 ELSE 0)
  BY HandlerAlone, HandlerCounts
<1>5. /\ Stored(r) \in Nat /\ Stored(r)' \in Nat
      /\ Cardinality(Carriers(r)) \in Nat /\ Cardinality(Carriers(r))' \in Nat
      /\ Cardinality(Doubled(r)) \in Nat /\ Cardinality(Doubled(r))' \in Nat
  BY StoredType, CarriersFinite
<1>6. /\ \A f \in Event \ {e} : ready'[f] + dlq'[f] = ready[f] + dlq[f]
      /\ ready'[e] + dlq'[e] = ready[e] + dlq[e] - 1
      /\ ready[e] \in Nat /\ dlq[e] \in Nat
  BY <1>2
<1>7. Stored(r)' + (IF e.req = r THEN ready[e] + dlq[e] ELSE 0)
        = Stored(r) + (IF e.req = r THEN ready'[e] + dlq'[e] ELSE 0)
  BY <1>6, StoredChange
<1>8. Stored(r)' + Cardinality(Carriers(r))' = Stored(r) + Cardinality(Carriers(r))
  BY <1>3, <1>4, <1>5, <1>6, <1>7
<1>9. Cardinality(Doubled(r))' = Cardinality(Doubled(r))
  BY <1>3, <1>4, <1>5
<1> QED BY <1>1, <1>8, <1>9 DEF Copies, Deliver

LEMMA WorkingCounts ==
    ASSUME TypeOK, TypeOK', NEW h \in Handlers, Working(h), NEW r \in Requests
    PROVE  /\ UNCHANGED call
           /\ Copies(r)' = Copies(r)
           /\ Cardinality(Doubled(r))' = Cardinality(Doubled(r))
<1>1. HandlerStep(h) \/ DbFails(h)
  BY DEF Working, HandlerStep
<1>2. /\ hnd[h].pc \notin {"idle", "republished"}
      /\ hnd'[h].pc \notin {"idle", "republished"}
      /\ hnd'[h].event = hnd[h].event
      /\ hnd'[h].held = hnd[h].held
      /\ UNCHANGED <<call, ready, dlq>>
  BY WorkingKeeps
<1>3. \A g \in Handlers \ {h} : hnd'[g] = hnd[g]
  BY <1>1, HandlerAlone
<1>4. Carriers(r)' = Carriers(r) /\ Doubled(r)' = Doubled(r)
  BY <1>2, <1>3 DEF Carriers, Doubled, Busy
<1>5. Stored(r)' = Stored(r)
  BY <1>2, StoredType DEF Stored
<1> QED BY <1>2, <1>4, <1>5, Zenon DEF Copies

(* An instance loses its channel: what it held goes back to the queue, and *)
(* at most one copy loses its excuse.                                      *)
LEMMA ChannelLossKeeps ==
    ASSUME TypeOK, TypeOK', OneDoubled, NEW i \in Instances, Drop(i) \/ Crash(i),
           NEW r \in Requests
    PROVE  Copies(r)' = Copies(r)
           /\ Cardinality(Doubled(r)) <= Cardinality(Doubled(r))' + 1
<1> DEFINE Lost == Unacked(i) \cap Carriers(r)
<1>0. hnd \in [Handlers -> Handler] /\ ready' = Requeued(i) /\ dlq' = dlq
  BY DEF TypeOK, Drop, Crash
<1>1. /\ \A h \in Unacked(i) : hnd'[h].pc = "idle" \/ ~hnd'[h].held
      /\ \A h \in Handlers \ Unacked(i) :
            \/ hnd'[h] = hnd[h]
            \/ hnd'[h].pc = "idle" /\ ~(Busy(h) /\ hnd[h].held)
  <2>1. ASSUME NEW h \in Unacked(i)
        PROVE  hnd'[h].pc = "idle" \/ ~hnd'[h].held
    <3>1. h \in Handlers /\ Home[h] = i /\ hnd[h] \in Handler \ {Idle}
      BY <1>0 DEF Unacked, Busy, Idle
    <3> QED BY <1>0, <3>1 DEF Drop, Crash, Handler, Idle
  <2>2. ASSUME NEW h \in Handlers \ Unacked(i)
        PROVE  \/ hnd'[h] = hnd[h]
               \/ hnd'[h].pc = "idle" /\ ~(Busy(h) /\ hnd[h].held)
    BY DEF Drop, Crash, Unacked, Idle
  <2> QED BY <2>1, <2>2
<1>2. Carriers(r)' = Carriers(r) \ Unacked(i)
  BY <1>1 DEF Carriers, Busy, Unacked
<1>3. Doubled(r)' = Doubled(r) \ Unacked(i)
  BY <1>1 DEF Doubled, Busy, Unacked
<1>4. /\ Cardinality(Carriers(r)) \in Nat /\ Cardinality(Doubled(r)) \in Nat
      /\ IsFiniteSet(Carriers(r)) /\ IsFiniteSet(Doubled(r))
      /\ Stored(r) \in Nat
  BY CarriersFinite, StoredType
<1>5. /\ Cardinality(Lost) \in Nat
      /\ Stored(r)' = Stored(r) + Cardinality(Lost)
  BY <1>0, RequeuedStored
<1>6. Cardinality(Carriers(r))' = Cardinality(Carriers(r)) - Cardinality(Lost)
  <2>1. Cardinality(Carriers(r) \ Unacked(i))
          = Cardinality(Carriers(r)) - Cardinality(Carriers(r) \cap Unacked(i))
    BY <1>4, FS_Difference
  <2>2. Carriers(r) \cap Unacked(i) = Lost
    OBVIOUS
  <2>3. Cardinality(Carriers(r) \cap Unacked(i)) = Cardinality(Lost)
    BY <2>2, Zenon
  <2>4. Cardinality(Carriers(r))' = Cardinality(Carriers(r) \ Unacked(i))
    BY <1>2, Zenon
  <2> QED BY <2>1, <2>3, <2>4
<1>7. Cardinality(Doubled(r)) <= Cardinality(Doubled(r))' + 1
  <2> DEFINE Single == Doubled(r) \cap Unacked(i)
  <2>1. Cardinality(Doubled(r) \ Unacked(i))
          = Cardinality(Doubled(r)) - Cardinality(Single)
    BY <1>4, FS_Difference
  <2>2. Cardinality(Doubled(r))' = Cardinality(Doubled(r) \ Unacked(i))
    BY <1>3, Zenon
  <2>3. \A g, h \in Single : g = h
    BY DEF OneDoubled, Doubled, Unacked
  <2>4. Cardinality(Single) \in {0, 1}
    <3>1. CASE Single = {}
      BY <3>1, FS_EmptySet
    <3>2. CASE Single # {}
      <4>1. PICK h : h \in Single
        BY <3>2
      <4>2. Single = {h}
        BY <2>3, <4>1
      <4>3. Cardinality({h}) = 1
        BY FS_Singleton
      <4>4. Cardinality(Single) = Cardinality({h})
        BY <4>2, Zenon
      <4> QED BY <4>3, <4>4
    <3> QED BY <3>1, <3>2
  <2> HIDE DEF Single
  <2> QED BY <1>4, <2>1, <2>2, <2>4
<1> HIDE DEF Lost
<1>8. Copies(r)' = Copies(r)
  BY <1>4, <1>5, <1>6 DEF Copies
<1> QED BY <1>7, <1>8

(* The connections to the broker: what nobody has acked is gone with it,   *)
(* and an event that nobody has confirmed is about to be emitted again.    *)
LEMMA BrokerRestartKeeps ==
    ASSUME TypeOK, TypeOK', BrokerRestart, NEW r \in Requests
    PROVE  Load(r)' + Excuse(r) <= Load(r) + Excuse(r)'
<1>0. hnd \in [Handlers -> Handler] /\ call \in [Requests -> Call]
  BY DEF TypeOK
<1>1. \A h \in Handlers : hnd'[h].pc # "idle" => ~hnd'[h].held
  BY <1>0 DEF BrokerRestart, Busy, Handler, Idle
<1>2. Carriers(r)' = {} /\ Doubled(r)' = {}
  BY <1>1 DEF Carriers, Doubled, Busy
<1>3. Cardinality(Carriers(r))' = 0 /\ Cardinality(Doubled(r))' = 0
  BY <1>2, FS_EmptySet
<1>4. Stored(r)' = 0
  <2> DEFINE next == [e \in EventsOf(r) |-> ready'[e] + dlq'[e]]
  <2>1. next \in [EventsOf(r) -> Nat] /\ Stored(r)' = Total(next)
    BY StoredType
  <2>2. \A e \in EventsOf(r) : next[e] = 0
    BY DEF BrokerRestart, EventsOf
  <2> HIDE DEF next
  <2> QED BY <2>1, <2>2, TotalZero
<1>5. AboutToEmit(r) \in {0, 1} /\ AboutToEmit(r)' \in {0, 1}
  BY DEF AboutToEmit
<1>6. /\ Stored(r) \in Nat /\ Cardinality(Carriers(r)) \in Nat
      /\ Cardinality(Doubled(r)) \in Nat
      /\ Cardinality(Doubled(r)) <= Cardinality(Carriers(r))
  BY StoredType, CarriersFinite
<1>7. faults \in Nat /\ faults' = faults + 1
  BY DEF TypeOK, BrokerRestart, Fault
<1>8. call[r].pc = "emit" => call'[r].pc = "emit"
  BY <1>0 DEF BrokerRestart
<1>9. AboutToEmit(r)' <= AboutToEmit(r) + 1
  BY <1>5
<1>10. /\ Load(r) = Stored(r) + Cardinality(Carriers(r)) + AboutToEmit(r)
       /\ Load(r)' = AboutToEmit(r)'
       /\ Excuse(r) = faults + Cardinality(Doubled(r))
       /\ Excuse(r)' = faults + 1
  BY <1>3, <1>4, <1>5, <1>7 DEF Load, Excuse, Copies
<1> QED BY <1>5, <1>6, <1>7, <1>9, <1>10

LEMMA LoadType ==
    ASSUME TypeOK, TypeOK', NEW r \in Requests
    PROVE  /\ Copies(r) \in Nat /\ Copies(r)' \in Nat
           /\ Cardinality(Doubled(r)) \in Nat /\ Cardinality(Doubled(r))' \in Nat
           /\ AboutToEmit(r) \in {0, 1} /\ AboutToEmit(r)' \in {0, 1}
           /\ faults \in Nat /\ faults' \in Nat
           /\ Load(r) \in Nat /\ Load(r)' \in Nat
           /\ Excuse(r) \in Nat /\ Excuse(r)' \in Nat
<1>1. Copies(r) \in Nat /\ Copies(r)' \in Nat
  <2>1. /\ Stored(r) \in Nat /\ Stored(r)' \in Nat
        /\ Cardinality(Carriers(r)) \in Nat /\ Cardinality(Carriers(r))' \in Nat
    BY StoredType, CarriersFinite
  <2> QED BY <2>1 DEF Copies
<1>2. Cardinality(Doubled(r)) \in Nat /\ Cardinality(Doubled(r))' \in Nat
  BY CarriersFinite
<1>3. AboutToEmit(r) \in {0, 1} /\ AboutToEmit(r)' \in {0, 1}
  BY DEF AboutToEmit
<1>4. faults \in Nat /\ faults' \in Nat
  BY DEF TypeOK
<1>5. Load(r) \in Nat /\ Load(r)' \in Nat
  BY <1>1, <1>3 DEF Load
<1>6. Excuse(r) \in Nat /\ Excuse(r)' \in Nat
  BY <1>2, <1>4 DEF Excuse
<1> QED BY <1>1, <1>2, <1>3, <1>4, <1>5, <1>6

LEMMA LoadNow ==
    ASSUME TypeOK, NEW r \in Requests
    PROVE  /\ Stored(r) \in Nat
           /\ Cardinality(Carriers(r)) \in Nat /\ Cardinality(Doubled(r)) \in Nat
           /\ AboutToEmit(r) \in {0, 1}
           /\ Load(r) \in Nat
<1>1. Stored(r) \in Nat
  <2> DEFINE now == [e \in EventsOf(r) |-> ready[e] + dlq[e]]
  <2>1. now \in [EventsOf(r) -> Nat]
    BY DEF TypeOK, EventsOf
  <2>2. Stored(r) = Total(now)
    BY DEF Stored
  <2> HIDE DEF now
  <2> QED BY <2>1, <2>2, EventsFinite, TotalType
<1>2. Cardinality(Carriers(r)) \in Nat /\ Cardinality(Doubled(r)) \in Nat
  BY CarriersFinite
<1>3. AboutToEmit(r) \in {0, 1}
  BY DEF AboutToEmit
<1> QED BY <1>1, <1>2, <1>3 DEF Load, Copies

(* The calls: one event is emitted for each booking, and once more for each*)
(* time it had to be published again.                                      *)
LEMMA CallKeeps ==
    ASSUME TypeOK, TypeOK', NEW q \in Requests,
           Emit(q) \/ Confirm(q) \/ ProducerDrop(q) \/ CallFails(q) \/ EmitLost(q),
           NEW r \in Requests
    PROVE  Load(r)' + Excuse(r) <= Load(r) + Excuse(r)'
<1>0. /\ call \in [Requests -> Call] /\ call[q] \in Call \ {NoCall, CallEnded}
      /\ hnd' = hnd /\ dlq' = dlq
  BY DEF TypeOK, Emit, Confirm, ProducerDrop, CallFails, EmitLost, NoCall, CallEnded
<1>1. Carriers(r)' = Carriers(r) /\ Doubled(r)' = Doubled(r)
  BY <1>0 DEF Carriers, Doubled, Busy
<1>2. /\ Cardinality(Carriers(r))' = Cardinality(Carriers(r))
      /\ Cardinality(Doubled(r))' = Cardinality(Doubled(r))
  BY <1>1, Zenon
<1>3. /\ Stored(r) \in Nat /\ Stored(r)' \in Nat
      /\ Cardinality(Carriers(r)) \in Nat /\ Cardinality(Doubled(r)) \in Nat
      /\ AboutToEmit(r) \in {0, 1} /\ AboutToEmit(r)' \in {0, 1}
      /\ faults \in Nat
  BY StoredType, CarriersFinite, LoadType
<1>4. SUFFICES Stored(r)' + AboutToEmit(r)' + faults
                 <= Stored(r) + AboutToEmit(r) + faults'
  BY <1>2, <1>3, LoadType DEF Load, Excuse, Copies
<1>5. q # r => AboutToEmit(r)' = AboutToEmit(r)
  BY <1>0 DEF AboutToEmit, Emit, Confirm, ProducerDrop, CallFails, EmitLost
<1>6. UNCHANGED ready => Stored(r)' = Stored(r)
  BY <1>0, StoredType DEF Stored
<1>7. CASE Emit(q)
  <2> DEFINE e == [req |-> q, retries |-> 0]
  <2>1. e \in Event /\ e.req = q
    BY FirstEvent
  <2> HIDE DEF e
  <2>2. /\ ready \in [Event -> Nat] /\ ready[e] \in Nat /\ dlq[e] \in Nat
        /\ ready' = [ready EXCEPT ![e] = @ + 1] /\ faults' = faults
    BY <1>7, <2>1 DEF Emit, Put, TypeOK, e
  <2>3. /\ \A f \in Event \ {e} : ready'[f] + dlq'[f] = ready[f] + dlq[f]
        /\ ready'[e] + dlq'[e] = ready[e] + dlq[e] + 1
    BY <1>0, <2>1, <2>2
  <2>4. Stored(r)' + (IF e.req = r THEN ready[e] + dlq[e] ELSE 0)
          = Stored(r) + (IF e.req = r THEN ready'[e] + dlq'[e] ELSE 0)
    BY <2>1, <2>3, StoredChange
  <2>5. q = r => AboutToEmit(r) = 1 /\ AboutToEmit(r)' = 0
    BY <1>0, <1>7 DEF Emit, AboutToEmit, Call
  <2> QED BY <1>3, <1>5, <2>1, <2>2, <2>3, <2>4, <2>5
<1>8. CASE Confirm(q) \/ CallFails(q) \/ EmitLost(q)
  <2>1. AboutToEmit(r)' <= AboutToEmit(r)
    <3>1. q = r => AboutToEmit(r)' = 0
      BY <1>0, <1>8 DEF Confirm, CallFails, EmitLost, AboutToEmit, CallEnded
    <3> QED BY <1>3, <1>5, <3>1
  <2>2. UNCHANGED ready /\ faults' \in Nat /\ faults' >= faults
    BY <1>3, <1>8 DEF Confirm, CallFails, EmitLost, Fault
  <2> QED BY <1>3, <1>6, <2>1, <2>2
<1>9. CASE ProducerDrop(q)
  <2>1. UNCHANGED ready /\ faults' = faults + 1
    BY <1>9 DEF ProducerDrop, Fault
  <2> QED BY <1>3, <1>6, <2>1
<1> QED BY <1>7, <1>8, <1>9

(* No step adds to the copies, or takes an excuse away, without a fault of *)
(* its own; the failure of an attempt is a fault that adds no copy.        *)
LEMMA LoadKept ==
    ASSUME TypeOK, BackoffAllowed, OneDoubled, [Next]_vars,
           NEW r \in Requests, ~Insert(r)
    PROVE  /\ Load(r)' + Excuse(r) <= Load(r) + Excuse(r)'
           /\ (\E h \in Handlers : DbFails(h))
                => Load(r)' + Excuse(r) + 1 <= Load(r) + Excuse(r)'
<1> DEFINE P == Load(r)' + Excuse(r) <= Load(r) + Excuse(r)'
<1>0. TypeOK /\ TypeOK' /\ call \in [Requests -> Call]
  BY TypeStep DEF TypeOK
<1>T. /\ Copies(r) \in Nat /\ Copies(r)' \in Nat
      /\ Cardinality(Doubled(r)) \in Nat /\ Cardinality(Doubled(r))' \in Nat
      /\ AboutToEmit(r) \in {0, 1} /\ AboutToEmit(r)' \in {0, 1}
      /\ faults \in Nat
  BY <1>0, LoadType
<1>1. ASSUME UNCHANGED <<ready, dlq, hnd, faults>>, AboutToEmit(r)' = AboutToEmit(r)
      PROVE  P
  <2>1. Carriers(r)' = Carriers(r) /\ Doubled(r)' = Doubled(r)
    BY <1>1 DEF Carriers, Doubled, Busy
  <2>2. Stored(r)' = Stored(r)
    BY <1>0, <1>1, StoredType DEF Stored
  <2>3. Copies(r)' = Copies(r) /\ Cardinality(Doubled(r))' = Cardinality(Doubled(r))
    BY <2>1, <2>2, Zenon DEF Copies
  <2> QED BY <1>1, <1>T, <2>3 DEF Load, Excuse
<1>2. ASSUME NEW q \in Requests, NEW i \in Instances, NEW from \in Dates,
             NEW to \in Dates, Submit(q, i, from, to)
      PROVE  P
  <2>1. AboutToEmit(r)' = AboutToEmit(r)
    BY <1>0, <1>2 DEF Submit, AboutToEmit, NoCall, CallEnded
  <2> QED BY <1>1, <1>2, <2>1 DEF Submit
<1>3. ASSUME NEW q \in Requests, CheckOverlap(q) \/ Insert(q)
      PROVE  P
  <2>1. AboutToEmit(r)' = AboutToEmit(r)
    BY <1>0, <1>3 DEF CheckOverlap, Insert, AboutToEmit, Call, NoCall, CallEnded
  <2> QED BY <1>1, <1>3, <2>1 DEF CheckOverlap, Insert
<1>4. ASSUME NEW q \in Requests,
             Emit(q) \/ Confirm(q) \/ ProducerDrop(q) \/ CallFails(q) \/ EmitLost(q)
      PROVE  P
  BY <1>0, <1>4, CallKeeps
<1>5. ASSUME NEW h \in Handlers, Delivery(h)
      PROVE  P
  <2>1. /\ UNCHANGED <<call, faults>> /\ Copies(r)' = Copies(r)
        /\ Cardinality(Doubled(r))' = Cardinality(Doubled(r))
    BY <1>0, <1>5, DeliveryKeeps
  <2> QED BY <1>T, <2>1 DEF Load, Excuse, AboutToEmit
<1>6. ASSUME NEW h \in Handlers, Working(h)
      PROVE  /\ P
             /\ DbFails(h) => Load(r)' + Excuse(r) + 1 <= Load(r) + Excuse(r)'
  <2>1. /\ UNCHANGED call /\ Copies(r)' = Copies(r)
        /\ Cardinality(Doubled(r))' = Cardinality(Doubled(r))
    BY <1>0, <1>6, WorkingCounts
  <2>2. /\ faults' = faults \/ faults' = faults + 1
        /\ DbFails(h) => faults' = faults + 1
    BY <1>6, Frames DEF Working, Find, Write, Catch, DbFails, Fault
  <2>3. AboutToEmit(r)' = AboutToEmit(r)
    BY <2>1 DEF AboutToEmit
  <2> QED BY <1>T, <2>1, <2>2, <2>3 DEF Load, Excuse
<1>7. ASSUME NEW h \in Handlers,
             \/ Skip(h) \/ AckSaved(h) \/ Republish(h) \/ AckRetried(h)
             \/ Catch(h) /\ ~ShouldRetry(hnd[h].event.retries + 1)
      PROVE  P
  <2>1. /\ UNCHANGED <<call, faults>>
        /\ Copies(r)' + Cardinality(Doubled(r))
             <= Copies(r) + Cardinality(Doubled(r))'
    BY <1>0, <1>7, SettlingKeeps
  <2>2. AboutToEmit(r)' = AboutToEmit(r)
    BY <2>1 DEF AboutToEmit
  <2> QED BY <1>T, <2>1, <2>2 DEF Load, Excuse
<1>8. ASSUME NEW i \in Instances, Drop(i) \/ Crash(i)
      PROVE  P
  <2>1. /\ Copies(r)' = Copies(r)
        /\ Cardinality(Doubled(r)) <= Cardinality(Doubled(r))' + 1
    BY <1>0, <1>8, ChannelLossKeeps
  <2>2. faults' = faults + 1
    BY <1>8 DEF Drop, Crash, Fault
  <2>3. call'[r] = call[r] \/ call'[r] = CallEnded
    BY <1>0, <1>8 DEF Drop, Crash
  <2>4. AboutToEmit(r)' <= AboutToEmit(r)
    BY <1>T, <2>3 DEF AboutToEmit, CallEnded
  <2> QED BY <1>T, <2>1, <2>2, <2>4 DEF Load, Excuse
<1>9. ASSUME BrokerRestart
      PROVE  P
  BY <1>0, <1>9, BrokerRestartKeeps
<1>10. ASSUME UNCHANGED <<ready, dlq, hnd, call>>, faults' = faults \/ faults' = faults + 1
       PROVE  P
  <2>1. Carriers(r)' = Carriers(r) /\ Doubled(r)' = Doubled(r)
    BY <1>10 DEF Carriers, Doubled, Busy
  <2>2. Stored(r)' = Stored(r)
    BY <1>0, <1>10, StoredType DEF Stored
  <2>3. Copies(r)' = Copies(r) /\ Cardinality(Doubled(r))' = Cardinality(Doubled(r))
    BY <2>1, <2>2, Zenon DEF Copies
  <2>4. AboutToEmit(r)' = AboutToEmit(r)
    BY <1>10 DEF AboutToEmit
  <2> QED BY <1>10, <1>T, <2>3, <2>4 DEF Load, Excuse
<1>11. \/ UNCHANGED <<ready, dlq, hnd, call>> /\ (faults' = faults \/ faults' = faults + 1)
       \/ \E q \in Requests, i \in Instances, from \in Dates, to \in Dates :
              Submit(q, i, from, to)
       \/ \E q \in Requests : CallStep(q) \/ ProducerDrop(q) \/ CallFails(q) \/ EmitLost(q)
       \/ \E h \in Handlers : Delivery(h) \/ HandlerStep(h) \/ DbFails(h)
       \/ \E i \in Instances : Drop(i) \/ Crash(i)
       \/ BrokerRestart
  BY Frames DEF Next, vars, AdmStep, Environment, Fault, UpdateReload,
                UpdateWrite, RemoveFind, RemoveDelete, AdmFails
<1>12. \A h \in Handlers : HandlerStep(h) \/ DbFails(h) =>
          \/ Working(h)
          \/ Skip(h) \/ AckSaved(h) \/ Republish(h) \/ AckRetried(h)
          \/ Catch(h) /\ ~ShouldRetry(hnd[h].event.retries + 1)
  BY DEF HandlerStep, Working
<1>13. P
  <2> HIDE DEF P
  <2> QED BY <1>2, <1>3, <1>4, <1>5, <1>6, <1>7, <1>8, <1>9, <1>10, <1>11, <1>12
          DEF CallStep
<1>14. (\E h \in Handlers : DbFails(h))
          => Load(r)' + Excuse(r) + 1 <= Load(r) + Excuse(r)'
  BY <1>6 DEF Working
<1> QED BY <1>13, <1>14

(* On one channel, the next copy is published after the ack of the last.   *)
LEMMA OneDoubledStep ==
    ASSUME TypeOK, OneDoubled, [Next]_vars
    PROVE  OneDoubled'
<1> DEFINE Double(h) == hnd[h].pc = "republished" /\ hnd[h].held
<1>0. hnd \in [Handlers -> Handler]
  BY DEF TypeOK
<1>1. ASSUME NEW h \in Handlers, Double(h)'
      PROVE  Double(h) \/ (Republish(h) /\ hnd[h].held)
  <2>1. CASE hnd'[h] = hnd[h] \/ hnd'[h] = Idle
    BY <1>1, <2>1 DEF Idle
  <2>2. CASE Busy(h) /\ hnd'[h] = [hnd[h] EXCEPT !.held = FALSE]
    <3>1. hnd[h] \in Handler \ {Idle}
      BY <2>2, BusyHandler
    <3> QED BY <1>1, <2>2, <3>1 DEF Handler
  <2>3. CASE Delivery(h)
    BY <1>0, <1>1, <2>3 DEF Delivery, Deliver
  <2>4. CASE Working(h)
    BY <1>1, <2>4, WorkingKeeps
  <2>5. CASE Skip(h) \/ AckSaved(h) \/ AckRetried(h) \/ (Catch(h) /\ ~Working(h))
    BY <1>0, <1>1, <2>5 DEF Skip, AckSaved, AckInTry, AckRetried, Catch, Working,
                            Handler, Idle
  <2>6. CASE Republish(h)
    BY <1>0, <1>1, <2>6 DEF Republish, Idle
  <2> QED BY <2>1, <2>2, <2>3, <2>4, <2>5, <2>6, HandlerMoves DEF HandlerStep, Working
<1>2. ASSUME NEW g \in Handlers, NEW h \in Handlers, g # h, Home[g] = Home[h],
             Double(g)', Republish(h), hnd[h].held
      PROVE  FALSE
  <2>1. hnd'[g] = hnd[g]
    BY <1>0, <1>2, HandlerAlone DEF HandlerStep
  <2>2. g \in Unacked(Home[h]) /\ hnd[g].pc = "republished"
    BY <1>2, <2>1 DEF Unacked, Busy
  <2> QED BY <1>2, <2>2 DEF Republish, InOrder
<1>3. SUFFICES ASSUME NEW g \in Handlers, NEW h \in Handlers, Home[g] = Home[h],
                      Double(g)', Double(h)'
               PROVE  g = h
  BY DEF OneDoubled, Unacked
<1>4. CASE Double(g) /\ Double(h)
  BY <1>3, <1>4 DEF OneDoubled, Unacked, Busy
<1> HIDE DEF Double
<1> QED BY <1>1, <1>2, <1>3, <1>4

(* A handler holds what it held, or has just been handed it.               *)
LEMMA HoldsSource ==
    ASSUME TypeOK, [Next]_vars, NEW h \in Handlers, NEW e \in Event, Holds(h, e)'
    PROVE  \/ ready[e] > 0 /\ hnd'[h].pc = "find"
           \/ /\ Holds(h, e)
              /\ hnd'[h].pc \in {"caught", "backoff"}
                   => hnd[h].pc \in {"caught", "backoff"} \/ Write(h) \/ DbFails(h)
<1>0. hnd \in [Handlers -> Handler] /\ hnd'[h].pc # "idle"
  BY DEF TypeOK, Holds, Busy
<1>1. CASE hnd'[h] = hnd[h]
  BY <1>1 DEF Holds, Busy
<1>2. CASE Busy(h) /\ hnd'[h] = [hnd[h] EXCEPT !.held = FALSE]
  <2>1. hnd[h] \in Handler \ {Idle}
    BY <1>2, BusyHandler
  <2> QED BY <1>2, <2>1 DEF Handler, Holds
<1>3. CASE Delivery(h)
  BY <1>0, <1>3 DEF Delivery, Deliver, Holds
<1>4. CASE Working(h)
  <2>1. Holds(h, e)
    BY <1>4, WorkingKeeps DEF Holds, Busy
  <2>2. hnd[h] \in Handler \ {Idle}
    BY <1>0, <2>1, BusyHandler DEF Holds
  <2>3. ~Find(h) \/ hnd'[h].pc = "found"
    <3> SUFFICES ASSUME Find(h) PROVE hnd'[h].pc = "found"
      OBVIOUS
    <3>1. hnd'[h] = [hnd[h] EXCEPT !.pc = "found",
                                   !.entity = row[hnd[h].event.req]]
      BY <1>0 DEF Find
    <3> QED BY <2>2, <3>1 DEF Handler
  <2>4. ~Decide(h) \/ hnd'[h].pc = "write"
    BY <1>0, DecideEffect
  <2> QED BY <1>4, <2>1, <2>3, <2>4 DEF Working, Catch
<1>5. CASE Skip(h) \/ AckSaved(h) \/ AckRetried(h) \/ (Catch(h) /\ ~Working(h))
  BY <1>0, <1>5 DEF Skip, AckSaved, AckInTry, AckRetried, Catch, Working,
                    Handler, Idle, Holds
<1>6. CASE Republish(h)
  <2>1. hnd[h] \in Handler \ {Idle}
    BY <1>0, <1>6 DEF Republish, Idle
  <2> QED BY <1>0, <1>6, <2>1 DEF Republish, Idle, Handler, Holds, Busy
<1>7. CASE hnd'[h] = Idle
  BY <1>0, <1>7 DEF Idle
<1> QED BY <1>1, <1>2, <1>3, <1>4, <1>5, <1>6, <1>7, HandlerMoves
        DEF HandlerStep, Working

(* Where there is no copy of a request, there is at most the one that its  *)
(* call is about to emit.                                                  *)
LEMMA NoCopies ==
    ASSUME TypeOK, NEW r \in Requests,
           \A e \in Event : e.req = r =>
               ready[e] + dlq[e] = 0 /\ \A h \in Handlers : ~Holds(h, e)
    PROVE  Load(r) <= 1
<1>1. Stored(r) = 0
  <2> DEFINE now == [e \in EventsOf(r) |-> ready[e] + dlq[e]]
  <2>1. now \in [EventsOf(r) -> Nat]
    BY DEF TypeOK, EventsOf
  <2>2. \A e \in EventsOf(r) : now[e] = 0
    BY DEF EventsOf
  <2>3. Stored(r) = Total(now)
    BY DEF Stored
  <2> HIDE DEF now
  <2> QED BY <2>1, <2>2, <2>3, TotalZero
<1>2. Carriers(r) = {}
  <2> SUFFICES ASSUME NEW h \in Carriers(r) PROVE FALSE
    OBVIOUS
  <2>1. h \in Handlers /\ Busy(h) /\ hnd[h].held /\ hnd[h].event.req = r
    BY DEF Carriers
  <2>2. hnd[h].event \in Event /\ Holds(h, hnd[h].event)
    BY <2>1, BusyHandler DEF Holds
  <2> QED BY <2>1, <2>2
<1>3. Cardinality(Carriers(r)) = 0
  BY <1>2, FS_EmptySet
<1> QED BY <1>1, <1>3 DEF Load, Copies, AboutToEmit

LEMMA CopiesOwedStep ==
    ASSUME CopiesInv, [Next]_vars
    PROVE  CopiesOwed'
<1> SUFFICES ASSUME NEW e \in Event, e.req \notin edited'
             PROVE  /\ (ready[e] + dlq[e] > 0 => Owed(e, e.retries))'
                    /\ \A h \in Handlers : Holds(h, e)' =>
                          /\ Owed(e, e.retries)'
                          /\ hnd'[h].pc \in {"caught", "backoff"}
                                => Owed(e, e.retries + 1)'
  BY DEF CopiesOwed
<1> DEFINE r == e.req
<1>0. /\ RowInv /\ TypeOK /\ TypeOK' /\ BackoffAllowed /\ OneDoubled
      /\ r \in Requests /\ e.retries \in Nat
      /\ hnd \in [Handlers -> Handler]
  BY TypeStep DEF CopiesInv, RowInv, TypeOK, Event
<1>1. r \notin edited
  BY <1>0, UneditedRow
<1>2. ASSUME Known(r)'
      PROVE  ~Insert(r)
  <2>1. Known(r) \/ call[r].pc = "emit"
    BY <1>0, <1>2, KnownMoves
  <2>2. call[r].pc # "insert"
    BY <1>0, <2>1 DEF RowInv, QuietBeforeInsert
  <2> QED BY <2>2 DEF Insert
<1>3. ASSUME Known(r)'
      PROVE  /\ Load(r)' + Excuse(r) <= Load(r) + Excuse(r)'
             /\ (\E h \in Handlers : DbFails(h))
                  => Load(r)' + Excuse(r) + 1 <= Load(r) + Excuse(r)'
  BY <1>0, <1>2, <1>3, LoadKept
<1>T. /\ Load(r) \in Nat /\ Load(r)' \in Nat
      /\ Excuse(r) \in Nat /\ Excuse(r)' \in Nat
  BY <1>0, LoadType
<1>4. /\ \A k \in Nat : Owed(e, k) <=> Load(r) + k <= 1 + Excuse(r)
      /\ \A k \in Nat : Owed(e, k)' <=> Load(r)' + k <= 1 + Excuse(r)'
  BY DEF Owed
<1>5. ASSUME Known(r)', NEW k \in Nat, Owed(e, k)
      PROVE  /\ Owed(e, k)'
             /\ (\E h \in Handlers : DbFails(h)) => Owed(e, k + 1)'
  <2> HIDE DEF r
  <2> QED BY <1>3, <1>4, <1>5, <1>T
<1>6. ASSUME NEW f \in Event, f.req = r
      PROVE  /\ ready[f] + dlq[f] > 0 => Owed(f, f.retries)
             /\ \A h \in Handlers : Holds(h, f) =>
                   /\ Owed(f, f.retries)
                   /\ hnd[h].pc \in {"caught", "backoff"} => Owed(f, f.retries + 1)
  BY <1>1, <1>6 DEF CopiesInv, CopiesOwed
<1>7. Owed(e, 0)
  <2>1. CASE \A f \in Event : f.req = r =>
                ready[f] + dlq[f] = 0 /\ \A h \in Handlers : ~Holds(h, f)
    <3>1. Load(r) <= 1
      BY <1>0, <2>1, NoCopies
    <3> HIDE DEF r
    <3> QED BY <1>4, <1>T, <3>1
  <2>2. ASSUME NEW f \in Event, f.req = r,
               ready[f] + dlq[f] # 0 \/ \E h \in Handlers : Holds(h, f)
        PROVE  Owed(e, 0)
    <3>4. ready[f] \in Nat /\ dlq[f] \in Nat
      BY <1>0 DEF TypeOK
    <3>5. f.retries \in Nat
      BY DEF Event
    <3>1. ready[f] \in Nat /\ dlq[f] \in Nat /\ f.retries \in Nat
      BY <3>4, <3>5
    <3>2. Owed(f, f.retries)
      BY <1>6, <2>2, <3>1
    <3>3. Load(r) + f.retries <= 1 + Excuse(r)
      BY <2>2, <3>2 DEF Owed
    <3> HIDE DEF r
    <3> QED BY <1>4, <1>T, <3>1, <3>3
  <2> QED BY <2>1, <2>2
<1>8. ASSUME ready'[e] + dlq'[e] > 0
      PROVE  Owed(e, e.retries)'
  <2>1. /\ ready'[e] \in Nat /\ dlq'[e] \in Nat
        /\ ready[e] \in Nat /\ dlq[e] \in Nat
    BY <1>0 DEF TypeOK
  <2>2. ready'[e] > 0 \/ dlq'[e] > 0
    BY <1>8, <2>1
  <2>3. Known(r)'
    BY <2>2 DEF Known, Queued, Parked
  <2>4. SUFFICES Owed(e, e.retries)
    BY <1>0, <1>5, <2>3
  <2>5. CASE ready[e] > 0 \/ dlq[e] > 0 \/ \E h \in Handlers : Holds(h, e)
    BY <1>6, <2>1, <2>5
  <2>6. CASE e.retries = 0
    BY <1>7, <2>6
  <2>7. ASSUME NEW h \in Handlers, hnd[h].pc = "backoff", hnd[h].held,
               hnd[h].event.req = r, hnd[h].event.retries + 1 = e.retries
        PROVE  Owed(e, e.retries)
    <3>1. Busy(h) /\ hnd[h].event \in Event
      BY <1>0, <2>7, BusyHandler DEF Busy
    <3>2. Owed(hnd[h].event, hnd[h].event.retries + 1)
      BY <1>6, <2>7, <3>1 DEF Holds
    <3> QED BY <2>7, <3>2 DEF Owed
  <2> QED BY <1>0, <2>2, <2>5, <2>6, <2>7, ReadyMoves, DlqMoves
<1>9. ASSUME NEW h \in Handlers, Holds(h, e)'
      PROVE  /\ Owed(e, e.retries)'
             /\ hnd'[h].pc \in {"caught", "backoff"} => Owed(e, e.retries + 1)'
  <2>1. Known(r)'
    BY <1>9 DEF Known, Holds
  <2>2. CASE ready[e] > 0 /\ hnd'[h].pc = "find"
    <3>1. Owed(e, e.retries)
      BY <1>0, <1>6, <2>2 DEF TypeOK
    <3> QED BY <1>0, <1>5, <2>1, <2>2, <3>1
  <2>3. CASE Holds(h, e) /\ hnd[h].pc \in {"caught", "backoff"}
    <3>1. Owed(e, e.retries) /\ Owed(e, e.retries + 1)
      BY <1>6, <2>3
    <3> QED BY <1>0, <1>5, <2>1, <3>1
  <2>4. CASE Holds(h, e) /\ hnd'[h].pc \notin {"caught", "backoff"}
    <3>1. Owed(e, e.retries)
      BY <1>6, <2>4
    <3> QED BY <1>0, <1>5, <2>1, <2>4, <3>1
  <2>5. CASE Holds(h, e) /\ DbFails(h)
    <3>1. Owed(e, e.retries)
      BY <1>6, <2>5
    <3> QED BY <1>0, <1>5, <2>1, <2>5, <3>1
  <2>6. CASE Holds(h, e) /\ Write(h) /\ hnd'[h].pc \in {"caught", "backoff"}
    <3>1. Conflict(row[r], hnd[h].base) /\ hnd[h].pc = "write"
      <4>1. hnd[h] \in Handler \ {Idle}
        BY <1>0, <2>6, BusyHandler DEF Holds
      <4> QED BY <1>0, <2>6, <4>1 DEF Write, Handler, Holds
    <3>2. Snapshot(h)
      BY <1>0, <1>1, <2>6 DEF RowInv, Snapshots, Holds
    <3> QED BY <3>1, <3>2 DEF Snapshot, Conflict, Row, Absent
  <2> QED BY <1>0, <1>9, <2>2, <2>3, <2>4, <2>5, <2>6, HoldsSource
<1> QED BY <1>8, <1>9

LEMMA CopiesInvariant == Spec => []CopiesInv
<1>1. Init => CopiesInv
  <2> SUFFICES ASSUME Init PROVE CopiesInv
    OBVIOUS
  <2>1. RowInv
    BY InitRowInv
  <2>2. BackoffAllowed /\ OneDoubled
    BY DEF Init, BackoffAllowed, OneDoubled, Idle
  <2>3. CopiesOwed
    BY DEF Init, CopiesOwed, Holds, Busy, Idle
  <2> QED BY <2>1, <2>2, <2>3 DEF CopiesInv
<1>2. CopiesInv /\ [Next]_vars => CopiesInv'
  <2> SUFFICES ASSUME CopiesInv, [Next]_vars PROVE CopiesInv'
    OBVIOUS
  <2>1. RowInv'
    BY RowStep DEF CopiesInv
  <2>2. BackoffAllowed' /\ OneDoubled'
    BY BackoffStep, OneDoubledStep DEF CopiesInv, RowInv
  <2> QED BY <2>1, <2>2, CopiesOwedStep DEF CopiesInv
<1> QED BY <1>1, <1>2, PTL DEF Spec

(* However often attempts fail, channels close and events are redelivered  *)
(* or published again, the copies of an unedited request's event and the   *)
(* retries any of them has seen are each owed to a fault of their own: the *)
(* consumer's retries never multiply a message.                            *)
THEOREM RetriesNeverMultiply == Spec => []CopiesBounded
<1>1. CopiesInv => CopiesBounded
  <2> SUFFICES ASSUME CopiesInv, NEW e \in Event, e.req \notin edited,
                      ready[e] + dlq[e] > 0 \/ \E h \in Handlers : Holds(h, e)
               PROVE  Copies(e.req) + e.retries
                        <= 1 + faults + Cardinality(Doubled(e.req))
    BY DEF CopiesBounded
  <2>1. Owed(e, e.retries)
    BY DEF CopiesInv, CopiesOwed
  <2>2. e.req \in Requests /\ e.retries \in Nat /\ faults \in Nat /\ TypeOK
    BY DEF CopiesInv, RowInv, TypeOK, Event
  <2> QED BY <2>1, <2>2, LoadNow DEF Owed, Load, Excuse, Copies
<1> QED BY <1>1, CopiesInvariant, PTL

-----------------------------------------------------------------------------
(* Decisions are final.                                                    *)

(* Before the first fault, a handler that is about to decide a request     *)
(* works on the only copy of its event.                                    *)
LEMMA OnlyCopy ==
    ASSUME CopiesInv, RetryInv, faults = 0, NEW h \in Handlers, Undecided(h),
           hnd[h].event.req \notin edited
    PROVE  LET r == hnd[h].event.req IN
           /\ r \in Requests
           /\ call[r].pc # "emit"
           /\ \A e \in Event : e.req = r => ~(ready[e] > 0)
           /\ \A g \in Handlers : Busy(g) /\ hnd[g].event.req = r => g = h
<1> DEFINE r == hnd[h].event.req
<1>0. TypeOK /\ hnd \in [Handlers -> Handler]
  BY DEF CopiesInv, RowInv, TypeOK
<1>1. Busy(h)
  BY DEF Busy, Undecided
<1>2. r \in Requests
  BY <1>0, <1>1, BusyHandler
<1>3. ASSUME NEW g \in Handlers, Busy(g), hnd[g].event.req = r
      PROVE  ~Failing(g)
  <2>1. hnd[g].event \in Event /\ hnd[g].event.retries \in Nat
    BY <1>0, <1>3, BusyHandler, AttemptsAssumption DEF Event
  <2>2. Failing(g) => faults >= hnd[g].event.retries + 1
    BY <1>3, <2>1 DEF RetryInv, RetriesPaid, Paid
  <2> QED BY <2>1, <2>2
<1>4. Doubled(r) = {}
  BY <1>3 DEF Doubled, Failing, Busy
<1>5. Load(r) <= 1
  <2>1. hnd[h].event \in Event /\ hnd[h].event.retries \in Nat
    BY <1>0, <1>1, BusyHandler, AttemptsAssumption DEF Event
  <2>2. Owed(hnd[h].event, hnd[h].event.retries)
    BY <1>1, <1>3, <2>1 DEF CopiesInv, CopiesOwed, Holds, Failing
  <2>3. Load(r) \in Nat
    BY <1>0, <1>2, LoadNow
  <2> QED BY <1>4, <2>1, <2>2, <2>3, FS_EmptySet DEF Owed, Excuse
<1>6. h \in Carriers(r)
  BY <1>1, <1>3 DEF Carriers, Failing
<1>7. Stored(r) = 0 /\ Cardinality(Carriers(r)) = 1 /\ AboutToEmit(r) = 0
  <2>1. Stored(r) \in Nat /\ Cardinality(Carriers(r)) \in Nat
          /\ AboutToEmit(r) \in {0, 1}
    BY <1>0, <1>2, LoadNow
  <2>2. Cardinality(Carriers(r)) # 0
    BY <1>6, CarriersFinite, FS_EmptySet
  <2> QED BY <1>5, <2>1, <2>2 DEF Load, Copies
<1>8. ASSUME NEW g \in Handlers, Busy(g), hnd[g].event.req = r
      PROVE  g = h
  <2>1. PICK x : Carriers(r) = {x}
    BY <1>7, CarriersFinite, FS_Singleton
  <2>2. g \in Carriers(r)
    BY <1>3, <1>8 DEF Carriers, Failing
  <2> QED BY <1>6, <2>1, <2>2
<1>9. ASSUME NEW e \in Event, e.req = r
      PROVE  ~(ready[e] > 0)
  <2> DEFINE now == [f \in EventsOf(r) |-> ready[f] + dlq[f]]
  <2>1. now \in [EventsOf(r) -> Nat] /\ e \in EventsOf(r)
    BY <1>0, <1>9 DEF TypeOK, EventsOf
  <2>2. Stored(r) = Total(now)
    BY DEF Stored
  <2>3. now[e] = ready[e] + dlq[e] /\ ready[e] \in Nat /\ dlq[e] \in Nat
    BY <1>0, <2>1 DEF TypeOK
  <2>4. IsFiniteSet(EventsOf(r))
    BY <1>2, EventsFinite
  <2> HIDE DEF now, r
  <2>5. Total(now) >= now[e]
    BY <2>1, <2>4, TotalAtLeast
  <2>6. 0 >= now[e]
    BY <1>7, <2>2, <2>5
  <2> QED BY <2>3, <2>6
<1> QED BY <1>2, <1>7, <1>8, <1>9 DEF AboutToEmit

(* Before the first fault, a request that is still to be decided was so    *)
(* before the step, or has just been booked.                               *)
LEMMA UntriedBefore ==
    ASSUME RetryInv, [Next]_vars, faults' = 0, NEW r \in Requests \ edited,
           ~Insert(r), Untried(r)'
    PROVE  Untried(r)
<1>0. /\ TypeOK /\ call \in [Requests -> Call] /\ ready \in [Event -> Nat]
      /\ hnd \in [Handlers -> Handler] /\ faults \in Nat
  BY DEF RetryInv, RowInv, TypeOK
<1>1. faults = 0
  BY <1>0, FaultsGrow
<1>2. ASSUME call'[r].pc = "emit"
      PROVE  call[r].pc = "emit"
  <2>1. ASSUME NEW q \in Requests, NEW i \in Instances, NEW from \in Dates,
               NEW to \in Dates, Submit(q, i, from, to)
        PROVE  call[r].pc = "emit"
    BY <1>0, <1>2, <2>1 DEF Submit, CallEnded
  <2>2. ASSUME NEW q \in Requests, CallStep(q)
        PROVE  call[r].pc = "emit"
    BY <1>0, <1>2, <2>2 DEF CallStep, CheckOverlap, Insert, Emit, Confirm,
                            Call, NoCall, CallEnded
  <2>3. ASSUME NEW q \in Requests,
               ProducerDrop(q) \/ CallFails(q) \/ EmitLost(q)
        PROVE  FALSE
    BY <1>0, <2>3 DEF ProducerDrop, CallFails, EmitLost, Fault
  <2>4. ASSUME NEW i \in Instances, Crash(i)
        PROVE  FALSE
    BY <1>0, <2>4 DEF Crash, Fault
  <2>5. CASE BrokerRestart
    BY <1>0, <2>5 DEF BrokerRestart, Fault
  <2> QED BY <1>2, <2>1, <2>2, <2>3, <2>4, <2>5, CallMovers
<1>3. ASSUME NEW e \in Event, e.req = r, ready'[e] > 0
      PROVE  Untried(r)
  <2>1. CASE UNCHANGED ready
    BY <1>3, <2>1 DEF Untried
  <2>2. ASSUME NEW q \in Requests, Emit(q)
        PROVE  Untried(r)
    <3> DEFINE f == [req |-> q, retries |-> 0]
    <3>1. f.req = q
      OBVIOUS
    <3>2. e = f \/ ready'[e] = ready[e]
      BY <1>0, <2>2 DEF Emit, Put
    <3> HIDE DEF f
    <3> QED BY <1>3, <2>2, <3>1, <3>2 DEF Emit, Untried
  <2>3. ASSUME NEW h \in Handlers, NEW f \in Event, Deliver(h, f)
        PROVE  Untried(r)
    BY <1>0, <1>3, <2>3 DEF Deliver, Take, Untried
  <2>4. ASSUME NEW h \in Handlers, Republish(h)
        PROVE  Untried(r)
    <3>1. Busy(h) /\ Failing(h)
      BY <2>4 DEF Republish, Busy, Failing
    <3>2. hnd[h].event \in Event /\ hnd[h].event.retries \in Nat
      BY <1>0, <3>1, BusyHandler, AttemptsAssumption DEF Event
    <3>3. hnd[h].event.req # r
      BY <1>1, <3>1, <3>2 DEF RetryInv, RetriesPaid, Paid
    <3> DEFINE n == [hnd[h].event EXCEPT !.retries = @ + 1]
    <3>4. n.req = hnd[h].event.req
      BY <3>2 DEF Event
    <3>5. e = n \/ ready'[e] = ready[e]
      BY <1>0, <2>4 DEF Republish, Put
    <3> HIDE DEF n
    <3> QED BY <1>3, <3>3, <3>4, <3>5 DEF Untried
  <2>5. ASSUME NEW i \in Instances, Drop(i) \/ Crash(i)
        PROVE  FALSE
    BY <1>0, <2>5 DEF Drop, Crash, Fault
  <2>6. CASE BrokerRestart
    BY <1>0, <2>6 DEF BrokerRestart, Fault
  <2> QED BY <2>1, <2>2, <2>3, <2>4, <2>5, <2>6, ReadyMovers
<1>4. ASSUME NEW h \in Handlers, Undecided(h)', hnd'[h].event.req = r
      PROVE  Untried(r)
  <2>1. CASE hnd'[h] = hnd[h]
    BY <1>4, <2>1 DEF Undecided, Untried
  <2>2. CASE Busy(h) /\ hnd'[h] = [hnd[h] EXCEPT !.held = FALSE]
    <3>1. hnd[h] \in Handler \ {Idle}
      BY <2>2, BusyHandler, <1>0
    <3>2. hnd'[h].pc = hnd[h].pc /\ hnd'[h].event = hnd[h].event
      BY <2>2, <3>1 DEF Handler
    <3> QED BY <1>4, <3>2 DEF Undecided, Untried
  <2>3. CASE Delivery(h)
    <3>1. PICK e \in Event : Deliver(h, e)
      BY <2>3 DEF Delivery
    <3>2. hnd'[h].event = e /\ ready[e] > 0
      BY <1>0, <3>1 DEF Deliver
    <3> QED BY <1>4, <3>2 DEF Untried
  <2>4. CASE HandlerStep(h) \/ DbFails(h)
    <3>1. Busy(h) /\ hnd[h] \in Handler \ {Idle}
      BY <1>0, <2>4, StepIsBusy, BusyHandler
    <3>2. hnd'[h].event = hnd[h].event
      BY <1>0, <1>4, <2>4, <3>1, HandlerSource
         DEF Undecided, Delivery, Deliver, Idle
    <3>3. hnd[h].pc \in {"find", "found"}
      <4>1. CASE Find(h) \/ Decide(h)
        BY <4>1 DEF Find, Decide
      <4>2. CASE Skip(h) \/ AckSaved(h) \/ Write(h)
        BY <1>0, <1>4, <3>1, <4>2
           DEF Skip, AckSaved, AckInTry, Write, Handler, Idle, Undecided
      <4>3. CASE Catch(h) \/ Republish(h) \/ AckRetried(h) \/ DbFails(h)
        BY <1>0, <1>4, <3>1, <4>3
           DEF Catch, Republish, AckRetried, DbFails, Handler, Idle, Undecided
      <4> QED BY <2>4, <4>1, <4>2, <4>3 DEF HandlerStep
    <3> QED BY <1>4, <3>2, <3>3 DEF Untried, Undecided
  <2>5. CASE hnd'[h] = Idle
    BY <1>4, <2>5 DEF Undecided, Idle
  <2> QED BY <1>0, <2>1, <2>2, <2>3, <2>4, <2>5, HandlerMoves
<1> QED BY <1>2, <1>3, <1>4 DEF Untried

LEMMA FirstHandlingStep ==
    ASSUME CopiesInv, RetryInv, FirstHandling, [Next]_vars
    PROVE  FirstHandling'
<1> SUFFICES ASSUME faults' = 0, NEW r \in Requests \ edited', Untried(r)'
             PROVE  row'[r].status = "PENDING"
  BY DEF FirstHandling
<1>0. /\ RowInv /\ TypeOK /\ faults = 0
      /\ call \in [Requests -> Call] /\ hnd \in [Handlers -> Handler]
  BY FaultsGrow DEF RetryInv, RowInv, TypeOK
<1>1. r \in Requests \ edited
  BY <1>0, UneditedRow
<1>2. CASE Insert(r)
  BY <1>0, <1>2 DEF Insert, Booked, RowInv, TypeOK
<1>3. ASSUME NEW h \in Handlers, Write(h), hnd[h].event.req = r
      PROVE  FALSE
  <2>1. Undecided(h) /\ hnd[h].pc = "write"
    BY <1>3 DEF Write, Undecided
  <2>2. /\ call[r].pc # "emit"
        /\ \A e \in Event : e.req = r => ~(ready[e] > 0)
        /\ \A g \in Handlers : Busy(g) /\ hnd[g].event.req = r => g = h
    BY <1>0, <1>1, <1>3, <2>1, OnlyCopy
  <2>3. /\ UNCHANGED <<call, ready>>
        /\ hnd'[h].pc \in {"saved", "caught"}
        /\ \A g \in Handlers \ {h} : hnd'[g] = hnd[g]
    BY <1>0, <1>3, BusyHandler DEF Write, Busy, Handler
  <2>4. ~(\E g \in Handlers : Undecided(g)' /\ hnd'[g].event.req = r)
    BY <2>2, <2>3 DEF Undecided, Busy
  <2> QED BY <2>2, <2>3, <2>4 DEF Untried
<1>4. CASE ~Insert(r) /\ ~\E h \in Handlers : Write(h) /\ hnd[h].event.req = r
  <2>1. row'[r] = row[r]
    BY <1>0, <1>4, UneditedRow
  <2>2. Untried(r)
    BY <1>1, <1>4, UntriedBefore
  <2> QED BY <1>0, <1>1, <2>1, <2>2 DEF FirstHandling
<1> QED BY <1>2, <1>3, <1>4

(* A decision is never undone or changed by the pipeline.  A handler that  *)
(* saves a request which is decided already writes a new processing time   *)
(* and nothing else; and before the first fault there is none.             *)
THEOREM DecisionsAreFinal == Spec => DecisionIsFinal
<1>1. Init => FirstHandling
  BY DEF Init, FirstHandling, Untried, Undecided, NoCall, Idle
<1>2. Spec => []FirstHandling
  BY <1>1, FirstHandlingStep, CopiesInvariant, RetryInvariant, PTL DEF Spec
<1>3. ASSUME RetryInv, FirstHandling, [Next]_vars, NEW r \in Requests \ edited',
             Present(r), row[r].status # "PENDING", row'[r] # row[r]
      PROVE  /\ \E now \in Times : row'[r] = [row[r] EXCEPT !.processed = now]
             /\ faults > 0
  <2>1. RowInv /\ faults \in Nat
    BY <1>3 DEF RetryInv, RowInv, TypeOK
  <2>2. /\ r \notin edited
        /\ \E now \in Times : row'[r] = [row[r] EXCEPT !.processed = now]
        /\ \E h \in Handlers : Write(h) /\ hnd[h].event.req = r
    BY <1>3, <2>1, UneditedRow DEF Present
  <2>3. Untried(r)
    BY <2>2 DEF Untried, Undecided, Write
  <2>4. faults # 0
    BY <1>3, <2>2, <2>3 DEF FirstHandling
  <2> QED BY <2>1, <2>2, <2>4
<1>4. RetryInv /\ FirstHandling /\ [Next]_vars =>
        [\A r \in Requests \ edited' :
            Present(r) /\ row[r].status # "PENDING" /\ row'[r] # row[r] =>
                /\ \E now \in Times : row'[r] = [row[r] EXCEPT !.processed = now]
                /\ faults > 0]_vars
  BY <1>3
<1> QED BY <1>2, <1>4, RetryInvariant, PTL DEF Spec, DecisionIsFinal

-----------------------------------------------------------------------------
(* The work that is left.                                                  *)

LEMMA AheadType ==
    ASSUME NEW e \in Event
    PROVE  /\ Ahead(e.retries) \in Nat /\ Ahead(e.retries + 1) \in Nat
           /\ Ahead(0) \in Nat
           /\ Ahead(e.retries) = Ahead(e.retries + 1) + 8
BY AttemptsAssumption DEF Event, Ahead

LEMMA ToGoType == \A pc : ToGo(pc) \in 0 .. 7
BY DEF ToGo

HandlerWorkIs(h) ==
    /\ HandlerWork(h) \in Nat
    /\ hnd[h] = Idle => HandlerWork(h) = 0
    /\ hnd[h].pc = "republished" => HandlerWork(h) = 1
    /\ hnd[h].pc \notin {"idle", "republished"} =>
          HandlerWork(h) = ToGo(hnd[h].pc) + Ahead(hnd[h].event.retries + 1)

HandlerWorks == \A h \in Handlers : HandlerWorkIs(h)

LEMMA HandlerWorkNow == TypeOK => HandlerWorks
<1> SUFFICES ASSUME TypeOK, NEW h \in Handlers PROVE HandlerWorkIs(h)
  BY DEF HandlerWorks
<1>1. CASE ~Busy(h)
  BY <1>1 DEF HandlerWorkIs, HandlerWork, Busy
<1>2. CASE Busy(h)
  <2>1. hnd[h].event \in Event
    BY <1>2, BusyHandler
  <2>2. Ahead(hnd[h].event.retries + 1) \in Nat /\ ToGo(hnd[h].pc) \in 0 .. 7
    BY <2>1, AheadType, ToGoType
  <2> QED BY <1>2, <2>2 DEF HandlerWorkIs, HandlerWork, Busy, Idle
<1> QED BY <1>1, <1>2

LEMMA HandlerWorkType ==
    ASSUME TypeOK, TypeOK', NEW h \in Handlers
    PROVE  HandlerWorkIs(h) /\ HandlerWorkIs(h)'
<1>1. (TypeOK => HandlerWorks)'
  BY HandlerWorkNow, PTL
<1> QED BY <1>1, HandlerWorkNow DEF HandlerWorks

LEMMA CallWorkType ==
    ASSUME NEW r \in Requests
    PROVE  CallWork(r) \in Nat /\ CallWork(r)' \in Nat /\ Ahead(0) \in Nat
<1>1. Ahead(0) \in Nat
  BY AttemptsAssumption DEF Ahead
<1> QED BY <1>1 DEF CallWork

LEMMA AdmWorkType ==
    ASSUME NEW a \in Admins
    PROVE  AdmWork(a) \in Nat /\ AdmWork(a)' \in Nat
BY DEF AdmWork

LEMMA QueuedWorkTotals ==
    ASSUME TypeOK, TypeOK'
    PROVE  LET now  == [f \in Event |-> ready[f] * Ahead(f.retries)]
               next == [f \in Event |-> ready'[f] * Ahead(f.retries)]
           IN  /\ QueuedWork = Total(now) /\ QueuedWork' = Total(next)
               /\ now \in [Event -> Nat] /\ next \in [Event -> Nat]
<1> DEFINE now == [f \in Event |-> ready[f] * Ahead(f.retries)]
           next == [f \in Event |-> ready'[f] * Ahead(f.retries)]
<1>1. now \in [Event -> Nat] /\ next \in [Event -> Nat]
  <2>1. \A f \in Event : /\ ready[f] \in Nat /\ ready'[f] \in Nat
                          /\ Ahead(f.retries) \in Nat
    BY AheadType DEF TypeOK
  <2>2. \A m, n \in Nat : m * n \in Nat
    OBVIOUS
  <2> QED BY <2>1, <2>2
<1>2. QueuedWork = Total(now)
  BY DEF QueuedWork
<1>3. QueuedWork' = Total(next)
  BY DEF QueuedWork, Total, Tokens, Event, Ahead
<1> QED BY <1>1, <1>2, <1>3

LEMMA QueuedWorkType ==
    ASSUME TypeOK, TypeOK'
    PROVE  QueuedWork \in Nat /\ QueuedWork' \in Nat
BY QueuedWorkTotals, EventsFinite, TotalType

LEMMA Distributed ==
    \A n, a \in Nat : (n + 1) * a = n * a + a /\ (n - 1) * a = n * a - a
OBVIOUS

(* A copy put into the queue brings the work of its deliveries with it, and*)
(* a copy taken takes that work away.                                      *)
LEMMA QueuedWorkMoves ==
    ASSUME TypeOK, TypeOK', NEW e \in Event
    PROVE  /\ ready' = [ready EXCEPT ![e] = @ + 1]
                => QueuedWork' = QueuedWork + Ahead(e.retries)
           /\ ready' = [ready EXCEPT ![e] = @ - 1]
                => QueuedWork' = QueuedWork - Ahead(e.retries)
<1> DEFINE a == Ahead(e.retries)
           n == ready[e]
           now == [f \in Event |-> ready[f] * Ahead(f.retries)]
           next == [f \in Event |-> ready'[f] * Ahead(f.retries)]
<1>1. /\ QueuedWork = Total(now) /\ QueuedWork' = Total(next)
      /\ now \in [Event -> Nat] /\ next \in [Event -> Nat]
  BY QueuedWorkTotals
<1>2. a \in Nat /\ n \in Nat /\ now[e] = n * a /\ next[e] = ready'[e] * a
  BY AheadType DEF TypeOK
<1>3. (n + 1) * a = n * a + a /\ (n - 1) * a = n * a - a
  BY <1>2, Distributed
<1>4. Total(now) \in Nat /\ Total(next) \in Nat
  BY <1>1, EventsFinite, TotalType
<1>5. ASSUME \A f \in Event \ {e} : ready'[f] = ready[f]
      PROVE  Total(next) + now[e] = Total(now) + next[e]
  <2>1. \A f \in Event \ {e} : next[f] = now[f]
    BY <1>5
  <2> HIDE DEF a, n, now, next
  <2> QED BY <1>1, <2>1, EventsFinite, TotalChange
<1>6. ASSUME ready' = [ready EXCEPT ![e] = @ + 1]
      PROVE  QueuedWork' = QueuedWork + a
  <2>1. ready'[e] = n + 1 /\ \A f \in Event \ {e} : ready'[f] = ready[f]
    BY <1>6 DEF TypeOK
  <2>2. Total(next) + now[e] = Total(now) + next[e]
    BY <1>5, <2>1
  <2>3. next[e] = now[e] + a /\ now[e] \in Nat
    BY <1>1, <1>2, <1>3, <2>1
  <2> HIDE DEF a, n, now, next
  <2> QED BY <1>1, <1>2, <1>4, <2>2, <2>3
<1>7. ASSUME ready' = [ready EXCEPT ![e] = @ - 1]
      PROVE  QueuedWork' = QueuedWork - a
  <2>1. ready'[e] = n - 1 /\ \A f \in Event \ {e} : ready'[f] = ready[f]
    BY <1>7 DEF TypeOK
  <2>2. Total(next) + now[e] = Total(now) + next[e]
    BY <1>5, <2>1
  <2>3. next[e] = now[e] - a /\ now[e] \in Nat
    BY <1>1, <1>2, <1>3, <2>1
  <2> HIDE DEF a, n, now, next
  <2> QED BY <1>1, <1>2, <1>4, <2>2, <2>3
<1> QED BY <1>6, <1>7

(* Each other part changes by what its one moving member changes.          *)
LEMMA HandlersWorkChange ==
    ASSUME TypeOK, TypeOK', NEW h \in Handlers,
           \A g \in Handlers \ {h} : hnd'[g] = hnd[g]
    PROVE  /\ HandlersWork \in Nat /\ HandlersWork' \in Nat
           /\ HandlersWork' + HandlerWork(h) = HandlersWork + HandlerWork(h)'
<1> DEFINE now == [g \in Handlers |-> HandlerWork(g)]
           next == [g \in Handlers |-> HandlerWork(g)']
<1>1. now \in [Handlers -> Nat] /\ next \in [Handlers -> Nat]
  BY HandlerWorkType DEF HandlerWorkIs
<1>2. HandlersWork = Total(now) /\ HandlersWork' = Total(next)
  BY DEF HandlersWork, Total, Tokens
<1>3. \A g \in Handlers \ {h} : next[g] = now[g]
  BY DEF HandlerWork, Busy, ToGo, Ahead
<1>4. now[h] = HandlerWork(h) /\ next[h] = HandlerWork(h)'
  OBVIOUS
<1> HIDE DEF now, next
<1>5. Total(next) + now[h] = Total(now) + next[h]
  BY <1>1, <1>3, HandlersAssumption, TotalChange
<1>6. Total(now) \in Nat /\ Total(next) \in Nat
  BY <1>1, HandlersAssumption, TotalType
<1> QED BY <1>2, <1>4, <1>5, <1>6

LEMMA CallsWorkChange ==
    ASSUME NEW r \in Requests, \A q \in Requests \ {r} : call'[q] = call[q]
    PROVE  /\ CallsWork \in Nat /\ CallsWork' \in Nat
           /\ CallsWork' + CallWork(r) = CallsWork + CallWork(r)'
           /\ CallWork(r)' < CallWork(r) => CallsWork' < CallsWork
<1> DEFINE now == [q \in Requests |-> CallWork(q)]
           next == [q \in Requests |-> CallWork(q)']
<1>1. now \in [Requests -> Nat] /\ next \in [Requests -> Nat]
  BY CallWorkType
<1>2. CallsWork = Total(now) /\ CallsWork' = Total(next)
  BY DEF CallsWork, Total, Tokens
<1>3. \A q \in Requests \ {r} : next[q] = now[q]
  BY DEF CallWork, Ahead
<1>4. now[r] = CallWork(r) /\ next[r] = CallWork(r)'
  OBVIOUS
<1> HIDE DEF now, next
<1>5. Total(next) + now[r] = Total(now) + next[r]
  BY <1>1, <1>3, CallsAssumption, TotalChange
<1>6. Total(now) \in Nat /\ Total(next) \in Nat
  BY <1>1, CallsAssumption, TotalType
<1>7. next[r] < now[r] => Total(next) < Total(now)
  BY <1>1, <1>5, <1>6
<1> QED BY <1>2, <1>4, <1>5, <1>6, <1>7

LEMMA AdmsWorkChange ==
    ASSUME NEW a \in Admins, \A b \in Admins \ {a} : adm'[b] = adm[b]
    PROVE  /\ AdmsWork \in Nat /\ AdmsWork' \in Nat
           /\ AdmsWork' + AdmWork(a) = AdmsWork + AdmWork(a)'
<1> DEFINE now == [b \in Admins |-> AdmWork(b)]
           next == [b \in Admins |-> AdmWork(b)']
<1>1. now \in [Admins -> Nat] /\ next \in [Admins -> Nat]
  BY AdmWorkType
<1>2. AdmsWork = Total(now) /\ AdmsWork' = Total(next)
  BY DEF AdmsWork, Total, Tokens
<1>3. \A b \in Admins \ {a} : next[b] = now[b]
  BY DEF AdmWork
<1>4. now[a] = AdmWork(a) /\ next[a] = AdmWork(a)'
  OBVIOUS
<1> HIDE DEF now, next
<1>5. Total(next) + now[a] = Total(now) + next[a]
  BY <1>1, <1>3, CallsAssumption, TotalChange
<1>6. Total(now) \in Nat /\ Total(next) \in Nat
  BY <1>1, CallsAssumption, TotalType
<1> QED BY <1>2, <1>4, <1>5, <1>6

(* The whole falls with one of its parts when the others stay.             *)
LEMMA OnePartFalls ==
    \A q, h, c, a, c2, a2 \in Nat :
       /\ c2 < c => q + h + c2 + a < q + h + c + a
       /\ a2 < a => q + h + c + a2 < q + h + c + a
OBVIOUS

(* Where nothing moves, no work is done.                                   *)
LEMMA WorkUnchanged ==
    /\ TypeOK /\ TypeOK' /\ UNCHANGED ready
         => QueuedWork \in Nat /\ QueuedWork' = QueuedWork
    /\ TypeOK /\ TypeOK' /\ UNCHANGED hnd
         => HandlersWork \in Nat /\ HandlersWork' = HandlersWork
    /\ UNCHANGED call => CallsWork \in Nat /\ CallsWork' = CallsWork
    /\ UNCHANGED adm => AdmsWork \in Nat /\ AdmsWork' = AdmsWork
<1>1. ASSUME TypeOK, TypeOK', UNCHANGED ready
      PROVE  QueuedWork \in Nat /\ QueuedWork' = QueuedWork
  <2>1. QueuedWork' = QueuedWork
    BY <1>1 DEF QueuedWork, Total, Tokens, Event, Ahead
  <2> QED BY <1>1, <2>1, QueuedWorkType
<1>2. ASSUME TypeOK, TypeOK', UNCHANGED hnd
      PROVE  HandlersWork \in Nat /\ HandlersWork' = HandlersWork
  <2> DEFINE now == [h \in Handlers |-> HandlerWork(h)]
  <2>1. now \in [Handlers -> Nat]
    BY <1>2, HandlerWorkType DEF HandlerWorkIs
  <2>2. HandlersWork = Total(now)
    BY DEF HandlersWork
  <2>3. HandlersWork' = HandlersWork
    BY <1>2 DEF HandlersWork, HandlerWork, Busy, ToGo, Ahead, Total, Tokens
  <2> HIDE DEF now
  <2> QED BY <2>1, <2>2, <2>3, HandlersAssumption, TotalType
<1>3. ASSUME UNCHANGED call
      PROVE  CallsWork \in Nat /\ CallsWork' = CallsWork
  <2> DEFINE now == [r \in Requests |-> CallWork(r)]
  <2>1. now \in [Requests -> Nat]
    BY CallWorkType
  <2>2. CallsWork = Total(now)
    BY DEF CallsWork
  <2>3. CallsWork' = CallsWork
    BY <1>3 DEF CallsWork, CallWork, Ahead, Total, Tokens
  <2> HIDE DEF now
  <2> QED BY <2>1, <2>2, <2>3, CallsAssumption, TotalType
<1>4. ASSUME UNCHANGED adm
      PROVE  AdmsWork \in Nat /\ AdmsWork' = AdmsWork
  <2> DEFINE now == [a \in Admins |-> AdmWork(a)]
  <2>1. now \in [Admins -> Nat]
    BY AdmWorkType
  <2>2. AdmsWork = Total(now)
    BY DEF AdmsWork
  <2>3. AdmsWork' = AdmsWork
    BY <1>4 DEF AdmsWork, AdmWork, Total, Tokens
  <2> HIDE DEF now
  <2> QED BY <2>1, <2>2, <2>3, CallsAssumption, TotalType
<1> QED BY <1>1, <1>2, <1>3, <1>4

LEMMA CallStepShrinks ==
    ASSUME TypeOK, TypeOK', NEW r \in Requests, CallStep(r)
    PROVE  Work' < Work
<1>0. call \in [Requests -> Call] /\ call[r] \in Call \ {NoCall, CallEnded}
  BY DEF TypeOK, CallStep, CheckOverlap, Insert, Emit, Confirm, NoCall, CallEnded
<1>1. UNCHANGED <<hnd, adm>> /\ \A q \in Requests \ {r} : call'[q] = call[q]
  BY <1>0 DEF CallStep, CheckOverlap, Insert, Emit, Confirm
<1>2. /\ CallsWork \in Nat /\ CallsWork' \in Nat
      /\ CallsWork' + CallWork(r) = CallsWork + CallWork(r)'
      /\ CallWork(r)' < CallWork(r) => CallsWork' < CallsWork
      /\ HandlersWork \in Nat /\ HandlersWork' = HandlersWork
      /\ AdmsWork \in Nat /\ AdmsWork' = AdmsWork
      /\ CallWork(r) \in Nat /\ CallWork(r)' \in Nat /\ Ahead(0) \in Nat
      /\ UNCHANGED ready => QueuedWork \in Nat /\ QueuedWork' = QueuedWork
  BY <1>1, CallsWorkChange, WorkUnchanged, CallWorkType
<1>3. CASE CheckOverlap(r)
  <2>1. call[r].pc = "check" /\ call'[r].pc \in {"insert", "ended"} /\ UNCHANGED ready
    BY <1>0, <1>3 DEF CheckOverlap, Call, CallEnded
  <2>2. CallWork(r) = Ahead(0) + 4 /\ CallWork(r)' \in {Ahead(0) + 3, 0}
    BY <2>1 DEF CallWork, Ahead
  <2> QED BY <1>2, <2>1, <2>2 DEF Work
<1>4. CASE Insert(r)
  <2>1. call[r].pc = "insert" /\ call'[r].pc = "emit" /\ UNCHANGED ready
    BY <1>0, <1>4 DEF Insert, Call
  <2>2. CallWork(r) = Ahead(0) + 3 /\ CallWork(r)' = Ahead(0) + 2
    BY <2>1 DEF CallWork, Ahead
  <2> QED BY <1>2, <2>1, <2>2 DEF Work
<1>5. CASE Emit(r)
  <2> DEFINE e == [req |-> r, retries |-> 0]
  <2>0. e \in Event /\ e.retries = 0
    BY FirstEvent
  <2> HIDE DEF e
  <2>1. /\ call[r].pc = "emit" /\ call'[r].pc = "confirm"
        /\ ready \in [Event -> Nat] /\ ready' = [ready EXCEPT ![e] = @ + 1]
    BY <1>0, <1>5 DEF Emit, Put, Call, TypeOK, e
  <2>2. CallWork(r) = Ahead(0) + 2 /\ CallWork(r)' = 1
    BY <2>1 DEF CallWork
  <2>3. QueuedWork \in Nat /\ QueuedWork' \in Nat
    BY QueuedWorkType
  <2>4. QueuedWork' = QueuedWork + Ahead(0)
    BY <2>0, <2>1, QueuedWorkMoves
  <2> QED BY <1>2, <2>2, <2>3, <2>4 DEF Work
<1>6. CASE Confirm(r)
  <2>1. call[r].pc = "confirm" /\ call'[r].pc = "ended" /\ UNCHANGED ready
    BY <1>0, <1>6 DEF Confirm, CallEnded
  <2>2. CallWork(r) = 1 /\ CallWork(r)' = 0
    BY <2>1 DEF CallWork
  <2>3. QueuedWork \in Nat /\ QueuedWork' = QueuedWork
    BY <1>2, <2>1
  <2>4. CallWork(r)' < CallWork(r)
    BY <2>2
  <2>5. CallsWork' < CallsWork
    BY <1>2, <2>4
  <2>6. /\ CallsWork' \in Nat /\ QueuedWork \in Nat /\ HandlersWork \in Nat
        /\ CallsWork \in Nat /\ AdmsWork \in Nat
        /\ QueuedWork' = QueuedWork /\ HandlersWork' = HandlersWork
        /\ AdmsWork' = AdmsWork
    BY <1>2, <2>3
  <2> QED BY <2>5, <2>6, OnePartFalls DEF Work
<1> QED BY <1>3, <1>4, <1>5, <1>6 DEF CallStep

LEMMA DeliveryShrinks ==
    ASSUME TypeOK, TypeOK', NEW h \in Handlers, Delivery(h)
    PROVE  Work' < Work
<1>1. PICK e \in Event : Deliver(h, e)
  BY DEF Delivery
<1>2. /\ hnd \in [Handlers -> Handler] /\ hnd[h] = Idle
      /\ ready \in [Event -> Nat] /\ ready[e] > 0
      /\ ready' = [ready EXCEPT ![e] = @ - 1]
      /\ hnd'[h].pc = "find" /\ hnd'[h].event = e
      /\ UNCHANGED <<call, adm>>
  BY <1>1 DEF Deliver, Take, TypeOK
<1>3. /\ HandlersWork \in Nat /\ HandlersWork' \in Nat
      /\ HandlersWork' + HandlerWork(h) = HandlersWork + HandlerWork(h)'
      /\ CallsWork \in Nat /\ CallsWork' = CallsWork
      /\ AdmsWork \in Nat /\ AdmsWork' = AdmsWork
  BY <1>2, HandlerAlone, HandlersWorkChange, WorkUnchanged
<1>4. HandlerWork(h) = 0 /\ HandlerWork(h)' = 7 + Ahead(e.retries + 1)
  BY <1>2 DEF HandlerWork, Busy, Idle, ToGo, Ahead
<1>5. QueuedWork \in Nat /\ QueuedWork' \in Nat
  BY QueuedWorkType
<1>6. /\ Ahead(e.retries) \in Nat /\ Ahead(e.retries + 1) \in Nat
      /\ Ahead(e.retries) = Ahead(e.retries + 1) + 8
  BY AheadType
<1>7. QueuedWork' = QueuedWork - Ahead(e.retries)
  BY <1>2, QueuedWorkMoves
<1> QED BY <1>3, <1>4, <1>5, <1>6, <1>7 DEF Work

LEMMA HandlerStepShrinks ==
    ASSUME TypeOK, TypeOK', BackoffAllowed, NEW h \in Handlers, HandlerStep(h)
    PROVE  Work' < Work
<1> DEFINE k == hnd[h].event.retries
<1>0. /\ hnd \in [Handlers -> Handler] /\ hnd[h] \in Handler \ {Idle} /\ Busy(h)
      /\ hnd[h].event \in Event /\ k \in Nat
      /\ UNCHANGED <<call, adm>>
  <2>1. Busy(h) /\ hnd \in [Handlers -> Handler]
    BY StepIsBusy DEF TypeOK
  <2>2. hnd[h] \in Handler \ {Idle}
    BY <2>1 DEF Busy, Idle
  <2>3. hnd[h].event \in Event /\ k \in Nat
    BY <2>2, AttemptsAssumption DEF Handler, Event
  <2>4. UNCHANGED <<call, adm>>
    BY Frames DEF HandlerStep, Find, Skip, AckSaved, AckInTry, Write, Catch,
                  Republish, AckRetried
  <2> QED BY <2>1, <2>2, <2>3, <2>4
<1>1. /\ HandlersWork \in Nat /\ HandlersWork' \in Nat
      /\ HandlersWork' + HandlerWork(h) = HandlersWork + HandlerWork(h)'
      /\ HandlerWork(h) \in Nat /\ HandlerWork(h)' \in Nat
      /\ CallsWork \in Nat /\ CallsWork' = CallsWork
      /\ AdmsWork \in Nat /\ AdmsWork' = AdmsWork
      /\ UNCHANGED ready => QueuedWork \in Nat /\ QueuedWork' = QueuedWork
  BY <1>0, HandlerAlone, HandlersWorkChange, HandlerWorkType, WorkUnchanged
     DEF HandlerWorkIs
<1>2. Ahead(k + 1) \in Nat
  BY <1>0, AheadType
<1>3. /\ hnd[h].pc \notin {"idle", "republished"}
            => HandlerWork(h) = ToGo(hnd[h].pc) + Ahead(k + 1)
      /\ hnd'[h] = Idle => HandlerWork(h)' = 0
  BY HandlerWorkType DEF HandlerWorkIs
<1>4. ASSUME hnd'[h].pc \notin {"idle", "republished"}, hnd'[h].event = hnd[h].event
      PROVE  HandlerWork(h)' = ToGo(hnd'[h].pc) + Ahead(k + 1)
  BY <1>4 DEF HandlerWork, Busy, ToGo, Ahead
<1> HIDE DEF k
<1>5. ASSUME UNCHANGED ready, HandlerWork(h)' < HandlerWork(h)
      PROVE  Work' < Work
  BY <1>1, <1>5 DEF Work
<1>6. CASE Find(h)
  <2>1. hnd'[h] = [hnd[h] EXCEPT !.pc = "found",
                                 !.entity = row[hnd[h].event.req]]
    BY <1>0, <1>6 DEF Find
  <2>2. hnd'[h].pc = "found" /\ hnd'[h].event = hnd[h].event
    BY <1>0, <2>1 DEF Handler
  <2> QED BY <1>2, <1>3, <1>4, <1>5, <1>6, <2>2 DEF Find, ToGo
<1>7. CASE Decide(h)
  <2>1. /\ hnd'[h].pc = "write" /\ hnd'[h].event = hnd[h].event
        /\ hnd[h].pc = "found" /\ UNCHANGED ready
    BY <1>0, <1>7, DecideEffect, Frames
  <2> QED BY <1>2, <1>3, <1>4, <1>5, <2>1 DEF ToGo
<1>8. CASE Write(h)
  <2>1. hnd'[h].pc \in {"caught", "saved"} /\ hnd'[h].event = hnd[h].event
    BY <1>0, <1>8 DEF Write, Handler
  <2> QED BY <1>2, <1>3, <1>4, <1>5, <1>8, <2>1 DEF Write, ToGo
<1>9. CASE Skip(h) \/ AckSaved(h)
  <2>1. CASE hnd'[h] = Idle
    BY <1>2, <1>3, <1>5, <1>9, <2>1 DEF Skip, AckSaved, AckInTry, ToGo
  <2>2. CASE hnd' = [hnd EXCEPT ![h].pc = "caught"]
    <3>1. hnd'[h].pc = "caught" /\ hnd'[h].event = hnd[h].event
      BY <1>0, <2>2 DEF Handler
    <3> QED BY <1>2, <1>3, <1>4, <1>5, <1>9, <3>1 DEF Skip, AckSaved, AckInTry, ToGo
  <2> QED BY <1>0, <1>9, <2>1, <2>2 DEF Skip, AckSaved, AckInTry
<1>10. CASE Catch(h)
  <2>1. CASE hnd'[h] = Idle
    BY <1>2, <1>3, <1>5, <1>10, <2>1 DEF Catch, ToGo
  <2>2. CASE hnd' = [hnd EXCEPT ![h].pc = "backoff"]
    <3>1. hnd'[h].pc = "backoff" /\ hnd'[h].event = hnd[h].event
      BY <1>0, <2>2 DEF Handler
    <3> QED BY <1>2, <1>3, <1>4, <1>5, <1>10, <3>1 DEF Catch, ToGo
  <2> QED BY <1>0, <1>10, <2>1, <2>2 DEF Catch
<1>11. CASE Republish(h)
  <2>1. HandlerWork(h) = 2 + Ahead(k + 1)
    BY <1>3, <1>11 DEF Republish, ToGo
  <2>2. CASE ~hnd[h].held
    BY <1>0, <1>2, <1>3, <1>5, <1>11, <2>1, <2>2 DEF Republish
  <2>3. CASE hnd[h].held
    <3> DEFINE e == [hnd[h].event EXCEPT !.retries = @ + 1]
    <3>1. e \in Event /\ e.retries = k + 1
      BY <1>0, <1>11, NextEvent DEF BackoffAllowed, Republish, k
    <3> HIDE DEF e
    <3>2. /\ ready \in [Event -> Nat] /\ ready' = [ready EXCEPT ![e] = @ + 1]
          /\ hnd' = [hnd EXCEPT ![h].pc = "republished"]
      BY <1>11, <2>3 DEF Republish, Put, TypeOK, e
    <3>3. hnd'[h].pc = "republished"
      BY <1>0, <3>2 DEF Handler
    <3>4. HandlerWork(h)' = 1
      BY <3>3 DEF HandlerWork, Busy
    <3>5. QueuedWork \in Nat /\ QueuedWork' \in Nat
      BY QueuedWorkType
    <3>6. QueuedWork' = QueuedWork + Ahead(k + 1)
      BY <3>1, <3>2, QueuedWorkMoves
    <3> QED BY <1>1, <1>2, <2>1, <3>4, <3>5, <3>6 DEF Work
  <2> QED BY <2>2, <2>3
<1>12. CASE AckRetried(h)
  <2>1. HandlerWork(h) = 1 /\ HandlerWork(h)' = 0 /\ UNCHANGED ready
    BY <1>0, <1>3, <1>12, HandlerWorkType DEF AckRetried, HandlerWorkIs
  <2> QED BY <1>5, <2>1
<1> QED BY <1>6, <1>7, <1>8, <1>9, <1>10, <1>11, <1>12 DEF HandlerStep

LEMMA AdmStepShrinks ==
    ASSUME TypeOK, TypeOK', NEW a \in Admins, AdmStep(a)
    PROVE  Work' < Work
<1>0. adm \in [Admins -> AdmCall] /\ adm[a] \in AdmCall \ {NoAdm, AdmDone}
  BY DEF TypeOK, AdmStep, UpdateReload, UpdateWrite, RemoveDelete, NoAdm, AdmDone
<1>1. UNCHANGED <<ready, hnd, call>> /\ \A b \in Admins \ {a} : adm'[b] = adm[b]
  BY <1>0 DEF AdmStep, UpdateReload, UpdateWrite, RemoveDelete
<1>2. /\ AdmsWork \in Nat /\ AdmsWork' \in Nat
      /\ AdmsWork' + AdmWork(a) = AdmsWork + AdmWork(a)'
      /\ QueuedWork \in Nat /\ QueuedWork' = QueuedWork
      /\ HandlersWork \in Nat /\ HandlersWork' = HandlersWork
      /\ CallsWork \in Nat /\ CallsWork' = CallsWork
  BY <1>1, AdmsWorkChange, WorkUnchanged
<1>3. AdmWork(a)' < AdmWork(a) /\ AdmWork(a) \in Nat /\ AdmWork(a)' \in Nat
  <2>1. CASE UpdateReload(a)
    <3>1. adm'[a] = [adm[a] EXCEPT !.pc = "write",
                                   !.base = Compared(row[adm[a].req], adm[a].timed)]
      BY <1>0, <2>1 DEF UpdateReload
    <3>2. adm'[a].pc = "write" /\ adm[a].pc = "loaded"
      BY <1>0, <2>1, <3>1 DEF UpdateReload, AdmCall
    <3> QED BY <3>2 DEF AdmWork
  <2>2. CASE UpdateWrite(a) \/ RemoveDelete(a)
    <3>1. adm'[a].pc = "done" /\ adm[a].pc \in {"write", "remove"}
      BY <1>0, <2>2 DEF UpdateWrite, RemoveDelete, AdmDone
    <3> QED BY <3>1 DEF AdmWork
  <2> QED BY <2>1, <2>2 DEF AdmStep
<1>4. AdmsWork' < AdmsWork
  BY <1>2, <1>3
<1> QED BY <1>2, <1>4, OnePartFalls DEF Work

(* Every step that an instance or the broker takes of its own accord leaves*)
(* less work than there was, whatever the calls and faults before it: no   *)
(* retry, redelivery or second copy can keep the pipeline going by itself. *)
THEOREM PipelineRunsOut == Spec => WorkShrinks
<1> DEFINE OwnStep == \/ \E r \in Requests : CallStep(r)
                      \/ \E h \in Handlers : Delivery(h) \/ HandlerStep(h)
                      \/ \E a \in Admins : AdmStep(a)
           Inv == TypeOK /\ BackoffAllowed
<1>1. Init => Inv
  BY InitType DEF Init, BackoffAllowed, Idle
<1>2. Inv /\ [Next]_vars => Inv'
  BY TypeStep, BackoffStep
<1>3. Inv /\ [Next]_vars => [OwnStep => Work' < Work]_vars
  BY <1>2, CallStepShrinks, DeliveryShrinks, HandlerStepShrinks, AdmStepShrinks
<1> QED BY <1>1, <1>2, <1>3, PTL DEF Spec, WorkShrinks

-----------------------------------------------------------------------------
(* Where the work has run out.                                             *)

LEMMA WorkParts ==
    ASSUME TypeOK
    PROVE  /\ QueuedWork \in Nat /\ HandlersWork \in Nat
           /\ CallsWork \in Nat /\ AdmsWork \in Nat
           /\ \A e \in Event : QueuedWork >= ready[e] * Ahead(e.retries)
           /\ \A h \in Handlers : HandlersWork >= HandlerWork(h)
           /\ \A r \in Requests : CallsWork >= CallWork(r)
<1> DEFINE queued == [f \in Event |-> ready[f] * Ahead(f.retries)]
           handled == [h \in Handlers |-> HandlerWork(h)]
           called == [r \in Requests |-> CallWork(r)]
           administered == [a \in Admins |-> AdmWork(a)]
<1>1. queued \in [Event -> Nat]
  <2>1. \A f \in Event : ready[f] \in Nat /\ Ahead(f.retries) \in Nat
    BY AheadType DEF TypeOK
  <2>2. \A m, n \in Nat : m * n \in Nat
    OBVIOUS
  <2> QED BY <2>1, <2>2
<1>2. handled \in [Handlers -> Nat]
  BY HandlerWorkNow DEF HandlerWorks, HandlerWorkIs
<1>3. called \in [Requests -> Nat] /\ administered \in [Admins -> Nat]
  BY CallWorkType, AdmWorkType
<1>4. /\ QueuedWork = Total(queued) /\ HandlersWork = Total(handled)
      /\ CallsWork = Total(called) /\ AdmsWork = Total(administered)
  BY DEF QueuedWork, HandlersWork, CallsWork, AdmsWork
<1>5. /\ \A e \in Event : queued[e] = ready[e] * Ahead(e.retries)
      /\ \A h \in Handlers : handled[h] = HandlerWork(h)
      /\ \A r \in Requests : called[r] = CallWork(r)
  OBVIOUS
<1> HIDE DEF queued, handled, called, administered
<1>6. /\ Total(queued) \in Nat /\ Total(handled) \in Nat
      /\ Total(called) \in Nat /\ Total(administered) \in Nat
  BY <1>1, <1>2, <1>3, EventsFinite, HandlersAssumption, CallsAssumption, TotalType
<1>7. /\ \A e \in Event : Total(queued) >= queued[e]
      /\ \A h \in Handlers : Total(handled) >= handled[h]
      /\ \A r \in Requests : Total(called) >= called[r]
  BY <1>1, <1>2, <1>3, EventsFinite, HandlersAssumption, CallsAssumption, TotalAtLeast
<1> QED BY <1>4, <1>5, <1>6, <1>7

(* Then no event is queued, no handler busy and no call before its emit.   *)
LEMMA NothingLeft ==
    ASSUME TypeOK, Work = 0
    PROVE  /\ \A e \in Event : ready[e] = 0
           /\ \A h \in Handlers : ~Busy(h)
           /\ \A r \in Requests : call[r].pc # "emit"
<1>1. QueuedWork = 0 /\ HandlersWork = 0 /\ CallsWork = 0
  BY WorkParts DEF Work
<1>2. ASSUME NEW e \in Event, ready[e] # 0
      PROVE  FALSE
  <2>1. ready[e] \in Nat /\ Ahead(e.retries) \in Nat /\ Ahead(e.retries) # 0
    BY AheadType DEF TypeOK
  <2>2. \A m, n \in Nat \ {0} : m * n > 0
    OBVIOUS
  <2>3. ready[e] * Ahead(e.retries) > 0
    BY <1>2, <2>1, <2>2
  <2> QED BY <1>1, <2>1, <2>3, WorkParts
<1>3. ASSUME NEW h \in Handlers, Busy(h)
      PROVE  FALSE
  <2>1. hnd[h] \in Handler \ {Idle} /\ hnd[h].event \in Event
    BY <1>3, BusyHandler
  <2>2. HandlerWorkIs(h)
    BY HandlerWorkNow DEF HandlerWorks
  <2>3. HandlerWork(h) > 0
    <3>1. CASE hnd[h].pc = "republished"
      BY <2>2, <3>1 DEF HandlerWorkIs
    <3>2. CASE hnd[h].pc # "republished"
      <4>1. ToGo(hnd[h].pc) \in 1 .. 7
        BY <2>1, <3>2 DEF Handler, ToGo
      <4>2. Ahead(hnd[h].event.retries + 1) \in Nat
        BY <2>1, AheadType
      <4>3. HandlerWork(h) = ToGo(hnd[h].pc) + Ahead(hnd[h].event.retries + 1)
        BY <1>3, <2>2, <3>2 DEF HandlerWorkIs, Busy
      <4> QED BY <4>1, <4>2, <4>3
    <3> QED BY <3>1, <3>2
  <2> QED BY <1>1, <2>2, <2>3, WorkParts DEF HandlerWorkIs
<1>4. ASSUME NEW r \in Requests, call[r].pc = "emit"
      PROVE  FALSE
  <2>1. CallWork(r) = Ahead(0) + 2 /\ Ahead(0) \in Nat
    BY <1>4, CallWorkType DEF CallWork
  <2> QED BY <1>1, <2>1, WorkParts
<1> QED BY <1>2, <1>3, <1>4

(* Only a fault makes the event of a request disappear.                    *)
OutagesAreFaults == stranded # {} => faults > 0

LEMMA OutageStep ==
    TypeOK /\ OutagesAreFaults /\ [Next]_vars => OutagesAreFaults'
<1> SUFFICES ASSUME TypeOK, OutagesAreFaults, [Next]_vars, stranded' # {}
             PROVE  faults' > 0
  BY DEF OutagesAreFaults
<1>1. faults' \in Nat /\ faults' >= faults /\ faults \in Nat
  BY FaultsGrow DEF TypeOK
<1>2. CASE UNCHANGED stranded
  BY <1>1, <1>2 DEF OutagesAreFaults
<1>3. CASE Fault
  BY <1>1, <1>3 DEF Fault
<1>4. CASE Environment
  <2>1. UNCHANGED stranded \/ Fault
    BY <1>4 DEF Environment, ProducerDrop, CallFails, EmitLost, DbFails, AdmFails,
                Drop, Crash, BrokerRestart
  <2> QED BY <1>2, <1>3, <2>1
<1>5. CASE ~Environment
  <2>1. UNCHANGED stranded
    BY <1>5 DEF Next, vars, CallStep, Delivery, HandlerStep, AdmStep, Submit,
         CheckOverlap, Insert, Emit, Confirm, Deliver, Find, Skip, AckSaved, AckInTry,
         Decide, Write, Catch, Republish, AckRetried, UpdateFind, UpdateReload,
         UpdateWrite, RemoveFind, RemoveDelete
  <2> QED BY <1>2, <2>1
<1> QED BY <1>4, <1>5

(* With PipelineRunsOut: of its own accord the pipeline takes finitely many*)
(* steps, and where it has none left to take, every request is decided,    *)
(* in an administrator's hands, parked after as many faults as it has      *)
(* attempts, or lost to an outage.  Without a fault it is decided.         *)
THEOREM PipelineRestsSettled == Spec => []RestIsSettled
<1>1. Init => OutagesAreFaults
  BY DEF Init, OutagesAreFaults
<1>2. Spec => []OutagesAreFaults
  BY <1>1, OutageStep, TypeCorrect, PTL DEF Spec
<1>3. TypeOK /\ OutagesAreFaults /\ NoSilentStall /\ DeadLetterEarned => RestIsSettled
  <2> SUFFICES ASSUME TypeOK, OutagesAreFaults, NoSilentStall, DeadLetterEarned,
                      Work = 0, NEW r \in Requests \ edited,
                      row[r].status = "PENDING"
               PROVE  \/ Parked(r) /\ faults >= MaxAttempts
                      \/ r \in stranded /\ faults > 0
    BY DEF RestIsSettled
  <2>1. CASE r \in stranded
    BY <2>1 DEF OutagesAreFaults
  <2>2. CASE r \notin stranded
    <3>1. Parked(r)
      BY <2>2, NothingLeft DEF NoSilentStall, Queued, InHand, Holds
    <3>2. PICK e \in Event : e.req = r /\ dlq[e] > 0
      BY <3>1 DEF Parked
    <3> QED BY <3>1, <3>2 DEF DeadLetterEarned
  <2> QED BY <2>1, <2>2
<1> QED BY <1>2, <1>3, TypeCorrect, NothingStallsSilently, DeadLettersAreEarned, PTL
=============================================================================
