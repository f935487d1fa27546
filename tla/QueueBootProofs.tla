--------------------------- MODULE QueueBootProofs ---------------------------
(* What is proved of QueueBoot for any replicas, messages and faults.      *)
EXTENDS QueueBoot, TLAPS

(* The binding is there for every replica that made it, or saw it made, at *)
(* the broker there is now.                                                *)
Bound ==
    \A p \in Replicas :
        pc[p] = "queue" \/ (Booted(p) /\ p \notin outlived) => broker.bound

(* The queue of the old release is gone before anybody has booted.         *)
NoOldQueue == \A p \in Replicas : Booted(p) => broker.queue # "plain"

(* Whatever a replica has declared on its way is still there.              *)
Declared ==
    \A p \in Replicas :
        /\ pc[p] \in {"deadQueue", "bind"} => broker.dlx
        /\ pc[p] = "bind" => broker.dlq

Inv == TypeOK /\ Bound /\ NoOldQueue /\ Declared

LEMMA InitInv == Init => Inv
<1> SUFFICES ASSUME Init PROVE Inv
  OBVIOUS
<1>1. broker \in [dlx : {FALSE}, dlq : {FALSE}, bound : {FALSE},
                  queue : {"none", "plain"}]
  <2>1. CASE broker = Blank
    BY <2>1 DEF Blank
  <2>2. CASE broker = [Blank EXCEPT !.queue = "plain"]
    BY <2>2 DEF Blank
  <2> QED BY <2>1, <2>2 DEF Init
<1>2. TypeOK
  <2>1. 0 \in 0 .. RetryAttempts - 1
    BY RetryAssumption
  <2> QED BY <1>1, <2>1, FaultsAssumption DEF Init, TypeOK, Asserting
<1>3. Bound /\ NoOldQueue /\ Declared
  BY DEF Init, Bound, NoOldQueue, Declared, Booted
<1> QED BY <1>2, <1>3 DEF Inv

LEMMA BootInv ==
    ASSUME Inv, NEW p \in Replicas, BootStep(p)
    PROVE  Inv'
<1> USE DEF Inv, TypeOK, Bound, NoOldQueue, Declared, Booted, Asserting, Advance, Quit,
            Compatible, WithQueue
<1>1. CASE Start(p)
  BY <1>1 DEF Start
<1>2. CASE AssertExchange(p)
  BY <1>2 DEF AssertExchange
<1>3. CASE AssertDeadQueue(p)
  BY <1>3 DEF AssertDeadQueue
<1>4. CASE BindQueue(p)
  <2>1. CASE broker.dlx /\ broker.dlq
    BY <1>4, <2>1 DEF BindQueue
  <2>2. CASE ~(broker.dlx /\ broker.dlq)
    BY <1>4, <2>2 DEF BindQueue
  <2> QED BY <2>1, <2>2
<1>5. CASE AssertQueue(p)
  BY <1>5 DEF AssertQueue
<1>6. CASE Listen(p)
  <2>1. Compatible
    BY <1>6 DEF Listen
  <2>2. TypeOK'
    BY <1>6, <2>1 DEF Listen
  <2>3. broker'.bound = broker.bound /\ broker'.queue # "plain"
    BY <1>6, <2>1 DEF Listen
  <2>4. Bound' /\ NoOldQueue' /\ Declared'
    BY <1>6, <2>1, <2>3 DEF Listen
  <2> QED BY <2>2, <2>4
<1>7. CASE Serve(p)
  BY <1>7 DEF Serve
<1>8. CASE Reconnect(p)
  BY <1>8 DEF Reconnect
<1>9. CASE ConnectDatabase(p)
  BY <1>9, RetryAssumption DEF ConnectDatabase
<1> QED BY <1>1, <1>2, <1>3, <1>4, <1>5, <1>6, <1>7, <1>8, <1>9 DEF BootStep

LEMMA StepInv == Inv /\ [Next]_vars => Inv'
<1> SUFFICES ASSUME Inv, [Next]_vars PROVE Inv'
  OBVIOUS
<1> USE DEF Inv, TypeOK, Bound, NoOldQueue, Declared, Booted, Asserting, Advance
<1>1. ASSUME NEW p \in Replicas, Die(p) \/ Disconnect(p) PROVE Inv'
  BY <1>1, RetryAssumption DEF Die, Disconnect, Fault
<1>2. ASSUME NEW p \in Replicas, NEW m \in Messages, Publish(p, m) \/ GiveUp(p, m)
      PROVE  Inv'
  BY <1>2 DEF Publish, GiveUp, Compatible, WithQueue
<1>3. CASE BrokerReplaced
  BY <1>3 DEF BrokerReplaced, Blank, Fault
<1>4. CASE DeleteOldQueue
  BY <1>4 DEF DeleteOldQueue
<1>5. ASSUME NEW p \in Replicas, DatabaseRefuses(p) PROVE Inv'
  <2>1. refused[p] \in Nat /\ refused' \in [Replicas -> 0 .. RetryAttempts - 1]
    BY <1>5, RetryAssumption DEF DatabaseRefuses
  <2>2. pc' = [pc EXCEPT ![p] = "down"] \/ UNCHANGED pc
    BY <1>5 DEF DatabaseRefuses, Quit
  <2> QED BY <1>5, <2>1, <2>2 DEF DatabaseRefuses, Fault
<1>6. CASE UNCHANGED vars
  BY <1>6 DEF vars
<1> QED BY <1>1, <1>2, <1>3, <1>4, <1>5, <1>6, BootInv DEF Next

LEMMA Invariance == Spec => []Inv
BY InitInv, StepInv, PTL DEF Spec

(* Every variable of every reachable state has its type, and nobody        *)
(* consumes from a queue that does not dead-letter.                        *)
THEOREM BootTypeCorrect == Spec => []TypeOK
<1>1. Inv => TypeOK
  BY DEF Inv
<1> QED BY <1>1, Invariance, PTL

(* A message is discarded only when every replica that is up booted before *)
(* the broker was replaced.                                                *)
THEOREM DeadLettersReachTheQueue == Spec => DiscardNeedsReplacement
<1> DEFINE Discard ==
             \A m \in Messages :
                 msg[m] # "discarded" /\ msg'[m] = "discarded"
                 => linked # {} /\ \A p \in Replicas : Booted(p) => p \in outlived
<1>1. Inv /\ [Next]_vars => [Discard]_vars
  <2> SUFFICES ASSUME Inv, Next, NEW m \in Messages,
                      msg[m] # "discarded", msg'[m] = "discarded"
               PROVE  linked # {} /\ \A p \in Replicas : Booted(p) => p \in outlived
    OBVIOUS
  <2>1. PICK p \in Replicas, n \in Messages : GiveUp(p, n)
    BY DEF Next, BootStep, Start, AssertExchange, AssertDeadQueue, BindQueue,
           AssertQueue, Listen, Serve, Reconnect, ConnectDatabase, DatabaseRefuses,
           Die, Disconnect, Publish, BrokerReplaced, DeleteOldQueue, Inv, TypeOK
  <2>2. p \in linked /\ ~(broker.bound /\ broker.queue = "deadLettering")
    BY <2>1 DEF GiveUp, Inv, TypeOK
  <2> QED BY <2>2 DEF Inv, TypeOK, Bound
<1> QED BY <1>1, Invariance, PTL DEF Spec, DiscardNeedsReplacement

(* However many replicas boot at once, none is refused what it asserts on  *)
(* account of the others.                                                  *)
THEOREM BootsDoNotCollide == Spec => BootFailsForCause
<1> DEFINE Cause ==
             \A p \in Replicas :
                 pc[p] # "down" /\ pc'[p] = "down"
                 => \/ faults' > faults
                    \/ pc[p] = "queue" /\ broker.queue = "plain"
<1>1. Inv /\ [Next]_vars => [Cause]_vars
  <2> SUFFICES ASSUME Inv, Next, NEW p \in Replicas,
                      pc[p] # "down", pc'[p] = "down"
               PROVE  \/ faults' > faults
                      \/ pc[p] = "queue" /\ broker.queue = "plain"
    OBVIOUS
  <2>1. ASSUME Fault PROVE faults' > faults
    BY <2>1 DEF Fault, Inv, TypeOK
  <2>2. ASSUME NEW q \in Replicas, BootStep(q)
        PROVE  pc[p] = "queue" /\ broker.queue = "plain"
    <3>1. (BindQueue(q) /\ ~(broker.dlx /\ broker.dlq))
             \/ (AssertQueue(q) /\ ~Compatible)
             \/ (Listen(q) /\ ~Compatible)
      BY <2>2 DEF BootStep, Start, ConnectDatabase, AssertExchange, AssertDeadQueue,
                  BindQueue, AssertQueue, Listen, Serve, Reconnect, Advance, Inv, TypeOK
    <3>2. ~BindQueue(q) \/ (broker.dlx /\ broker.dlq)
      BY DEF BindQueue, Inv, Declared
    <3>3. ~Listen(q) \/ Compatible
      BY DEF Listen, Compatible, Inv, NoOldQueue, Booted
    <3>4. AssertQueue(q) /\ ~Compatible
      BY <3>1, <3>2, <3>3
    <3>5. q = p
      BY <3>4 DEF AssertQueue, Quit, Advance, Inv, TypeOK
    <3> QED BY <3>4, <3>5 DEF AssertQueue, Compatible
  <2>3. CASE UNCHANGED pc
    BY <2>3
  <2>4. CASE \E q \in Replicas : DatabaseRefuses(q) \/ Die(q) \/ Disconnect(q)
    BY <2>1, <2>4 DEF DatabaseRefuses, Die, Disconnect
  <2>5. CASE BrokerReplaced
    BY <2>1, <2>5 DEF BrokerReplaced
  <2> QED BY <2>2, <2>3, <2>4, <2>5 DEF Next, Publish, GiveUp, DeleteOldQueue
<1> QED BY <1>1, Invariance, PTL DEF Spec, BootFailsForCause
=============================================================================
