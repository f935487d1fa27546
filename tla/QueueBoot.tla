------------------------------ MODULE QueueBoot ------------------------------
(***************************************************************************)
(* How the replicas bring the message broker into the state the leave      *)
(* pipeline relies on.  Each replica connects to MySQL, asserts the        *)
(* dead-letter exchange, the dead-letter queue, the binding between them   *)
(* and the main queue, one after the other, then starts its consumer, then *)
(* its HTTP server.                                                        *)
(* Several replicas boot at once, die and are restarted; the broker may    *)
(* still hold the queue of a release without dead-lettering, and may be    *)
(* replaced by an empty one while replicas run.                            *)
(***************************************************************************)
EXTENDS Naturals

CONSTANTS
    Replicas,   \* the instances of the application
    Messages,   \* the messages that will exhaust their retries
    RetryAttempts, \* how often a boot tries to reach MySQL
    MaxFaults   \* how many faults the environment may inject

ASSUME RetryAssumption == RetryAttempts \in Nat \ {0}
ASSUME FaultsAssumption == MaxFaults \in Nat

VARIABLES
    broker,     \* what has been declared at the broker
    pc,         \* where each replica is in bootstrap
    refused,    \* how often MySQL has refused each replica's boot
    linked,     \* replicas whose consumer has an open channel
    outlived,   \* replicas that asserted the topology at a broker that has
                \* been replaced since, with no binding made again
    msg,        \* the messages
    faults      \* faults injected so far

vars == <<broker, pc, refused, linked, outlived, msg, faults>>

-----------------------------------------------------------------------------

Blank == [dlx |-> FALSE, dlq |-> FALSE, bound |-> FALSE, queue |-> "none"]

Asserting == {"exchange", "deadQueue", "bind", "queue"}
Booted(p) == pc[p] \in {"listen", "http", "serving"}

Advance(p, next) == pc' = [pc EXCEPT ![p] = next]

(* Seeded fault: the process of a failed boot lingers.                     *)
QuitNever(p) == Advance(p, "halted")

(* bootstrap().catch: the process exits, for the orchestrator to restart.  *)
Quit(p) == Advance(p, "down")

Fault == faults < MaxFaults /\ faults' = faults + 1

(* The broker refuses to redeclare a queue with other arguments.           *)
Compatible == broker.queue # "plain"
WithQueue == [broker EXCEPT !.queue = "deadLettering"]

-----------------------------------------------------------------------------
(* bootstrap.                                                              *)

(* Seeded fault: the consumer is started without the topology.             *)
StartListening(p) ==
    /\ pc[p] = "down"
    /\ Advance(p, "listen")
    /\ UNCHANGED <<broker, refused, linked, outlived, msg, faults>>

Start(p) ==
    /\ pc[p] = "down"
    /\ Advance(p, "database")
    /\ UNCHANGED <<broker, refused, linked, outlived, msg, faults>>

(* NestFactory.create waits for the connection to MySQL.                   *)
ConnectDatabase(p) ==
    /\ pc[p] = "database"
    /\ Advance(p, "exchange")
    /\ refused' = [refused EXCEPT ![p] = 0]
    /\ UNCHANGED <<broker, linked, outlived, msg, faults>>

(* MySQL refuses: try again in three seconds, or give the boot up.         *)
DatabaseRefuses(p) ==
    /\ pc[p] = "database"
    /\ Fault
    /\ IF refused[p] + 1 < RetryAttempts
       THEN refused' = [refused EXCEPT ![p] = @ + 1] /\ UNCHANGED pc
       ELSE refused' = [refused EXCEPT ![p] = 0] /\ Quit(p)
    /\ UNCHANGED <<broker, linked, outlived, msg>>

(* Seeded fault: the dead-letter queue is bound without being asserted.    *)
AssertExchangeThenBind(p) ==
    /\ pc[p] = "exchange"
    /\ broker' = [broker EXCEPT !.dlx = TRUE]
    /\ Advance(p, "bind")
    /\ UNCHANGED <<refused, linked, outlived, msg, faults>>

AssertExchange(p) ==
    /\ pc[p] = "exchange"
    /\ broker' = [broker EXCEPT !.dlx = TRUE]
    /\ Advance(p, "deadQueue")
    /\ UNCHANGED <<refused, linked, outlived, msg, faults>>

AssertDeadQueue(p) ==
    /\ pc[p] = "deadQueue"
    /\ broker' = [broker EXCEPT !.dlq = TRUE]
    /\ Advance(p, "bind")
    /\ UNCHANGED <<refused, linked, outlived, msg, faults>>

(* Binding what is not there is refused and ends the boot.                 *)
BindQueue(p) ==
    /\ pc[p] = "bind"
    /\ IF broker.dlx /\ broker.dlq
       THEN /\ broker' = [broker EXCEPT !.bound = TRUE]
            /\ outlived' = {}
            /\ Advance(p, "queue")
       ELSE Quit(p) /\ UNCHANGED <<broker, outlived>>
    /\ UNCHANGED <<refused, linked, msg, faults>>

AssertQueue(p) ==
    /\ pc[p] = "queue"
    /\ IF Compatible THEN broker' = WithQueue /\ Advance(p, "listen")
                     ELSE Quit(p) /\ UNCHANGED broker
    /\ UNCHANGED <<refused, linked, outlived, msg, faults>>

(* startAllMicroservices: the consumer asserts the main queue, and nothing *)
(* else, on a connection of its own, and consumes.                         *)
Listen(p) ==
    /\ pc[p] = "listen"
    /\ IF Compatible
       THEN /\ broker' = WithQueue
            /\ linked' = linked \cup {p}
            /\ Advance(p, "http")
       ELSE Quit(p) /\ UNCHANGED <<broker, linked>>
    /\ UNCHANGED <<refused, outlived, msg, faults>>

Serve(p) ==
    /\ pc[p] = "http"
    /\ Advance(p, "serving")
    /\ UNCHANGED <<refused, broker, linked, outlived, msg, faults>>

-----------------------------------------------------------------------------
(* A running replica.                                                      *)

(* The consumer's connection manager opens a lost connection again and     *)
(* repeats the consumer's own setup.                                       *)
Reconnect(p) ==
    /\ pc[p] \in {"http", "serving"}
    /\ p \notin linked
    /\ Compatible
    /\ broker' = WithQueue
    /\ linked' = linked \cup {p}
    /\ UNCHANGED <<refused, pc, outlived, msg, faults>>

(* A request booked at p sends its event to the main queue.  The client has*)
(* a connection of its own, and asserts the queue on it before it sends.   *)
Publish(p, m) ==
    /\ pc[p] = "serving"
    /\ msg[m] = "unsent"
    /\ Compatible
    /\ broker' = WithQueue
    /\ msg' = [msg EXCEPT ![m] = "ready"]
    /\ UNCHANGED <<refused, pc, linked, outlived, faults>>

(* p nacks a message without requeue.  The queue's arguments send it to    *)
(* the exchange and the exchange to the DLQ it is bound to: to nowhere, if *)
(* there is no binding.                                                    *)
GiveUp(p, m) ==
    /\ p \in linked
    /\ msg[m] = "ready"
    /\ msg' = [msg EXCEPT ![m] =
                  IF broker.bound /\ broker.queue = "deadLettering"
                  THEN "parked" ELSE "discarded"]
    /\ UNCHANGED <<refused, broker, pc, linked, outlived, faults>>

-----------------------------------------------------------------------------
(* The environment.                                                        *)

(* A process dies, at any point.                                           *)
Die(p) ==
    /\ pc[p] # "down"
    /\ Fault
    /\ Advance(p, "down")
    /\ linked' = linked \ {p}
    /\ outlived' = outlived \ {p}
    /\ refused' = [refused EXCEPT ![p] = 0]
    /\ UNCHANGED <<broker, msg>>

(* The connection p is using drops: a topology setup that breaks off is    *)
(* repeated from its start, a consumer reconnects.                         *)
Disconnect(p) ==
    /\ pc[p] \in Asserting \/ p \in linked
    /\ Fault
    /\ pc' = [pc EXCEPT ![p] = IF @ \in Asserting THEN "exchange" ELSE @]
    /\ linked' = linked \ {p}
    /\ UNCHANGED <<refused, broker, outlived, msg>>

(* The broker's container is recreated: it has no volume.                  *)
BrokerReplaced ==
    /\ Fault
    /\ broker' = Blank
    /\ pc' = [p \in Replicas |-> IF pc[p] \in Asserting THEN "exchange"
                                 ELSE pc[p]]
    /\ linked' = {}
    /\ outlived' = {p \in Replicas : Booted(p)}
    /\ msg' = [m \in Messages |-> IF msg[m] \in {"ready", "parked"}
                                  THEN "gone" ELSE msg[m]]
    /\ UNCHANGED refused

(* The operator deletes the queue of the old release.                      *)
DeleteOldQueue ==
    /\ broker.queue = "plain"
    /\ broker' = [broker EXCEPT !.queue = "none"]
    /\ UNCHANGED <<refused, pc, linked, outlived, msg, faults>>

-----------------------------------------------------------------------------

(* A broker that is new, or left by the release before dead-lettering.     *)
Init ==
    /\ broker \in {Blank, [Blank EXCEPT !.queue = "plain"]}
    /\ pc = [p \in Replicas |-> "down"]
    /\ refused = [p \in Replicas |-> 0]
    /\ linked = {}
    /\ outlived = {}
    /\ msg = [m \in Messages |-> "unsent"]
    /\ faults = 0

BootStep(p) ==
    \/ Start(p) \/ ConnectDatabase(p) \/ AssertExchange(p) \/ AssertDeadQueue(p) \/ BindQueue(p)
    \/ AssertQueue(p) \/ Listen(p) \/ Serve(p) \/ Reconnect(p)

Next ==
    \/ \E p \in Replicas :
          BootStep(p) \/ DatabaseRefuses(p) \/ Die(p) \/ Disconnect(p)
    \/ \E p \in Replicas, m \in Messages : Publish(p, m) \/ GiveUp(p, m)
    \/ BrokerReplaced
    \/ DeleteOldQueue

Spec == Init /\ [][Next]_vars

(* The orchestrator restarts what has exited, the broker answers, and the  *)
(* operator does what the upgrade note of the README asks for.             *)
Fairness ==
    /\ \A p \in Replicas : WF_vars(BootStep(p))
    /\ WF_vars(DeleteOldQueue)

FairSpec == Spec /\ Fairness

-----------------------------------------------------------------------------
(* Properties.                                                             *)

(* Every variable holds a value of its type.  A binding has both its ends, *)
(* and only replicas that have finished their topology consume, from a     *)
(* queue that dead-letters.                                                *)
TypeOK ==
    /\ broker \in [dlx : BOOLEAN, dlq : BOOLEAN, bound : BOOLEAN,
                   queue : {"none", "plain", "deadLettering"}]
    /\ broker.bound => broker.dlx /\ broker.dlq
    /\ pc \in [Replicas -> Asserting \cup
                           {"down", "database", "listen", "http", "serving"}]
    /\ refused \in [Replicas -> 0 .. RetryAttempts - 1]
    /\ linked \subseteq {p \in Replicas : Booted(p)}
    /\ linked # {} => broker.queue = "deadLettering"
    /\ outlived \subseteq {p \in Replicas : Booted(p)}
    /\ msg \in [Messages -> {"unsent", "ready", "parked", "discarded", "gone"}]
    /\ faults \in Nat

(* A message that exhausted its retries is discarded, not parked, only when*)
(* every replica that is up booted before the broker was replaced: however *)
(* boots, deaths and lost connections interleave, one replica that booted  *)
(* since is enough to keep it.                                             *)
DiscardNeedsReplacement ==
    [][\A m \in Messages :
          msg[m] # "discarded" /\ msg'[m] = "discarded"
          => linked # {} /\ \A p \in Replicas : Booted(p) => p \in outlived]_vars

(* Replicas that assert the topology side by side never make each other's  *)
(* boot fail: one that ends before it serves met a fault, or the main queue*)
(* of the old release when it came to assert it.                           *)
BootFailsForCause ==
    [][\A p \in Replicas :
          pc[p] # "down" /\ pc'[p] = "down"
          => \/ faults' > faults
             \/ pc[p] = "queue" /\ broker.queue = "plain"]_vars

(* Once the faults are over every replica serves and consumes, upgrades    *)
(* from the release without dead-lettering included.                       *)
EventuallyServing ==
    <>[](\A p \in Replicas : pc[p] = "serving" /\ p \in linked)
=============================================================================
