----------------------------- MODULE MCQueueBoot -----------------------------
(* A small instance of QueueBoot for TLC.                                  *)
EXTENDS QueueBoot
CONSTANTS p1, p2, p3, m1
=============================================================================
