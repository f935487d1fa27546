--------------------------- MODULE MCLeaveHistory ---------------------------
(* The instances of MCLeavePipeline, for LeaveHistory.                     *)
EXTENDS MCLeavePipeline, LeaveHistory
=============================================================================
