---------------------------- MODULE MCScheduledMfa ----------------------------
(***************************************************************************)
(* A schedule for model-checking ScheduledMfa.  With Timeout = 2 and       *)
(* EndAt = 4 two challenges tie as the run starts, a third one comes due   *)
(* at their very deadline, and its own is the second of the end item; the  *)
(* reviewed scenario has 30, 90, 150 and a timeout of 30.                  *)
(***************************************************************************)
EXTENDS ScheduledMfa

TightSchedule  == <<0, 0, 2>>
AnyAnswer      == Decisions
UnreliableSink == BOOLEAN
===============================================================================
