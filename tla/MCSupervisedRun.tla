---------------------------- MODULE MCSupervisedRun ---------------------------
(***************************************************************************)
(* A run of one challenge and the end item, for SupervisedRun.             *)
(***************************************************************************)
EXTENDS SupervisedRun

OneChallenge   == <<1>>
Denial         == {"denied"}
Nobody         == {}
UnreliableSink == BOOLEAN
===============================================================================
