------------------------------- MODULE PortalRun -------------------------------
(***************************************************************************)
(* What the portal's workflows share: the run they are scoped to and the   *)
(* ledger they append to.  Every handler of DashboardService holds         *)
(* run.state_lock and is one step; what is left to chance is whether an    *)
(* append is stored (dashboard/service.py, shared/events.py).              *)
(***************************************************************************)
EXTENDS Naturals, Sequences, FiniteSets, TLC

CONSTANTS MaxRuns,        \* bound: runs of an exercise
          MaxMishaps,     \* bound: appends that raise
          None            \* null

ASSUME PortalAssumption == MaxRuns \in Nat \ {0} /\ MaxMishaps \in Nat

VARIABLES run,            \* run_id, numbered
          play,           \* controller.state; "live" is running or paused, and
                          \* completed is "stopped"
          intact,         \* the sequencer equals the ledger's length (see RunLedger)
          mishaps         \* how many appends have raised

portalVars == <<run, play, intact, mishaps>>

PortalInit == run = 1 /\ play = "ready" /\ intact = TRUE /\ mishaps = 0

\* The sequence number is taken before the event is built and stored: an append
\* that raises has stored its event ("kept") or leaves a gap ("lost").
Outcomes == {"ok", "kept", "lost"}

Stored(outcome) == outcome # "lost"

Appending(outcome) ==
  /\ intact' = (intact /\ Stored(outcome))
  /\ mishaps' = mishaps + (IF outcome = "ok" THEN 0 ELSE 1)
  /\ mishaps' <= MaxMishaps

StartPlay == play = "ready" /\ play' = "live" /\ UNCHANGED <<run, intact, mishaps>>

EndPlay == play = "live" /\ play' = "stopped" /\ UNCHANGED <<run, intact, mishaps>>

\* _reset_run(): only after play, and only with a ledger that can be archived.
NextRun ==
  /\ play = "stopped" /\ intact /\ run < MaxRuns
  /\ run' = run + 1 /\ play' = "ready"
  /\ UNCHANGED <<intact, mishaps>>
===============================================================================
