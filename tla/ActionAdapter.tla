----------------------------- MODULE ActionAdapter -----------------------------
(***************************************************************************)
(* SafeActionAdapter (shared/actions.py): what one call of execute(),      *)
(* activate_fail_safe() or rollback() makes of an adapter.  Every caller   *)
(* in the program holds run.state_lock, so that a call is one step; what   *)
(* can still go wrong inside it is a parameter:                            *)
(*   works   the handler finishes (FALSE: ActionExecutionError)            *)
(*   late    when the deadline passes: never, before the handler's own     *)
(*           checkpoint, or after the effect and before the final one      *)
(*   lost    which audit event the sink refuses: none, one that precedes   *)
(*           the handler, or the last of the call                          *)
(***************************************************************************)
EXTENDS TLC, FiniteSets, Naturals

Lateness == {"never", "before", "after"}
Losses   == {"none", "first", "last"}

Statuses == {"dry_run", "executed", "failed", "timed_out"}
Replies  == Statuses \union {"denied", "raised"}

\* results: what _store() keeps of an idempotency key (_executions holds those
\* that were executed); stopped: whether the run is in _stopped_runs.
NewAdapter == [results |-> <<>>, stopped |-> FALSE]

Known(adapter, request) == request.key \in DOMAIN adapter.results

SamePrint(adapter, request) == adapter.results[request.key].print = request.print

\* The checks between the cache and the handler, each of which ends in _deny():
\* nothing is stored, so that a denied key may be used again.
Denied(adapter, definition, request, runState) ==
  \/ Known(adapter, request) /\ ~SamePrint(adapter, request)
  \/ adapter.stopped
  \/ runState \notin definition.states
  \/ request.role \notin definition.roles
  \/ request.target # definition.target

\* The status of an authorized execution; "applied" tells whether the handler's
\* effect stands, which a timed-out result does not tell.
Status(request, works, late) ==
  CASE request.dry       -> "dry_run"
    [] late = "before"   -> "timed_out"
    [] ~works            -> "failed"
    [] late = "after"    -> "timed_out"
    [] OTHER             -> "executed"

Applied(request, works, late) == ~request.dry /\ works /\ late # "before"

Stored(adapter, request, status) ==
  [adapter EXCEPT
     !.results = [key \in DOMAIN adapter.results \union {request.key} |->
                    IF key = request.key THEN [print |-> request.print, status |-> status]
                    ELSE adapter.results[key]]]

\* The keys whose execution may be rolled back.
Executed(adapter) ==
  {key \in DOMAIN adapter.results : adapter.results[key].status = "executed"}

\* execute().  The result is stored before the last event is written: a caller
\* that sees an exception finds it again under the same key.
Execute(adapter, definition, request, runState, works, late, lost) ==
  LET answer(reply, cached, next, applied) ==
        [reply   |-> IF lost = "last" THEN "raised" ELSE reply, cached |-> cached,
         adapter |-> next, applied |-> applied]
      status == Status(request, works, late)
  IN CASE lost = "first" ->
            [reply |-> "raised", cached |-> FALSE, adapter |-> adapter, applied |-> FALSE]
       [] Known(adapter, request) /\ SamePrint(adapter, request) ->
            answer(adapter.results[request.key].status, TRUE, adapter, FALSE)
       [] Denied(adapter, definition, request, runState) ->
            answer("denied", FALSE, adapter, FALSE)
       [] OTHER ->
            answer(status, FALSE, Stored(adapter, request, status),
                   Applied(request, works, late))

\* What goes wrong in a call, to bound it.
FaultsOf(late, lost) ==
  (IF late = "never" THEN 0 ELSE 1) + (IF lost = "none" THEN 0 ELSE 1)

Successful(outcome) == outcome.reply \in {"executed", "dry_run"}

\* activate_fail_safe() marks the run before it writes its event.
FailSafe(adapter) == [adapter EXCEPT !.stopped = TRUE]
===============================================================================
