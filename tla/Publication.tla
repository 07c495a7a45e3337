------------------------------ MODULE Publication ------------------------------
(***************************************************************************)
(* What the event spool promises to whoever monitors its directory: the    *)
(* durable publication is an append-only log of ledger rows.  An entry is  *)
(* a pair <<cursor, event>> of the SQLite rowid and the event; cursors     *)
(* grow, no event appears twice, and nothing that is durable is ever taken *)
(* back, whatever crashes.                                                 *)
(***************************************************************************)
EXTENDS Naturals

VARIABLE published  \* the entries that are certain to survive a power loss

\* No rowid and no event stands for two entries.
Once(entries) ==
  \A x, y \in entries : x # y => x[1] # y[1] /\ x[2] # y[2]

Init == published = {}

Publish ==
  /\ published \subseteq published'
  /\ \A x \in published' \ published, y \in published : x[1] > y[1]
  /\ Once(published')

Spec == Init /\ [][Publish]_published
================================================================================
