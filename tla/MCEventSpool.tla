------------------------------ MODULE MCEventSpool ------------------------------
(***************************************************************************)
(* Instances of EventSpool for TLC.                                        *)
(***************************************************************************)
EXTENDS EventSpool, TLC

CONSTANTS p1, p2, a, b, x
TwoPublishers == {p1, p2}
OnePublisher  == {p1}
OneRun  == {a}
TwoRuns == {a, b}
AnotherExercise == {x}
NoOtherExercise == {}
OneBody   == {1}
TwoBodies == {1, 2}
Symmetric == Permutations(TwoPublishers)
================================================================================
