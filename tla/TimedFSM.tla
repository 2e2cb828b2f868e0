------------------------------ MODULE TimedFSM ------------------------------
(***************************************************************************)
(* FSM with a history variable that tells the behaviours in which a start   *)
(* delay has ended before an earlier goroutine of the config was past       *)
(* RegisterClient.                                                          *)
(***************************************************************************)
EXTENDS FSM

VARIABLE late  \* a step was not one of TimedNext

LateInit == Init /\ late = FALSE

LateNext == Next /\ late' = (late \/ ~DelayOutlastsDial)

LateSpec == LateInit /\ [][LateNext]_<<vars, late>> /\ Fairness

\* As long as the delay outlasts the dial the observer has the client of every
\* goroutine that serves a config (observer.go:51, scheduler.go:207).
VisibleInTime == late \/ ActiveClientsVisible

=============================================================================
