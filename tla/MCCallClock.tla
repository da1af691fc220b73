----------------------------- MODULE MCCallClock -----------------------------
(* Small instances of CallClock for TLC.                                   *)
EXTENDS CallClock

(* The context has no deadline of its own, or one at two thirds.           *)
MCDeadlines == {Budget, (2 * Budget) \div 3}
=============================================================================
