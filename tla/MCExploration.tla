---------------------------- MODULE MCExploration ---------------------------
(***************************************************************************)
(* Settings of Config for model checking Exploration: an unlimited search  *)
(* with a reload of the library in each execution, the same with -k, which *)
(* cancels the threads, -f1 without a reload, and an uncontrolled run of   *)
(* two executions.                                                         *)
(***************************************************************************)
EXTENDS Exploration

Given(r, k, u, f) == [reload |-> r, cancel |-> k, uncontrolled |-> u, first |-> f]

AllSettings == {Given(TRUE, FALSE, FALSE, -1), Given(TRUE, TRUE, FALSE, -1),
                Given(FALSE, FALSE, FALSE, 1), Given(TRUE, FALSE, TRUE, 2)}
=============================================================================
