---------------------------- MODULE MCRendezvous ----------------------------
(* Small instances of Rendezvous for TLC. *)
EXTENDS Rendezvous

\* Every kind of statement, in an order in which threads sleep, take and consume.
AllKinds == <<"choice", "forall", "through", "until", "exists">>
\* One transition, for the runs that need no more.
OneUntil == <<"until">>
=============================================================================
