-------------------------- MODULE MCCoroutineGroup --------------------------
(* Instances of CoroutineGroup: the driver creates the other threads. *)
EXTENDS CoroutineGroup

OnlyDriver == {Driver}

=============================================================================
