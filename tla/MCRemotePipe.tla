---------------------------- MODULE MCRemotePipe ----------------------------
(* Instances of RemotePipe. *)
EXTENDS RemotePipe

=============================================================================
