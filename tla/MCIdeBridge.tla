---------------------------- MODULE MCIdeBridge ----------------------------
(* A finite instance of IdeBridge: all its constants come from the cfg. *)
EXTENDS IdeBridge

=============================================================================
