-------------------------- MODULE MCSessionLifecycle --------------------------
(* A back buffer of one size: a set is built anew after one that failed. *)
EXTENDS SessionLifecycle

OneSize == {1}

=============================================================================
