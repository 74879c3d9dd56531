---------------------------- MODULE MC_IBSession ----------------------------
(* Instances of IBSession for TLC. *)
EXTENDS IBSession

=============================================================================
