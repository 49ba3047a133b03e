----------------------------- MODULE MCSessions -----------------------------
(***************************************************************************)
(* Sessions for TLC.  Users and requests are interchangeable; symmetry is  *)
(* left out because a liveness property is checked.                        *)
(***************************************************************************)
EXTENDS Sessions
=============================================================================
