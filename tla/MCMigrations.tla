---------------------------- MODULE MCMigrations ----------------------------
(***************************************************************************)
(* All nine migrations, with the values that decide whether one can be     *)
(* undone and one harmless value per enum.                                 *)
(***************************************************************************)
EXTENDS Migrations

SomeValues == {"USER", "EVENT_CREATOR", "PENDING", "CANCELLED", "EXPIRED", "VALID", "row"}
=============================================================================
