---------------------------- MODULE MCMailQueue ----------------------------
(***************************************************************************)
(* MailQueue for TLC: one order of two tickets.                            *)
(***************************************************************************)
EXTENDS MailQueue

CONSTANTS b1, t1, t2

OneBatch == [t \in {t1, t2} |-> b1]
=============================================================================
