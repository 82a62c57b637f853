------------------------------ MODULE MCIntake -------------------------------
(* Intake on small sizes.                                                  *)
EXTENDS Intake, TLC
=============================================================================
