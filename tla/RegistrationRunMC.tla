-------------------------- MODULE RegistrationRunMC -------------------------
(* Values of the constants of RegistrationRun for TLC.                       *)
EXTENDS RegistrationRun

CONSTANTS w1, w2

MCWorkers == {w1, w2}
=============================================================================
