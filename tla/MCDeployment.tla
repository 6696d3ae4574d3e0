---------------------------- MODULE MCDeployment ----------------------------
(* Deployment for TLC: every constant is an ordinary value a .cfg gives.    *)
EXTENDS Deployment

=============================================================================
