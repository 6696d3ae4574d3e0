--------------------------- MODULE MCSetupInstall ---------------------------
(* SetupInstall for TLC: every constant is an ordinary value a .cfg gives.   *)
EXTENDS SetupInstall

=============================================================================
