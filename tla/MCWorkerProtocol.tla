-------------------------- MODULE MCWorkerProtocol --------------------------
(* WorkerProtocol for TLC; schemas are interchangeable.                     *)
EXTENDS WorkerProtocol, TLC

Symmetry == Permutations(Schemas)

=============================================================================
