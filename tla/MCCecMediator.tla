--------------------------- MODULE MCCecMediator ---------------------------
(* Small instances of CecMediator for TLC.                                  *)
EXTENDS CecMediator, TLC

(* Every call the framework can make.                                      *)
AnyCall == AllOperations

Symmetry == Permutations(Callers) \cup Permutations(Addresses)
              \cup Permutations(LogicalAddresses)
=============================================================================
