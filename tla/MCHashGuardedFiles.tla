------------------------- MODULE MCHashGuardedFiles -------------------------
(* Finite constants for HashGuardedFiles.                                  *)
EXTENDS HashGuardedFiles, TLC

CONSTANTS r1, r2, f1, short, long

Symmetry == Permutations(Clients)

ReadWrite == [a \in Areas |-> {"read", "write"}]

(* A bounded read of the long content shows the short one.                 *)
PrefixValue == [c \in Contents |-> short]

(* The patch fits the short content only, the node is in the long one.     *)
EditedValue == [o \in EditOps |-> IF o = "patch" THEN short :> long ELSE long :> short]
=============================================================================
