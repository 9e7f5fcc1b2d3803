-------------------------- MODULE MCCodingSessions --------------------------
(***************************************************************************)
(* Finite values for the constants of CodingSessions.                      *)
(***************************************************************************)
EXTENDS CodingSessions, TLC

CONSTANTS w1, w2, c1, c2, c3, r1, r2, absent, noEntry

(* Canonical names come after "./a" in byte order, '.' being below 'a'.    *)
OneName == {"a"}
PlainNames == {"a", "b"}
AliasNames == {"./a", "a"}

MCFileOf == [n \in Names |-> IF n = "./a" THEN "a" ELSE n]
MCRank == [n \in Names |-> CASE n = "./a" -> 0 [] n = "a" -> 1
                         [] OTHER -> 2]

(* One workspace: everybody writes anything.                               *)
SharedContents == [w \in Workspaces |-> Contents]
(* Two workspaces with no content in common.                               *)
SeparateContents == [w \in Workspaces |-> IF w = w1 THEN {c1, c2} ELSE {c3}]

UnitSize == [c \in Contents |-> 1]
(* c1 is an empty file.                                                    *)
MixedSize == [c \in Contents |-> IF c = c1 THEN 0 ELSE 2]

RequestSymmetry == Permutations({r1, r2})
=============================================================================
