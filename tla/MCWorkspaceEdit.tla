--------------------------- MODULE MCWorkspaceEdit ---------------------------
(* Finite constants for WorkspaceEdit.                                     *)
EXTENDS WorkspaceEdit, TLC

CONSTANTS h1, f1, f2, old, new

(* Two spellings of one file, another file, and one that is none.          *)
ResolvedValue == <<f1, f2, f1, Outside>>

UriOfValue == f1 :> 1 @@ f2 :> 2

(* An edit of the old text makes the new one, and garbles the new text; an *)
(* edit of the new text does nothing to it, and does not fit the old one.  *)
FitValue == old :> (old :> new @@ new :> old) @@ new :> (new :> new)

(* The pipe holds the new text beside another message, and the old text    *)
(* not even alone.                                                         *)
SizeValue == new :> 1 @@ old :> 3
=============================================================================
