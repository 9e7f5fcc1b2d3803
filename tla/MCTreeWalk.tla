----------------------------- MODULE MCTreeWalk -----------------------------
(***************************************************************************)
(* A small workspace for TreeWalk: a file that may be one nobody can read, *)
(* a link, a directory with a file in it that a link may replace, and a    *)
(* file with a name that references and the map leave out.                 *)
(***************************************************************************)
EXTENDS TreeWalk

MCNodes == {"file", "link", "src", "inner", "build"}

MCParent == [n \in MCNodes |-> IF n = "inner" THEN "src" ELSE "root"]

MCForms ==
    [file |-> {"once", "twice", "large", "sealed"},
     link |-> {"link"},
     src |-> {"dir"},
     inner |-> {"twice", "binary", "sealed", "link"},
     build |-> {"once", "twice"}]

MCHits == [once |-> 1, twice |-> 2, large |-> 1]

MCLimit == [kind \in Kinds |-> IF kind = "summary" THEN 3 ELSE 2]
=============================================================================
