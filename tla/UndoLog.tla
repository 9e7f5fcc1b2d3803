------------------------------ MODULE UndoLog ------------------------------
(***************************************************************************)
(* What TuxBridge's coding sessions promise, without saying how: a session *)
(* is a bounded, append-only log of before-images.  A file's before-image  *)
(* is recorded while the session is active, once, and is never altered;    *)
(* a session that is finalized or rolled back tracks nothing more.  The    *)
(* store is in memory, so a restart forgets every session at once.         *)
(* CodingSessions implements this module (see UndoRefinement there).       *)
(***************************************************************************)
EXTENDS Naturals, Sequences, FiniteSets

CONSTANTS Workspaces,   \* the configured workspaces
          Names,        \* the relative paths a session may track
          Contents,     \* what a file may hold
          NoImage,      \* stands for "this name is not tracked"
          MaxFiles      \* MAX_FILES_PER_SESSION

VARIABLE log            \* the sessions, in the order they were created

Tracked(images) == {n \in Names : images[n] # NoImage}

Init == log = <<>>

Open(w) ==
    log' = Append(log, [workspace |-> w, status |-> "Active",
                        images |-> [n \in Names |-> NoImage]])

Record(s, n, c) ==
    /\ log[s].status = "Active"
    /\ n \notin Tracked(log[s].images)
    /\ Cardinality(Tracked(log[s].images)) < MaxFiles
    /\ log' = [log EXCEPT ![s].images[n] = c]

(* A rollback that overlaps a finalize settles the session last, so the    *)
(* promise leaves open which of the two final statuses remains.            *)
Settle(s, outcome) ==
    /\ outcome \in {"Finalized", "RolledBack"}
    /\ outcome = "Finalized" => log[s].status = "Active"
    /\ log' = [log EXCEPT ![s].status = outcome]

Forget == log' = <<>>

Next ==
    \/ \E w \in Workspaces : Open(w)
    \/ \E s \in DOMAIN log :
         \/ \E n \in Names, c \in Contents : Record(s, n, c)
         \/ \E outcome \in {"Finalized", "RolledBack"} : Settle(s, outcome)
    \/ Forget

Spec == Init /\ [][Next]_log
=============================================================================
