--------------------------- MODULE CodingSessions ---------------------------
(***************************************************************************)
(* TuxBridge's coding sessions (src/src/sessions.rs) and the multi-file    *)
(* edit plan that feeds them (src/src/code_tools.rs), over the files of    *)
(* the workspaces.  The session store is guarded by one mutex; the files   *)
(* are guarded by nothing: a handler reads a file, compares its SHA-256    *)
(* with the one its client named and replaces it later, while other        *)
(* handlers, editors and build tools write the same directory.             *)
(*                                                                         *)
(* One action is one critical section on the store or one file operation.  *)
(* A SHA-256 is represented by the content it is the digest of.            *)
(***************************************************************************)
EXTENDS Naturals, Sequences, FiniteSets, FiniteSetsExt

CONSTANTS
    Workspaces,     \* configured workspaces
    Readable,       \* those whose capabilities include fs_read
    Writable,       \* those whose capabilities include fs_write
    Files,          \* regular files, by canonical path relative to the root
    Names,          \* every relative path a client may spell ("a", "./a")
    FileOf,         \* the file a spelling resolves to
    Rank,           \* the byte order of names, which BTreeMap iterates in
    Contents,       \* what a file can hold
    ContentsOf,     \* what the clients and tools of one workspace write
    Size,           \* length of a content in bytes
    Absent,         \* the value of a file that does not exist
    NoEntry,        \* stands for "the session does not track this name"
    Requests,       \* handler invocations that can be in flight at once
    MaxSessions,    \* MAX_SESSIONS
    MaxFiles,       \* MAX_FILES_PER_SESSION
    MaxBytes,       \* MAX_SNAPSHOT_BYTES
    MaxPaths,       \* bound: paths in one request (the code allows 64 or 128)
    SessionBound    \* bound: sessions created between two restarts

ASSUME NamesAssumption ==
    /\ Files \subseteq Names
    /\ FileOf \in [Names -> Files]
    /\ \A f \in Files : FileOf[f] = f
    /\ Rank \in [Names -> Nat]
    /\ \A m, n \in Names : Rank[m] = Rank[n] => m = n

ASSUME ContentsAssumption ==
    /\ ContentsOf \in [Workspaces -> SUBSET Contents]
    /\ Size \in [Contents -> Nat]
    /\ Absent \notin Contents
    /\ NoEntry \notin [before : Contents, after : Contents]
    /\ NoEntry \notin Contents

ASSUME LimitsAssumption ==
    /\ Readable \subseteq Workspaces
    /\ Writable \subseteq Workspaces
    /\ IsFiniteSet(Names)
    /\ MaxSessions \in Nat /\ MaxFiles \in Nat /\ MaxBytes \in Nat
    /\ MaxPaths \in Nat /\ SessionBound \in Nat

VARIABLES
    disk,       \* disk[w][f]: what file f of workspace w holds
    sessions,   \* the session store; a session's id is its position
    req,        \* the handler invocations in flight
    fresh       \* history: files a request verified that nobody wrote since

vars == <<disk, sessions, req, fresh>>

-----------------------------------------------------------------------------
(* The session store.                                                      *)

Entry == [before : Contents, after : Contents]

Status == {"Active", "Finalized", "RolledBack"}

SessionRecord == [workspace : Workspaces, status : Status,
                  files : [Names -> Entry \cup {NoEntry}], bytes : Nat]

Tracked(files) == {n \in Names : files[n] # NoEntry}

ActiveSessions == {s \in DOMAIN sessions : sessions[s].status = "Active"}

NewSession(w) == [workspace |-> w, status |-> "Active",
                  files |-> [n \in Names |-> NoEntry], bytes |-> 0]

(* Mutant: the workspace of the request is not compared.                   *)
ValidSession_AnyWorkspace(s, w) ==
    s \in DOMAIN sessions /\ sessions[s].status = "Active"

(* validate_session, after the id has been looked up.                      *)
ValidSession(s, w) ==
    /\ s \in DOMAIN sessions
    /\ sessions[s].workspace = w
    /\ sessions[s].status = "Active"

(* Mutant: what the session already holds is not counted.                  *)
CanCapture_BytesAlone(s, w, n, c) ==
    /\ ValidSession(s, w)
    /\ \/ n \in Tracked(sessions[s].files)
       \/ /\ Cardinality(Tracked(sessions[s].files)) < MaxFiles
          /\ Size[c] <= MaxBytes

(* capture_change returns Ok for name n whose current content is c.        *)
CanCapture(s, w, n, c) ==
    /\ ValidSession(s, w)
    /\ \/ n \in Tracked(sessions[s].files)
       \/ /\ Cardinality(Tracked(sessions[s].files)) < MaxFiles
          /\ sessions[s].bytes + Size[c] <= MaxBytes

(* Mutant: a second capture replaces the before-image.                     *)
Captured_Overwrites(session, n, before, after) ==
    LET entry == [before |-> before, after |-> after]
    IN  IF n \in Tracked(session.files)
        THEN [session EXCEPT !.files[n] = entry]
        ELSE [session EXCEPT !.files[n] = entry, !.bytes = @ + Size[before]]

(* Mutant: the new content is kept in place of the old one.                *)
Captured_NewImage(session, n, before, after) ==
    IF n \in Tracked(session.files)
    THEN [session EXCEPT !.files[n].after = after]
    ELSE [session EXCEPT !.files[n] = [before |-> after, after |-> after],
                         !.bytes = @ + Size[after]]

(* The record capture_change leaves: a name already tracked keeps its      *)
(* before-image and only moves the hash expected on disk.                  *)
Captured(session, n, before, after) ==
    IF n \in Tracked(session.files)
    THEN [session EXCEPT !.files[n].after = after]
    ELSE [session EXCEPT !.files[n] = [before |-> before, after |-> after],
                         !.bytes = @ + Size[before]]

-----------------------------------------------------------------------------
(* Handler invocations.                                                    *)

NoSession == 0

Item == [name : Files, expected : Contents, original : Contents,
         updated : Contents]

Phase == {"idle", "preflight", "capture", "write", "read", "checkpoint",
          "refresh", "verify", "restore", "commit"}

Request == [pc : Phase,
            ws : Workspaces \cup {NoSession},
            sess : Nat,                     \* the session named, if any
            names : Seq(Names),             \* the paths of the request
            k : Nat,                        \* how many this phase has handled
            plan : Seq(Item),               \* the prepared edits
            seen : Contents \cup {Absent},  \* what a checkpoint has read
            snap : [Names -> Entry \cup {NoEntry}],  \* a rollback's copy
            left : SUBSET Names]            \* names a rollback has to handle

Idle == [pc |-> "idle", ws |-> NoSession, sess |-> NoSession, names |-> <<>>,
         k |-> 0, plan |-> <<>>, seen |-> Absent,
         snap |-> [n \in Names |-> NoEntry], left |-> {}]

PathLists == UNION {[1..m -> Names] : m \in 1..MaxPaths}

(* Only a refresh keeps the mutex across several file operations.          *)
LockFree == \A q \in Requests : req[q].pc # "refresh"

(* The request returns: a response, an error, or a dropped connection.     *)
Finish(r) ==
    /\ req' = [req EXCEPT ![r] = Idle]
    /\ fresh' = [fresh EXCEPT ![r] = {}]

(* Request r has handled one more path of its phase; after the last one it *)
(* goes on to phase next.                                                  *)
Advance(r, total, next) ==
    IF req[r].k + 1 < total
    THEN [req[r] EXCEPT !.k = @ + 1]
    ELSE [req[r] EXCEPT !.k = 0, !.pc = next]

(* The history after somebody (r, or nobody known) wrote file f of w.      *)
Overwritten(r, w, f) ==
    [q \in Requests |-> IF q # r /\ req[q].ws = w THEN fresh[q] \ {f}
                                                  ELSE fresh[q]]

-----------------------------------------------------------------------------
Init ==
    /\ disk \in [Workspaces -> [Files -> Contents \cup {Absent}]]
    /\ \A w \in Workspaces, f \in Files :
          disk[w][f] \in ContentsOf[w] \cup {Absent}
    /\ sessions = <<>>
    /\ req = [r \in Requests |-> Idle]
    /\ fresh = [r \in Requests |-> {}]

(* POST /v1/code/sessions                                                  *)
CreateSession(w) ==
    /\ LockFree
    /\ w \in Readable
    /\ Cardinality(ActiveSessions) < MaxSessions
    /\ Len(sessions) < SessionBound
    /\ sessions' = Append(sessions, NewSession(w))
    /\ UNCHANGED <<disk, req, fresh>>

(* POST /v1/code/sessions/{id}/finalize                                    *)
Finalize(s) ==
    /\ LockFree
    /\ sessions[s].status = "Active"
    /\ sessions' = [sessions EXCEPT ![s].status = "Finalized"]
    /\ UNCHANGED <<disk, req, fresh>>

-----------------------------------------------------------------------------
(* POST /v1/code/edit-plan                                                 *)

(* Mutant: the precondition is not enforced.                               *)
HashMatches_Unchecked(expected, current) == TRUE

(* code_tools.rs compares the two digests, ignoring case.                  *)
HashMatches(expected, current) == expected = current

(* A session id is taken as the client gives it: it may be unknown, or     *)
(* belong to a session of another workspace.                               *)
EditPlan(r, w, s, names) ==
    /\ req[r].pc = "idle"
    /\ w \in Writable
    /\ req' = [req EXCEPT ![r] = [Idle EXCEPT !.pc = "preflight", !.ws = w,
                                              !.sess = s, !.names = names]]
    /\ UNCHANGED <<disk, sessions, fresh>>

(* The duplicate test is made on the canonical path.                       *)
NotYetPlanned(r, f) ==
    \A i \in 1..Len(req[r].plan) : req[r].plan[i].name # f

PreflightItem(r) ==
    /\ req[r].pc = "preflight"
    /\ LET w == req[r].ws
           f == FileOf[req[r].names[req[r].k + 1]]
           after == IF req[r].sess = NoSession THEN "write" ELSE "capture"
       IN  /\ disk[w][f] # Absent
           /\ NotYetPlanned(r, f)
           /\ \E expected, updated \in ContentsOf[w] :
                /\ HashMatches(expected, disk[w][f])
                /\ req' = [req EXCEPT ![r] =
                     [Advance(r, Len(req[r].names), after) EXCEPT
                        !.plan = Append(@, [name |-> f,
                                            expected |-> expected,
                                            original |-> disk[w][f],
                                            updated |-> updated])]]
           /\ fresh' = [fresh EXCEPT ![r] = @ \cup {f}]
    /\ UNCHANGED <<disk, sessions>>

(* Any of the preflight's checks fails (the client's hash and edits are    *)
(* unconstrained, so each can), or dry_run stops the plan before it acts.  *)
PreflightRefused(r) ==
    /\ req[r].pc = "preflight"
    /\ Finish(r)
    /\ UNCHANGED <<disk, sessions>>

CaptureItem(r) ==
    /\ req[r].pc = "capture"
    /\ LockFree
    /\ LET item == req[r].plan[req[r].k + 1]
           s == req[r].sess
       IN  /\ CanCapture(s, req[r].ws, item.name, item.original)
           /\ sessions' = [sessions EXCEPT ![s] =
                             Captured(@, item.name, item.original,
                                      item.updated)]
    /\ req' = [req EXCEPT ![r] = Advance(r, Len(req[r].plan), "write")]
    /\ UNCHANGED <<disk, fresh>>

(* Mutant: a refused capture does not stop the plan.                       *)
CaptureRefused_Ignored(r) ==
    /\ req[r].pc = "capture"
    /\ LockFree
    /\ LET item == req[r].plan[req[r].k + 1]
       IN  ~CanCapture(req[r].sess, req[r].ws, item.name, item.original)
    /\ req' = [req EXCEPT ![r] = Advance(r, Len(req[r].plan), "write")]
    /\ UNCHANGED <<disk, sessions, fresh>>

CaptureRefused(r) ==
    /\ req[r].pc = "capture"
    /\ LockFree
    /\ LET item == req[r].plan[req[r].k + 1]
       IN  ~CanCapture(req[r].sess, req[r].ws, item.name, item.original)
    /\ Finish(r)
    /\ UNCHANGED <<disk, sessions>>

(* atomic_write renames a finished temporary file over the target; it does *)
(* not look at what it replaces.                                           *)
WriteItem(r) ==
    /\ req[r].pc = "write"
    /\ LET item == req[r].plan[req[r].k + 1]
           next == Advance(r, Len(req[r].plan), "idle")
       IN  /\ disk' = [disk EXCEPT ![req[r].ws][item.name] = item.updated]
           /\ IF next.pc = "idle"
              THEN /\ req' = [req EXCEPT ![r] = Idle]
                   /\ fresh' = [Overwritten(r, req[r].ws, item.name)
                                  EXCEPT ![r] = {}]
              ELSE /\ req' = [req EXCEPT ![r] = next]
                   /\ fresh' = Overwritten(r, req[r].ws, item.name)
    /\ UNCHANGED sessions

(* A temporary file cannot be created, written, synced or renamed: the     *)
(* request ends with what it has replaced so far in place.                 *)
WriteFails(r) ==
    /\ req[r].pc \in {"write", "restore"}
    /\ Finish(r)
    /\ UNCHANGED <<disk, sessions>>

-----------------------------------------------------------------------------
(* POST /v1/code/sessions/{id}/checkpoint                                  *)

Checkpoint(r, s, names) ==
    /\ req[r].pc = "idle"
    /\ LockFree
    /\ sessions[s].workspace \in Readable
    /\ req' = [req EXCEPT ![r] = [Idle EXCEPT !.pc = "read",
                                              !.ws = sessions[s].workspace,
                                              !.sess = s, !.names = names]]
    /\ UNCHANGED <<disk, sessions, fresh>>

CheckpointRead(r) ==
    /\ req[r].pc = "read"
    /\ LET f == FileOf[req[r].names[req[r].k + 1]]
       IN  IF disk[req[r].ws][f] = Absent
           THEN Finish(r)
           ELSE /\ req' = [req EXCEPT ![r].pc = "checkpoint",
                                      ![r].seen = disk[req[r].ws][f]]
                /\ fresh' = [fresh EXCEPT ![r] = @ \cup {f}]
    /\ UNCHANGED <<disk, sessions>>

(* The entry is stored under the path as the client spelled it.            *)
CheckpointCapture(r) ==
    /\ req[r].pc = "checkpoint"
    /\ LockFree
    /\ LET n == req[r].names[req[r].k + 1]
           c == req[r].seen
           s == req[r].sess
           next == Advance(r, Len(req[r].names), "idle")
       IN  IF CanCapture(s, req[r].ws, n, c)
           THEN /\ sessions' = [sessions EXCEPT ![s] = Captured(@, n, c, c)]
                /\ IF next.pc = "idle"
                   THEN Finish(r)
                   ELSE /\ req' = [req EXCEPT ![r] =
                                    [next EXCEPT !.pc = "read",
                                                 !.seen = Absent]]
                        /\ UNCHANGED fresh
           ELSE /\ Finish(r)
                /\ UNCHANGED sessions
    /\ UNCHANGED disk

-----------------------------------------------------------------------------
(* POST /v1/code/sessions/{id}/refresh: the mutex is held from here to the *)
(* last path, while the files are read.                                    *)

Refresh(r, s, names) ==
    /\ req[r].pc = "idle"
    /\ LockFree
    /\ sessions[s].status = "Active"
    /\ req' = [req EXCEPT ![r] = [Idle EXCEPT !.pc = "refresh",
                                              !.ws = sessions[s].workspace,
                                              !.sess = s, !.names = names]]
    /\ UNCHANGED <<disk, sessions, fresh>>

(* Mutant: an error path returns without releasing the mutex.              *)
RefreshPath_KeepsLock(r) ==
    /\ req[r].pc = "refresh"
    /\ LET n == req[r].names[req[r].k + 1]
           s == req[r].sess
           current == disk[req[r].ws][FileOf[n]]
           next == Advance(r, Len(req[r].names), "idle")
       IN  /\ n \in Tracked(sessions[s].files) /\ current # Absent
           /\ sessions' = [sessions EXCEPT ![s].files[n].after = current]
           /\ req' = [req EXCEPT ![r] =
                        IF next.pc = "idle" THEN Idle ELSE next]
    /\ UNCHANGED <<disk, fresh>>

RefreshPath(r) ==
    /\ req[r].pc = "refresh"
    /\ LET n == req[r].names[req[r].k + 1]
           s == req[r].sess
           current == disk[req[r].ws][FileOf[n]]
           next == Advance(r, Len(req[r].names), "idle")
       IN  IF n \in Tracked(sessions[s].files) /\ current # Absent
           THEN /\ sessions' = [sessions EXCEPT ![s].files[n].after = current]
                /\ req' = [req EXCEPT ![r] =
                             IF next.pc = "idle" THEN Idle ELSE next]
           ELSE /\ req' = [req EXCEPT ![r] = Idle]
                /\ UNCHANGED sessions
    /\ UNCHANGED <<disk, fresh>>

-----------------------------------------------------------------------------
(* POST /v1/code/sessions/{id}/rollback                                    *)

(* The phase a rollback is in when the names in S remain to be handled.    *)
RollbackPhase(S, phase, next) == IF S = {} THEN next ELSE phase

(* The entries are copied out and the mutex is released; the session stays *)
(* active while the files are read and restored.                           *)
Rollback(r, s) ==
    /\ req[r].pc = "idle"
    /\ LockFree
    /\ sessions[s].status = "Active"
    /\ sessions[s].workspace \in Writable
    /\ LET all == Tracked(sessions[s].files)
       IN  req' = [req EXCEPT ![r] =
                     [Idle EXCEPT !.pc = RollbackPhase(all, "verify", "commit"),
                                  !.ws = sessions[s].workspace, !.sess = s,
                                  !.snap = sessions[s].files, !.left = all]]
    /\ UNCHANGED <<disk, sessions, fresh>>

First(n, S) == n \in S /\ \A m \in S : Rank[n] <= Rank[m]

(* Mutant: the recorded hash is not compared.                              *)
RollbackVerify_Unchecked(r) ==
    /\ req[r].pc = "verify"
    /\ \E n \in req[r].left :
         LET rest == req[r].left \ {n}
         IN  /\ First(n, req[r].left)
             /\ req' = [req EXCEPT
                  ![r].pc = RollbackPhase(rest, "verify", "restore"),
                  ![r].left = IF rest = {} THEN Tracked(req[r].snap)
                                           ELSE rest]
             /\ fresh' = [fresh EXCEPT ![r] = @ \cup {FileOf[n]}]
    /\ UNCHANGED <<disk, sessions>>

RollbackVerify(r) ==
    /\ req[r].pc = "verify"
    /\ \E n \in req[r].left :
         LET rest == req[r].left \ {n}
         IN  /\ First(n, req[r].left)
             /\ disk[req[r].ws][FileOf[n]] = req[r].snap[n].after
             /\ req' = [req EXCEPT
                  ![r].pc = RollbackPhase(rest, "verify", "restore"),
                  ![r].left = IF rest = {} THEN Tracked(req[r].snap)
                                           ELSE rest]
             /\ fresh' = [fresh EXCEPT ![r] = @ \cup {FileOf[n]}]
    /\ UNCHANGED <<disk, sessions>>

(* One file is missing or differs.  The code still reads the others, to    *)
(* name them in the error; then it refuses.                                *)
RollbackRefused(r) ==
    /\ req[r].pc = "verify"
    /\ \E n \in req[r].left :
         /\ First(n, req[r].left)
         /\ disk[req[r].ws][FileOf[n]] # req[r].snap[n].after
    /\ Finish(r)
    /\ UNCHANGED <<disk, sessions>>

(* Mutant: the last written version is put back, not the first.            *)
RollbackWrite_WrongImage(r) ==
    /\ req[r].pc = "restore"
    /\ \E n \in req[r].left :
         LET rest == req[r].left \ {n}
             f == FileOf[n]
         IN  /\ First(n, req[r].left)
             /\ disk' = [disk EXCEPT ![req[r].ws][f] = req[r].snap[n].after]
             /\ req' = [req EXCEPT
                  ![r].pc = RollbackPhase(rest, "restore", "commit"),
                  ![r].left = rest]
             /\ fresh' = Overwritten(r, req[r].ws, f)
    /\ UNCHANGED sessions

RollbackWrite(r) ==
    /\ req[r].pc = "restore"
    /\ \E n \in req[r].left :
         LET rest == req[r].left \ {n}
             f == FileOf[n]
         IN  /\ First(n, req[r].left)
             /\ disk' = [disk EXCEPT ![req[r].ws][f] = req[r].snap[n].before]
             /\ req' = [req EXCEPT
                  ![r].pc = RollbackPhase(rest, "restore", "commit"),
                  ![r].left = rest]
             /\ fresh' = Overwritten(r, req[r].ws, f)
    /\ UNCHANGED sessions

(* The status is set whatever it has become since the copy was taken.      *)
RollbackCommit(r) ==
    /\ req[r].pc = "commit"
    /\ LockFree
    /\ sessions' = [sessions EXCEPT ![req[r].sess].status = "RolledBack"]
    /\ Finish(r)
    /\ UNCHANGED disk

-----------------------------------------------------------------------------
(* The client goes away while its handler waits for the session mutex: the *)
(* future is dropped there and the rest of the handler never runs.         *)
Disconnect(r) ==
    /\ req[r].pc \in {"capture", "checkpoint", "commit"}
    /\ Finish(r)
    /\ UNCHANGED <<disk, sessions>>

(* TuxBridge restarts: the files survive, everything else is in memory.    *)
Restart ==
    /\ sessions' = <<>>
    /\ req' = [r \in Requests |-> Idle]
    /\ fresh' = [r \in Requests |-> {}]
    /\ UNCHANGED disk

(* A person, a build, a git command or another TuxBridge endpoint writes   *)
(* or deletes a file.                                                      *)
OutsideWrite(w, f, c) ==
    /\ disk' = [disk EXCEPT ![w][f] = c]
    /\ fresh' = [q \in Requests |-> IF req[q].ws = w THEN fresh[q] \ {f}
                                                     ELSE fresh[q]]
    /\ UNCHANGED <<sessions, req>>

-----------------------------------------------------------------------------
(* The next step of the handler that request r is running.                 *)
Step(r) ==
    \/ PreflightItem(r)   \/ PreflightRefused(r)
    \/ CaptureItem(r)     \/ CaptureRefused(r)
    \/ WriteItem(r)       \/ WriteFails(r)
    \/ CheckpointRead(r)  \/ CheckpointCapture(r)
    \/ RefreshPath(r)
    \/ RollbackVerify(r)  \/ RollbackRefused(r)
    \/ RollbackWrite(r)   \/ RollbackCommit(r)

Arrive(r) ==
    \/ \E w \in Workspaces, s \in 0..SessionBound, names \in PathLists :
          EditPlan(r, w, s, names)
    \/ \E s \in DOMAIN sessions, names \in PathLists :
          Checkpoint(r, s, names) \/ Refresh(r, s, names)
    \/ \E s \in DOMAIN sessions : Rollback(r, s)

TuxBridgeNext ==
    \/ \E r \in Requests : Arrive(r) \/ Step(r) \/ Disconnect(r)
    \/ \E w \in Workspaces : CreateSession(w)
    \/ \E s \in DOMAIN sessions : Finalize(s)
    \/ Restart

OutsideNext ==
    \E w \in Workspaces, f \in Files :
      \E c \in ContentsOf[w] \cup {Absent} : OutsideWrite(w, f, c)

Next == TuxBridgeNext \/ OutsideNext

Spec == Init /\ [][Next]_vars

(* A handler runs until it returns, and tokio's mutex serves its waiters   *)
(* in order, so a step that is enabled again and again is taken.           *)
FairSpec == Spec /\ \A r \in Requests : SF_vars(Step(r))

-----------------------------------------------------------------------------
(* Properties.                                                             *)

(* The types of the store, of the requests and of the files.               *)
TypeOK ==
    /\ disk \in [Workspaces -> [Files -> Contents \cup {Absent}]]
    /\ sessions \in Seq(SessionRecord)
    /\ req \in [Requests -> Request]
    /\ fresh \in [Requests -> SUBSET Files]

(* The sum of the lengths of the before-images a session keeps.            *)
SnapshotBytes(files) ==
    MapThenSumSet(LAMBDA n : Size[files[n].before], Tracked(files))

(* The three bounds of the store hold at every moment, however creations   *)
(* and captures interleave, and the byte counter that guards the third is  *)
(* exactly what the snapshots occupy (sessions.rs:11-13, 35-36).           *)
WithinLimits ==
    /\ Cardinality(ActiveSessions) <= MaxSessions
    /\ \A s \in DOMAIN sessions :
         /\ Cardinality(Tracked(sessions[s].files)) <= MaxFiles
         /\ sessions[s].bytes <= MaxBytes
         /\ sessions[s].bytes = SnapshotBytes(sessions[s].files)

(* Undo information is written ahead: when an edit plan that names a       *)
(* session starts to replace files, that session already holds a           *)
(* before-image of every file of the plan, and it is a session of the      *)
(* plan's own workspace (code_tools.rs:77 before :78).                     *)
WritesAreTracked ==
    \A r \in Requests :
      (req[r].pc = "write" /\ req[r].sess # NoSession) =>
         /\ req[r].sess \in DOMAIN sessions
         /\ sessions[req[r].sess].workspace = req[r].ws
         /\ \A i \in 1..Len(req[r].plan) :
              req[r].plan[i].name \in Tracked(sessions[req[r].sess].files)

(* An edit plan replaces the version its client named: until the moment    *)
(* its turn comes, each file of the plan that nobody has written since the *)
(* preflight holds exactly the content of expected_sha256.  What is left   *)
(* open is the window between the two (code_tools.rs:74-78).               *)
EditsHitNamedVersion ==
    \A r \in Requests :
      \A i \in 1..Len(req[r].plan) :
        LET item == req[r].plan[i]
            pending == req[r].pc # "write" \/ i > req[r].k
        IN  (pending /\ item.name \in fresh[r]) =>
               disk[req[r].ws][item.name] = item.expected

(* No two names that one rollback handles are spellings of one file.       *)
NoAlias(files) ==
    \A m, n \in Tracked(files) : FileOf[m] = FileOf[n] => m = n

(* A rollback begins to restore only when every tracked file was found to  *)
(* hold its recorded hash, and a file nobody wrote since then still holds  *)
(* it when its before-image is put back (sessions.rs:54).                  *)
RollbackHitsRecordedVersion ==
    \A r \in Requests :
      (req[r].pc = "restore" /\ NoAlias(req[r].snap)) =>
        \A n \in req[r].left :
           FileOf[n] \in fresh[r] =>
              disk[req[r].ws][FileOf[n]] = req[r].snap[n].after

(* A session is marked rolled back only after all its files were restored: *)
(* at that point each file nobody else has written since it was verified   *)
(* holds its before-image (sessions.rs:54).                                *)
RollbackRestoresAll ==
    \A r \in Requests :
      (req[r].pc = "commit" /\ NoAlias(req[r].snap)) =>
        \A n \in Tracked(req[r].snap) :
           FileOf[n] \in fresh[r] =>
              disk[req[r].ws][FileOf[n]] = req[r].snap[n].before

(* Bytes never cross workspaces: no file and no snapshot of a workspace    *)
(* ever holds content that belongs to another, whatever session id a       *)
(* client passes (validate_session, sessions.rs:42).                       *)
WorkspacesIsolated ==
    /\ \A w \in Workspaces, f \in Files :
          disk[w][f] \in ContentsOf[w] \cup {Absent}
    /\ \A s \in DOMAIN sessions :
         \A n \in Tracked(sessions[s].files) :
            /\ sessions[s].files[n].before \in ContentsOf[sessions[s].workspace]
            /\ sessions[s].files[n].after \in ContentsOf[sessions[s].workspace]

(* When a name starts to be tracked, its before-image is what the file     *)
(* holds at that moment, unless somebody wrote the file after the request  *)
(* verified or read it (sessions.rs:36-37, code_tools.rs:77).              *)
FirstImageIsCurrent ==
    [][\A r \in Requests :
         (CaptureItem(r) \/ CheckpointCapture(r)) =>
           \A n \in Names :
             LET s == req[r].sess
                 f == FileOf[n]
             IN  (/\ s \in DOMAIN sessions
                  /\ n \in Tracked(sessions'[s].files)
                  /\ n \notin Tracked(sessions[s].files)
                  /\ f \in fresh[r])
                 => sessions'[s].files[n].before = disk[req[r].ws][f]]_vars

(* The store seen as the log of before-images it promises to be.           *)
Undo == INSTANCE UndoLog WITH
    NoImage <- NoEntry,
    log <- [s \in DOMAIN sessions |->
              [workspace |-> sessions[s].workspace,
               status |-> sessions[s].status,
               images |-> [n \in Names |->
                             IF n \in Tracked(sessions[s].files)
                             THEN sessions[s].files[n].before
                             ELSE NoEntry]]]

(* Sessions implement the bounded, append-only undo log: an image is added *)
(* once, only while the session is active and below its limit, and is      *)
(* never changed by a later edit, checkpoint, refresh or rollback.         *)
UndoRefinement == Undo!Spec

(* Every request comes to an end, however the session mutex is contended.  *)
RequestsEnd == \A r \in Requests : []<>(req[r].pc = "idle")

-----------------------------------------------------------------------------
(* Statements of the documentation that the code does not keep.            *)

(* CODING_ENVIRONMENT.md:66: if a human or another process changed a file  *)
(* after the agent's last write, rollback aborts rather than overwriting   *)
(* newer work.                                                             *)
RollbackKeepsNewerWork ==
    [][\A r \in Requests : RollbackWrite(r) =>
         \A n \in req[r].left : First(n, req[r].left) =>
            disk[req[r].ws][FileOf[n]] = req[r].snap[n].after]_vars

=============================================================================
