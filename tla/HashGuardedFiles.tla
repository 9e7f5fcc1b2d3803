-------------------------- MODULE HashGuardedFiles --------------------------
(***************************************************************************)
(* The operations of TuxBridge that change one file: create, replace and   *)
(* patch in a workspace (src/src/mutation.rs) and in a mount of user files *)
(* (src/src/user_files.rs), and the replacement of a syntax node           *)
(* (src/src/structural.rs).  No lock protects a file: handlers run in      *)
(* parallel with each other and with editors, builds, Git and the other    *)
(* parts of TuxBridge.  Each handler checks the file first, prepares a     *)
(* temporary file next to it and renames that over it; one action below is *)
(* one system call.  Any of them may fail, and TuxBridge or the whole      *)
(* machine may stop at any moment.                                         *)
(***************************************************************************)
EXTENDS Naturals, FiniteSets

CONSTANTS
    Clients,    \* connections that send requests, one at a time
    Files,      \* regular files; a workspace and a mount can share them
    Contents,   \* what a file can hold; a digest stands for its content
    Grants,     \* Grants[a]: what the configuration allows in area a
    Prefix,     \* Prefix[c]: as much of c as a bounded read shows
    Edited,     \* Edited[o]: what an edit makes of the contents it fits
    Absent,     \* no such file
    Partial     \* bytes of which some may be missing

Areas == {"workspace", "mount"}

EditOps == {"patch", "node"}

ASSUME ContentsAssumption ==
    /\ Absent \notin Contents /\ Partial \notin Contents /\ Absent # Partial
    /\ Absent \notin Files

ASSUME OperatorsAssumption ==
    /\ Grants \in [Areas -> SUBSET {"read", "write"}]
    /\ Prefix \in [Contents -> Contents]
    /\ \A o \in EditOps : /\ DOMAIN Edited[o] \subseteq Contents
                          /\ \A c \in DOMAIN Edited[o] : Edited[o][c] \in Contents

VARIABLES
    disk,       \* the content of each file
    mode,       \* the permissions of each file
    req,        \* what a client's handler is doing, with its locals
    temp,       \* the handler's temporary file
    shown,      \* the last text a client read in a mount, with its sha256
    unsynced,   \* files whose bytes have not reached the medium
    fresh,      \* history: clients whose handler has verified its file, on
                \* which nobody has laid hands since
    winners     \* history: whose create of a file succeeded since the file
                \* last was absent

vars == <<disk, mode, req, temp, shown, unsynced, fresh, winners>>

-----------------------------------------------------------------------------
Ops == {"create", "replace"} \cup EditOps

Modes == {"private", "shared"}     \* a temporary file is created private

Phase == {"exists", "read", "mode", "open", "write", "sync", "chmod", "persist"}

Request == [pc : Phase, op : Ops, file : Files, expected : Contents,
            content : Contents, mode : Modes]

Idle == [pc |-> "idle"]

Temp == [content : Contents \cup {Absent, Partial}, mode : Modes,
         synced : BOOLEAN]

NoTemp == [content |-> Absent, mode |-> "private", synced |-> FALSE]

Answer == [file : Files, content : Contents, sha256 : Contents]

NoAnswer == [file |-> Absent]

At(r, pc) == req[r].pc = pc

Target(r) == disk[req[r].file]

(* The clients whose handlers are at work on a file.                       *)
Working(f) == {r \in Clients : ~At(r, "idle") /\ req[r].file = f}

Goto(r, pc) ==
    /\ req' = [req EXCEPT ![r].pc = pc]
    /\ UNCHANGED <<disk, mode, shown, unsynced, winners>>

-----------------------------------------------------------------------------
Init ==
    /\ disk \in [Files -> Contents \cup {Absent}]
    /\ mode = [f \in Files |-> "shared"]
    /\ req = [r \in Clients |-> Idle]
    /\ temp = [r \in Clients |-> NoTemp]
    /\ shown = [r \in Clients |-> NoAnswer]
    /\ unsynced = {}
    /\ fresh = {}
    /\ winners = [f \in Files |-> {}]

-----------------------------------------------------------------------------
(* Requests.  A request that the configuration refuses, or whose path does *)
(* not resolve to a regular file inside its area, leaves no trace.         *)

Begin(r, op, pc, f, expected, content) ==
    /\ At(r, "idle")
    /\ req' = [req EXCEPT ![r] = [pc |-> pc, op |-> op, file |-> f,
                                  expected |-> expected, content |-> content,
                                  mode |-> "private"]]
    /\ UNCHANGED <<disk, mode, temp, shown, unsynced, fresh, winners>>

(* POST /v1/fs/write: an existing file is replaced only if the request     *)
(* names its digest, a new one is created only where there is none.        *)
WriteFile(r, area) ==
    /\ "write" \in Grants[area]
    /\ \E f \in Files, c \in Contents :
          \/ Begin(r, "create", "exists", f, c, c)
          \/ \E e \in Contents : Begin(r, "replace", "exists", f, e, c)

(* POST /v1/fs/patch                                                       *)
PatchFile(r, area) ==
    /\ "write" \in Grants[area]
    /\ \E f \in Files, e \in Contents :
          disk[f] # Absent /\ Begin(r, "patch", "read", f, e, e)

WorkspaceRequest(r) == WriteFile(r, "workspace") \/ PatchFile(r, "workspace")

MountRequest(r) == WriteFile(r, "mount") \/ PatchFile(r, "mount")

(* POST /v1/code/replace-node                                              *)
ReplaceNode(r) ==
    /\ {"read", "write"} \subseteq Grants["workspace"]
    /\ \E f \in Files, e \in Contents :
          disk[f] # Absent /\ Begin(r, "node", "read", f, e, e)

(* Mutant: the digest of the whole file beside the text that fits.         *)
Read_WholeDigest(c) == [content |-> Prefix[c], sha256 |-> c]

(* A bounded read answers with what fits and the digest of just that.      *)
Read(c) == [content |-> Prefix[c], sha256 |-> Prefix[c]]

(* POST /v1/user-files/read                                                *)
ReadFile(r) ==
    /\ At(r, "idle")
    /\ "read" \in Grants["mount"]
    /\ \E f \in Files :
          /\ disk[f] \in Contents
          /\ shown' = [shown EXCEPT ![r] =
                [file |-> f, content |-> Read(disk[f]).content,
                 sha256 |-> Read(disk[f]).sha256]]
    /\ UNCHANGED <<disk, mode, req, temp, unsynced, fresh, winners>>

-----------------------------------------------------------------------------
(* The checks                                                              *)

(* The handler answers; its temporary file is removed when it is dropped.  *)
Dropped(r) ==
    /\ req' = [req EXCEPT ![r] = Idle]
    /\ temp' = [temp EXCEPT ![r] = NoTemp]
    /\ fresh' = fresh \ {r}

FindTarget(r) ==
    /\ At(r, "exists")
    /\ IF req[r].op = "create"
       THEN Target(r) = Absent /\ Goto(r, "open")
       ELSE Target(r) # Absent /\ Goto(r, "read")
    /\ UNCHANGED <<temp, fresh>>

FindTargetRefused(r) ==
    /\ At(r, "exists")
    /\ (req[r].op = "create") # (Target(r) = Absent)
    /\ Dropped(r)
    /\ UNCHANGED <<disk, mode, shown, unsynced, winners>>

(* The file is what the request says it is, and an edit fits it once.      *)
Current(r) ==
    /\ Target(r) = req[r].expected
    /\ req[r].op \in EditOps => Target(r) \in DOMAIN Edited[req[r].op]

(* What the file is to hold.                                               *)
Updated(r) ==
    IF req[r].op \in EditOps THEN Edited[req[r].op][Target(r)]
    ELSE req[r].content

Verify(r) ==
    /\ At(r, "read")
    /\ Current(r)
    /\ req' = [req EXCEPT ![r].pc = "mode", ![r].content = Updated(r)]
    /\ fresh' = fresh \cup {r}
    /\ UNCHANGED <<disk, mode, temp, shown, unsynced, winners>>

VerifyRefused(r) ==
    /\ At(r, "read")
    /\ ~Current(r)
    /\ Dropped(r)
    /\ UNCHANGED <<disk, mode, shown, unsynced, winners>>

Permissions(r) ==
    /\ At(r, "mode")
    /\ Target(r) # Absent
    /\ req' = [req EXCEPT ![r].pc = "open", ![r].mode = mode[req[r].file]]
    /\ UNCHANGED <<disk, mode, temp, shown, unsynced, fresh, winners>>

-----------------------------------------------------------------------------
(* atomic_write                                                            *)

OpenTemp(r) ==
    /\ At(r, "open")
    /\ temp' = [temp EXCEPT ![r] =
          [content |-> Partial, mode |-> "private", synced |-> FALSE]]
    /\ Goto(r, "write")
    /\ UNCHANGED fresh

WriteTemp(r) ==
    /\ At(r, "write")
    /\ temp' = [temp EXCEPT ![r].content = req[r].content]
    /\ Goto(r, "sync")
    /\ UNCHANGED fresh

(* Mutant: the bytes stay in the cache of the operating system.            *)
SyncTemp_Skipped(r) ==
    /\ At(r, "sync")
    /\ Goto(r, IF req[r].op = "create" THEN "persist" ELSE "chmod")
    /\ UNCHANGED <<temp, fresh>>

SyncTemp(r) ==
    /\ At(r, "sync")
    /\ temp' = [temp EXCEPT ![r].synced = TRUE]
    /\ Goto(r, IF req[r].op = "create" THEN "persist" ELSE "chmod")
    /\ UNCHANGED fresh

(* Mutant: a replaced file keeps the permissions of the temporary one.     *)
ChmodTemp_Skipped(r) ==
    /\ At(r, "chmod")
    /\ Goto(r, "persist")
    /\ UNCHANGED <<temp, fresh>>

ChmodTemp(r) ==
    /\ At(r, "chmod")
    /\ temp' = [temp EXCEPT ![r].mode = req[r].mode]
    /\ Goto(r, "persist")
    /\ UNCHANGED fresh

(* Mutant: creating renames like replacing does.                           *)
Clobbers_Always(r) == TRUE

(* persist replaces whatever is there, persist_noclobber nothing.          *)
Clobbers(r) == req[r].op # "create"

Persist(r) ==
    /\ At(r, "persist")
    /\ Clobbers(r) \/ Target(r) = Absent
    /\ LET f == req[r].file
       IN  /\ disk' = [disk EXCEPT ![f] = temp[r].content]
           /\ mode' = [mode EXCEPT ![f] = temp[r].mode]
           /\ unsynced' = IF temp[r].synced THEN unsynced \ {f}
                          ELSE unsynced \cup {f}
           /\ fresh' = fresh \ Working(f)
           /\ winners' = [winners EXCEPT ![f] =
                            IF req[r].op = "create" THEN @ \cup {r} ELSE @]
    /\ req' = [req EXCEPT ![r] = Idle]
    /\ temp' = [temp EXCEPT ![r] = NoTemp]
    /\ UNCHANGED shown

PersistRefused(r) ==
    /\ At(r, "persist")
    /\ ~Clobbers(r) /\ Target(r) # Absent
    /\ Dropped(r)
    /\ UNCHANGED <<disk, mode, shown, unsynced, winners>>

(* Every one of these calls can fail: the file is gone, the disk is full,  *)
(* the directory is not writable.                                          *)
Fail(r) ==
    /\ req[r].pc \in Phase \ {"exists"}
    /\ Dropped(r)
    /\ UNCHANGED <<disk, mode, shown, unsynced, winners>>

-----------------------------------------------------------------------------
(* Everybody else: editors, builds, Git, and the parts of TuxBridge that   *)
(* write files in other ways.                                              *)

OutsideWrite(f) ==
    /\ \E c \in Contents : disk' = [disk EXCEPT ![f] = c]
    /\ fresh' = fresh \ Working(f)
    /\ UNCHANGED <<mode, req, temp, shown, unsynced, winners>>

OutsideDelete(f) ==
    /\ disk' = [disk EXCEPT ![f] = Absent]
    /\ unsynced' = unsynced \ {f}
    /\ fresh' = fresh \ Working(f)
    /\ winners' = [winners EXCEPT ![f] = {}]
    /\ UNCHANGED <<mode, req, temp, shown>>

OutsideChmod(f) ==
    /\ \E m \in Modes : mode' = [mode EXCEPT ![f] = m]
    /\ fresh' = fresh \ Working(f)
    /\ UNCHANGED <<disk, req, temp, shown, unsynced, winners>>

(* TuxBridge stops and starts again, with or without the machine under it; *)
(* a stop of the machine costs the bytes that never reached the medium.  A *)
(* temporary file that is left in the directory is nobody's any more.      *)
Restart ==
    /\ req' = [r \in Clients |-> Idle]
    /\ temp' = [r \in Clients |-> NoTemp]
    /\ fresh' = {}
    /\ \E torn \in SUBSET unsynced :
          disk' = [f \in Files |-> IF f \in torn THEN Partial ELSE disk[f]]
    /\ UNCHANGED <<mode, shown, unsynced, winners>>

-----------------------------------------------------------------------------
Check(r) ==
    FindTarget(r) \/ FindTargetRefused(r) \/ Verify(r) \/ VerifyRefused(r)
        \/ Permissions(r)

AtomicWrite(r) ==
    OpenTemp(r) \/ WriteTemp(r) \/ SyncTemp(r) \/ ChmodTemp(r) \/ Persist(r)
        \/ PersistRefused(r)

Handle(r) ==
    WorkspaceRequest(r) \/ MountRequest(r) \/ ReplaceNode(r) \/ ReadFile(r)
        \/ Check(r) \/ AtomicWrite(r) \/ Fail(r)

Outside(f) == OutsideWrite(f) \/ OutsideDelete(f) \/ OutsideChmod(f)

Next == (\E r \in Clients : Handle(r)) \/ (\E f \in Files : Outside(f)) \/ Restart

Spec == Init /\ [][Next]_vars

-----------------------------------------------------------------------------
(* Properties                                                              *)

(* Types; and a temporary file exists exactly as long as its handler is at *)
(* work on it, however the handler ends.                                   *)
TypeOK ==
    /\ disk \in [Files -> Contents \cup {Absent, Partial}]
    /\ mode \in [Files -> Modes]
    /\ req \in [Clients -> Request \cup {Idle}]
    /\ temp \in [Clients -> Temp]
    /\ shown \in [Clients -> Answer \cup {NoAnswer}]
    /\ unsynced \subseteq Files
    /\ fresh \subseteq Clients
    /\ winners \in [Files -> SUBSET Clients]
    /\ \A r \in Clients :
          (temp[r] # NoTemp) <=> (req[r].pc \in {"write", "sync", "chmod", "persist"})

(* However many clients create the same file at once, one of them succeeds *)
(* and the others are told so, until the file is deleted: persist_noclobber*)
(* decides, not the look at the directory before it.                       *)
OneCreateWins == \A f \in Files : Cardinality(winners[f]) <= 1

(* At no moment, whatever fails and whatever stops, does a file hold less  *)
(* than one whole version of itself: the bytes are written elsewhere and   *)
(* are on the medium before the name is (atomic_write).                    *)
WholeFiles == \A f \in Files : disk[f] # Partial

(* What replaces a file nobody else has touched since the handler verified *)
(* it was made from the version the client named, and the file's           *)
(* permissions stay (write_file, patch_file, replace_node).                *)
ReplacesNamedVersion ==
    [][\A r \in fresh : Persist(r) =>
          LET q == req[r]
          IN  /\ disk[q.file] = q.expected
              /\ mode'[q.file] = mode[q.file]
              /\ q.op \in EditOps => disk'[q.file] = Edited[q.op][q.expected]]_vars

(* A client that replaces what a read in a mount has shown it, by naming   *)
(* the sha256 it got with it, has seen all of what it replaces: a read     *)
(* that was cut short gives a digest that no such file can match.          *)
ReplacesOnlyWhatWasShown ==
    [][\A r \in fresh :
          /\ Persist(r)
          /\ req[r].file = shown[r].file
          /\ req[r].expected = shown[r].sha256
          => disk[req[r].file] = shown[r].content]_vars
=============================================================================
