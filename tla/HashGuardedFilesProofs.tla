----------------------- MODULE HashGuardedFilesProofs -----------------------
(***************************************************************************)
(* Proofs about HashGuardedFiles, for every set of clients, files and      *)
(* contents and every configuration.                                       *)
(*                                                                         *)
(* What a handler relies on when it renames its temporary file is spread   *)
(* over its earlier steps, so Local says for one client what its program   *)
(* counter vouches for: which temporary file exists, what is in it, and,   *)
(* while the client is fresh, what the target still is.  FilesInv adds     *)
(* that no file is at risk and that the winner of a create is alone.       *)
(***************************************************************************)
EXTENDS HashGuardedFiles, FiniteSetTheorems, TLAPS

Writing == {"write", "sync", "chmod", "persist"}

TypeInv ==
    /\ disk \in [Files -> Contents \cup {Absent, Partial}]
    /\ mode \in [Files -> Modes]
    /\ req \in [Clients -> Request \cup {Idle}]
    /\ temp \in [Clients -> Temp]
    /\ shown \in [Clients -> Answer \cup {NoAnswer}]
    /\ unsynced \subseteq Files
    /\ fresh \subseteq Clients
    /\ winners \in [Files -> SUBSET Clients]

(* What a handler has in its temporary file.                               *)
TempOf(r) ==
    /\ (temp[r] # NoTemp) <=> (req[r].pc \in Writing)
    /\ req[r].pc \in {"sync", "chmod", "persist"} =>
         temp[r].content = req[r].content
    /\ req[r].pc \in {"chmod", "persist"} => temp[r].synced = TRUE
    /\ req[r].pc = "persist" /\ req[r].op # "create" =>
         temp[r].mode = req[r].mode

(* Which operations get where.                                             *)
OpOf(r) ==
    /\ req[r].pc = "exists" => req[r].op \in {"create", "replace"}
    /\ req[r].pc \in {"read", "mode", "chmod"} => req[r].op # "create"

(* What is still true of the target of a client that is fresh.             *)
FreshOf(r) ==
    r \in fresh =>
      /\ req[r].pc \notin {"idle", "exists", "read"}
      /\ req[r].op # "create"
      /\ disk[req[r].file] = req[r].expected
      /\ req[r].pc # "mode" => req[r].mode = mode[req[r].file]
      /\ req[r].op \in EditOps =>
           req[r].content = Edited[req[r].op][req[r].expected]

Local(r) == TempOf(r) /\ OpOf(r) /\ FreshOf(r)

SafeFiles == unsynced = {} /\ WholeFiles

LoneWinner ==
    \A f \in Files : winners[f] # {} =>
        /\ disk[f] # Absent
        /\ \E r \in Clients : winners[f] = {r}

ShownDigest == \A r \in Clients : shown[r] # NoAnswer =>
                  shown[r].sha256 = shown[r].content

FilesInv ==
    /\ TypeInv
    /\ \A r \in Clients : Local(r)
    /\ SafeFiles
    /\ LoneWinner
    /\ ShownDigest

-----------------------------------------------------------------------------
(* Requests and their steps                                                *)

LEMMA ActiveRequest ==
    ASSUME TypeInv, NEW r \in Clients, req[r].pc # "idle"
    PROVE  req[r] \in Request
  BY DEF TypeInv, Idle

LEMMA IdleIsNoPhase == Idle.pc = "idle" /\ "idle" \notin Phase
  BY DEF Idle, Phase

(* A new program counter changes nothing else of a request.                *)
LEMMA GotoFacts ==
    ASSUME TypeInv, NEW r \in Clients, NEW pc \in Phase,
           req[r].pc # "idle",
           req' = [req EXCEPT ![r].pc = pc]
    PROVE  /\ req' \in [Clients -> Request \cup {Idle}]
           /\ \A q \in Clients \ {r} : req'[q] = req[q]
           /\ req'[r].pc = pc /\ req'[r].op = req[r].op
           /\ req'[r].file = req[r].file
           /\ req'[r].expected = req[r].expected
           /\ req'[r].content = req[r].content
           /\ req'[r].mode = req[r].mode
<1>1. req[r] \in Request
  BY ActiveRequest
<1>2. req \in [Clients -> Request \cup {Idle}]
  BY DEF TypeInv
<1>3. req'[r] = [req[r] EXCEPT !.pc = pc]
  BY <1>2
<1>4. [req[r] EXCEPT !.pc = pc] \in Request
  BY <1>1 DEF Request
<1>5. /\ req' \in [Clients -> Request \cup {Idle}]
      /\ \A q \in Clients \ {r} : req'[q] = req[q]
  BY <1>2, <1>4
<1>6. /\ req'[r].pc = pc /\ req'[r].op = req[r].op
      /\ req'[r].file = req[r].file
      /\ req'[r].expected = req[r].expected
      /\ req'[r].content = req[r].content
      /\ req'[r].mode = req[r].mode
  BY <1>1, <1>3 DEF Request
<1> QED
  BY <1>5, <1>6

(* A step of one handler that leaves the files alone preserves FilesInv    *)
(* when it preserves the handler's own part of it.                         *)
LEMMA LocalStep ==
    ASSUME FilesInv, NEW r \in Clients,
           UNCHANGED <<disk, mode, shown, unsynced, winners>>,
           req' \in [Clients -> Request \cup {Idle}],
           \A q \in Clients \ {r} : req'[q] = req[q],
           temp' \in [Clients -> Temp],
           \A q \in Clients \ {r} : temp'[q] = temp[q],
           fresh' \subseteq Clients,
           fresh' \ {r} = fresh \ {r},
           Local(r)'
    PROVE  FilesInv'
<1>1. TypeInv'
  BY DEF FilesInv, TypeInv
<1>2. ASSUME NEW q \in Clients, q # r
      PROVE  Local(q)'
  <2>1. Local(q) /\ req'[q] = req[q] /\ temp'[q] = temp[q]
    BY <1>2 DEF FilesInv
  <2>2. q \in fresh' <=> q \in fresh
    BY <1>2
  <2>3. TempOf(q)' /\ OpOf(q)'
    BY <2>1 DEF Local, TempOf, OpOf
  <2>4. FreshOf(q)'
    BY <2>1, <2>2 DEF Local, FreshOf
  <2> QED
    BY <2>3, <2>4 DEF Local
<1>3. \A q \in Clients : Local(q)'
  BY <1>2
<1>4. SafeFiles' /\ LoneWinner' /\ ShownDigest'
  BY DEF FilesInv, SafeFiles, WholeFiles, LoneWinner, ShownDigest
<1> QED
  BY <1>1, <1>3, <1>4 DEF FilesInv

(* A handler that ends without a rename.                                   *)
LEMMA DroppedInv ==
    ASSUME FilesInv, NEW r \in Clients, Dropped(r),
           UNCHANGED <<disk, mode, shown, unsynced, winners>>
    PROVE  FilesInv'
<1>1. /\ req' \in [Clients -> Request \cup {Idle}]
      /\ \A q \in Clients \ {r} : req'[q] = req[q]
      /\ req'[r] = Idle
  BY DEF Dropped, FilesInv, TypeInv
<1>2. /\ temp' \in [Clients -> Temp]
      /\ \A q \in Clients \ {r} : temp'[q] = temp[q]
      /\ temp'[r] = NoTemp
  BY DEF Dropped, FilesInv, TypeInv, Temp, NoTemp, Modes
<1>3. fresh' \subseteq Clients /\ fresh' \ {r} = fresh \ {r} /\ r \notin fresh'
  BY DEF Dropped, FilesInv, TypeInv
<1>4. Local(r)'
  BY <1>1, <1>2, <1>3, IdleIsNoPhase
     DEF Local, TempOf, OpOf, FreshOf, Writing
<1> QED
  BY <1>1, <1>2, <1>3, <1>4, LocalStep

-----------------------------------------------------------------------------
(* One lemma per action                                                    *)

LEMMA InitInv == Init => FilesInv
<1> SUFFICES ASSUME Init PROVE FilesInv
  OBVIOUS
<1>1. TypeInv
  BY DEF Init, TypeInv, Modes, Temp, NoTemp
<1>2. \A r \in Clients : Local(r)
  BY IdleIsNoPhase DEF Init, Local, TempOf, OpOf, FreshOf, Writing
<1>3. SafeFiles
  BY ContentsAssumption DEF Init, SafeFiles, WholeFiles
<1>4. LoneWinner /\ ShownDigest
  BY DEF Init, LoneWinner, ShownDigest
<1> QED
  BY <1>1, <1>2, <1>3, <1>4 DEF FilesInv

LEMMA BeginInv ==
    ASSUME FilesInv, NEW r \in Clients, NEW f \in Files,
           NEW e \in Contents, NEW c \in Contents, NEW op \in Ops,
           NEW pc \in {"exists", "read"},
           pc = "exists" => op \in {"create", "replace"},
           pc = "read" => op # "create",
           Begin(r, op, pc, f, e, c)
    PROVE  FilesInv'
<1>1. [pc |-> pc, op |-> op, file |-> f, expected |-> e, content |-> c,
       mode |-> "private"] \in Request
  BY DEF Request, Phase, Modes
<1>2. /\ req' \in [Clients -> Request \cup {Idle}]
      /\ \A q \in Clients \ {r} : req'[q] = req[q]
      /\ req'[r].pc = pc /\ req'[r].op = op
  BY <1>1 DEF Begin, FilesInv, TypeInv
<1>3. /\ temp[r] = NoTemp
      /\ r \notin fresh
  BY DEF Begin, At, FilesInv, Local, TempOf, FreshOf, Writing
<1>4. Local(r)'
  BY <1>2, <1>3 DEF Begin, Local, TempOf, OpOf, FreshOf, Writing
<1> QED
  BY <1>2, <1>4, LocalStep DEF Begin, FilesInv, TypeInv

LEMMA AreaInv ==
    ASSUME FilesInv, NEW r \in Clients, NEW area,
           WriteFile(r, area) \/ PatchFile(r, area)
    PROVE  FilesInv'
<1>1. CASE WriteFile(r, area)
  <2>1. PICK f \in Files, c \in Contents :
           \/ Begin(r, "create", "exists", f, c, c)
           \/ \E e \in Contents : Begin(r, "replace", "exists", f, e, c)
    BY <1>1 DEF WriteFile
  <2>2. "create" \in Ops /\ "replace" \in Ops
    BY DEF Ops
  <2>3. CASE Begin(r, "create", "exists", f, c, c)
    BY <2>2, <2>3, BeginInv
  <2>4. ASSUME NEW e \in Contents, Begin(r, "replace", "exists", f, e, c)
        PROVE  FilesInv'
    BY <2>2, <2>4, BeginInv
  <2> QED
    BY <2>1, <2>3, <2>4
<1>2. CASE PatchFile(r, area)
  <2>1. PICK f \in Files, e \in Contents : Begin(r, "patch", "read", f, e, e)
    BY <1>2 DEF PatchFile
  <2>2. "patch" \in Ops
    BY DEF Ops, EditOps
  <2> QED
    BY <2>1, <2>2, BeginInv
<1> QED
  BY <1>1, <1>2

LEMMA ReplaceNodeInv ==
    ASSUME FilesInv, NEW r \in Clients, ReplaceNode(r)
    PROVE  FilesInv'
<1>1. PICK f \in Files, e \in Contents : Begin(r, "node", "read", f, e, e)
  BY DEF ReplaceNode
<1>2. "node" \in Ops
  BY DEF Ops, EditOps
<1> QED
  BY <1>1, <1>2, BeginInv

LEMMA ReadFileInv ==
    ASSUME FilesInv, NEW r \in Clients, ReadFile(r)
    PROVE  FilesInv'
<1>1. PICK f \in Files :
         /\ disk[f] \in Contents
         /\ shown' = [shown EXCEPT ![r] =
               [file |-> f, content |-> Read(disk[f]).content,
                sha256 |-> Read(disk[f]).sha256]]
  BY DEF ReadFile
<1>2. shown' = [shown EXCEPT ![r] =
         [file |-> f, content |-> Prefix[disk[f]],
          sha256 |-> Prefix[disk[f]]]]
  BY <1>1 DEF Read
<1>3. [file |-> f, content |-> Prefix[disk[f]], sha256 |-> Prefix[disk[f]]]
        \in Answer
  BY <1>1, OperatorsAssumption DEF Answer
<1>4. shown' \in [Clients -> Answer \cup {NoAnswer}]
  BY <1>2, <1>3 DEF FilesInv, TypeInv
<1>5. ShownDigest'
  BY <1>2 DEF FilesInv, TypeInv, ShownDigest
<1>6. TypeInv'
  BY <1>4 DEF ReadFile, FilesInv, TypeInv
<1>7. \A q \in Clients : Local(q)'
  BY DEF ReadFile, FilesInv, Local, TempOf, OpOf, FreshOf
<1>8. SafeFiles' /\ LoneWinner'
  BY DEF ReadFile, FilesInv, SafeFiles, WholeFiles, LoneWinner
<1> QED
  BY <1>5, <1>6, <1>7, <1>8 DEF FilesInv

LEMMA FindTargetInv ==
    ASSUME FilesInv, NEW r \in Clients, FindTarget(r)
    PROVE  FilesInv'
<1> DEFINE pc == IF req[r].op = "create" THEN "open" ELSE "read"
<1>1. /\ req' = [req EXCEPT ![r].pc = pc]
      /\ UNCHANGED <<disk, mode, shown, unsynced, winners, temp, fresh>>
  BY DEF FindTarget, Goto
<1>2. pc \in Phase /\ req[r].pc = "exists" /\ req[r].pc # "idle"
  BY DEF FindTarget, At, Phase
<1>3. TypeInv
  BY DEF FilesInv
<1>4. /\ req' \in [Clients -> Request \cup {Idle}]
      /\ \A q \in Clients \ {r} : req'[q] = req[q]
      /\ req'[r].pc = pc /\ req'[r].op = req[r].op
  <2> HIDE DEF pc
  <2> QED
    BY <1>1, <1>2, <1>3, GotoFacts
<1>5. temp[r] = NoTemp /\ r \notin fresh
  BY <1>2 DEF FilesInv, Local, TempOf, FreshOf, Writing
<1>6. Local(r)'
  BY <1>1, <1>4, <1>5 DEF Local, TempOf, OpOf, FreshOf, Writing
<1> QED
  BY <1>1, <1>3, <1>4, <1>6, LocalStep DEF TypeInv

LEMMA VerifyInv ==
    ASSUME FilesInv, NEW r \in Clients, Verify(r)
    PROVE  FilesInv'
<1>1. /\ req' = [req EXCEPT ![r].pc = "mode", ![r].content = Updated(r)]
      /\ fresh' = fresh \cup {r}
      /\ UNCHANGED <<disk, mode, temp, shown, unsynced, winners>>
  BY DEF Verify
<1>2. /\ req[r].pc = "read" /\ req[r].pc # "idle"
      /\ disk[req[r].file] = req[r].expected
      /\ req[r].op \in EditOps => disk[req[r].file] \in DOMAIN Edited[req[r].op]
  BY DEF Verify, At, Current, Target
<1>3. TypeInv /\ req[r] \in Request
  BY <1>2, ActiveRequest DEF FilesInv
<1>4. /\ Updated(r) \in Contents
      /\ req[r].op \in EditOps => Updated(r) = Edited[req[r].op][req[r].expected]
  <2>1. CASE req[r].op \in EditOps
    BY <1>2, <2>1, OperatorsAssumption DEF Updated, Target
  <2>2. CASE req[r].op \notin EditOps
    BY <1>3, <2>2 DEF Updated, Request
  <2> QED
    BY <2>1, <2>2
<1>5. req \in [Clients -> Request \cup {Idle}]
  BY <1>3 DEF TypeInv
<1>6. req'[r] = [req[r] EXCEPT !.pc = "mode", !.content = Updated(r)]
  BY <1>1, <1>5
<1>7. [req[r] EXCEPT !.pc = "mode", !.content = Updated(r)] \in Request
  BY <1>3, <1>4 DEF Request, Phase
<1>8. /\ req' \in [Clients -> Request \cup {Idle}]
      /\ \A q \in Clients \ {r} : req'[q] = req[q]
  BY <1>1, <1>5, <1>7
<1>9. /\ req'[r].pc = "mode" /\ req'[r].op = req[r].op
      /\ req'[r].file = req[r].file /\ req'[r].expected = req[r].expected
      /\ req'[r].content = Updated(r)
  BY <1>3, <1>6 DEF Request
<1>10. temp[r] = NoTemp /\ req[r].op # "create"
  BY <1>2 DEF FilesInv, Local, TempOf, OpOf, Writing
<1>11. TempOf(r)' /\ OpOf(r)'
  BY <1>1, <1>9, <1>10 DEF TempOf, OpOf, Writing
<1>12. FreshOf(r)'
  BY <1>1, <1>2, <1>4, <1>9, <1>10 DEF FreshOf
<1>13. Local(r)'
  BY <1>11, <1>12 DEF Local
<1>14. fresh' \subseteq Clients /\ fresh' \ {r} = fresh \ {r}
  BY <1>1, <1>3 DEF TypeInv
<1> QED
  BY <1>1, <1>3, <1>8, <1>13, <1>14, LocalStep DEF TypeInv

LEMMA PermissionsInv ==
    ASSUME FilesInv, NEW r \in Clients, Permissions(r)
    PROVE  FilesInv'
<1> DEFINE m == mode[req[r].file]
<1>1. /\ req' = [req EXCEPT ![r].pc = "open", ![r].mode = m]
      /\ UNCHANGED <<disk, mode, temp, shown, unsynced, fresh, winners>>
  BY DEF Permissions
<1>2. req[r].pc = "mode" /\ req[r].pc # "idle"
  BY DEF Permissions, At
<1>3. TypeInv /\ req[r] \in Request
  BY <1>2, ActiveRequest DEF FilesInv
<1>4. req \in [Clients -> Request \cup {Idle}] /\ m \in Modes
  BY <1>3 DEF TypeInv, Request
<1>5. req'[r] = [req[r] EXCEPT !.pc = "open", !.mode = m]
  BY <1>1, <1>4
<1>6. [req[r] EXCEPT !.pc = "open", !.mode = m] \in Request
  BY <1>3, <1>4 DEF Request, Phase
<1>7. /\ req' \in [Clients -> Request \cup {Idle}]
      /\ \A q \in Clients \ {r} : req'[q] = req[q]
  BY <1>1, <1>4, <1>6
<1>8. /\ req'[r].pc = "open" /\ req'[r].op = req[r].op
      /\ req'[r].file = req[r].file /\ req'[r].expected = req[r].expected
      /\ req'[r].content = req[r].content /\ req'[r].mode = m
  BY <1>3, <1>5 DEF Request
<1>9. TempOf(r)' /\ OpOf(r)'
  BY <1>1, <1>2, <1>8 DEF FilesInv, Local, TempOf, OpOf, Writing
<1>10. FreshOf(r)'
  BY <1>1, <1>2, <1>8 DEF FilesInv, Local, FreshOf
<1>11. Local(r)'
  BY <1>9, <1>10 DEF Local
<1> QED
  BY <1>1, <1>3, <1>7, <1>11, LocalStep DEF TypeInv

(* The steps of atomic_write before the rename.                            *)
LEMMA TempStepInv ==
    ASSUME FilesInv, NEW r \in Clients, NEW pc \in Phase,
           NEW t \in Temp,
           req[r].pc \in {"open", "write", "sync", "chmod"},
           pc \in {"write", "sync", "chmod", "persist"},
           Goto(r, pc),
           temp' = [temp EXCEPT ![r] = t],
           UNCHANGED fresh,
           t # NoTemp,
           pc = "sync" => t.content = req[r].content,
           pc \in {"chmod", "persist"} =>
             t.content = req[r].content /\ t.synced = TRUE,
           pc = "chmod" => req[r].op # "create",
           (pc = "persist" /\ req[r].op # "create") => t.mode = req[r].mode
    PROVE  FilesInv'
<1>1. /\ req' = [req EXCEPT ![r].pc = pc]
      /\ UNCHANGED <<disk, mode, shown, unsynced, winners, fresh>>
  BY DEF Goto
<1>2. TypeInv /\ req[r].pc # "idle"
  BY DEF FilesInv
<1>3. /\ req' \in [Clients -> Request \cup {Idle}]
      /\ \A q \in Clients \ {r} : req'[q] = req[q]
      /\ req'[r].pc = pc /\ req'[r].op = req[r].op
      /\ req'[r].file = req[r].file
      /\ req'[r].expected = req[r].expected
      /\ req'[r].content = req[r].content
      /\ req'[r].mode = req[r].mode
  BY <1>1, <1>2, GotoFacts
<1>4. /\ temp' \in [Clients -> Temp]
      /\ \A q \in Clients \ {r} : temp'[q] = temp[q]
      /\ temp'[r] = t
  BY <1>2 DEF TypeInv
<1>5. TempOf(r)'
  BY <1>3, <1>4 DEF TempOf, Writing
<1>6. OpOf(r)'
  BY <1>3 DEF OpOf
<1>7. FreshOf(r)'
  BY <1>1, <1>3 DEF FilesInv, Local, FreshOf
<1>8. Local(r)'
  BY <1>5, <1>6, <1>7 DEF Local
<1> QED
  BY <1>1, <1>2, <1>3, <1>4, <1>8, LocalStep DEF TypeInv

LEMMA OpenTempInv ==
    ASSUME FilesInv, NEW r \in Clients, OpenTemp(r)
    PROVE  FilesInv'
<1> DEFINE t == [content |-> Partial, mode |-> "private", synced |-> FALSE]
<1>1. t.content = Partial
  OBVIOUS
<1>2. t \in Temp /\ t # NoTemp
  BY <1>1, ContentsAssumption DEF Temp, NoTemp, Modes
<1>3. /\ req[r].pc = "open" /\ Goto(r, "write") /\ UNCHANGED fresh
      /\ temp' = [temp EXCEPT ![r] = t]
  BY DEF OpenTemp, At
<1> HIDE DEF t
<1> QED
  BY <1>2, <1>3, TempStepInv DEF Phase

LEMMA WriteTempInv ==
    ASSUME FilesInv, NEW r \in Clients, WriteTemp(r)
    PROVE  FilesInv'
<1> DEFINE t == [temp[r] EXCEPT !.content = req[r].content]
<1>1. /\ req[r].pc = "write" /\ Goto(r, "sync") /\ UNCHANGED fresh
      /\ temp' = [temp EXCEPT ![r] = t]
  BY DEF WriteTemp, At
<1>2. temp[r] \in Temp /\ req[r] \in Request
  BY <1>1, ActiveRequest DEF FilesInv, TypeInv
<1>3. t.content = req[r].content /\ req[r].content \in Contents
  BY <1>2 DEF Temp, Request
<1>4. t \in Temp
  BY <1>2, <1>3 DEF Temp
<1>5. t # NoTemp
  BY <1>3, ContentsAssumption DEF NoTemp
<1> HIDE DEF t
<1> QED
  BY <1>1, <1>3, <1>4, <1>5, TempStepInv DEF Phase

LEMMA SyncTempInv ==
    ASSUME FilesInv, NEW r \in Clients, SyncTemp(r)
    PROVE  FilesInv'
<1> DEFINE t  == [temp[r] EXCEPT !.synced = TRUE]
           pc == IF req[r].op = "create" THEN "persist" ELSE "chmod"
<1>1. /\ req[r].pc = "sync" /\ Goto(r, pc) /\ UNCHANGED fresh
      /\ temp' = [temp EXCEPT ![r] = t]
  BY DEF SyncTemp, At
<1>2. temp[r] \in Temp /\ temp[r].content = req[r].content
  BY <1>1 DEF FilesInv, TypeInv, Local, TempOf
<1>3. t.content = req[r].content /\ t.synced = TRUE
  BY <1>2 DEF Temp
<1>4. t \in Temp
  BY <1>2 DEF Temp
<1>5. t # NoTemp
  BY <1>3 DEF NoTemp
<1>6. /\ pc \in {"chmod", "persist"} /\ pc \in Phase
      /\ pc = "chmod" => req[r].op # "create"
      /\ pc = "persist" => req[r].op = "create"
  BY DEF Phase
<1> HIDE DEF t, pc
<1> QED
  BY <1>1, <1>3, <1>4, <1>5, <1>6, TempStepInv

LEMMA ChmodTempInv ==
    ASSUME FilesInv, NEW r \in Clients, ChmodTemp(r)
    PROVE  FilesInv'
<1> DEFINE t == [temp[r] EXCEPT !.mode = req[r].mode]
<1>1. /\ req[r].pc = "chmod" /\ Goto(r, "persist") /\ UNCHANGED fresh
      /\ temp' = [temp EXCEPT ![r] = t]
  BY DEF ChmodTemp, At
<1>2. /\ temp[r] \in Temp /\ req[r] \in Request
      /\ temp[r].content = req[r].content /\ temp[r].synced = TRUE
  BY <1>1, ActiveRequest DEF FilesInv, TypeInv, Local, TempOf
<1>3. /\ t.content = req[r].content /\ t.synced = TRUE
      /\ t.mode = req[r].mode
  BY <1>2 DEF Temp
<1>4. t \in Temp
  BY <1>2 DEF Temp, Request
<1>5. t # NoTemp
  BY <1>3 DEF NoTemp
<1> HIDE DEF t
<1> QED
  BY <1>1, <1>3, <1>4, <1>5, TempStepInv DEF Phase

-----------------------------------------------------------------------------
(* Steps that change a file                                                *)

(* Nobody who stays fresh is at work on the file that changes.             *)
LEMMA FreshElsewhere ==
    ASSUME FilesInv, NEW f \in Files, NEW q \in Clients,
           \A g \in Files \ {f} : disk'[g] = disk[g] /\ mode'[g] = mode[g],
           fresh' = fresh \ Working(f),
           req'[q] = req[q]
    PROVE  FreshOf(q)'
<1> SUFFICES ASSUME q \in fresh' PROVE FreshOf(q)'
  BY DEF FreshOf
<1>1. q \in fresh /\ q \notin Working(f)
  OBVIOUS
<1>2. FreshOf(q)
  BY DEF FilesInv, Local
<1>3. req[q].pc # "idle"
  BY <1>1, <1>2 DEF FreshOf
<1>4. req[q] \in Request
  BY <1>3, ActiveRequest DEF FilesInv
<1>5. req[q].file \in Files \ {f}
  BY <1>1, <1>3, <1>4 DEF Working, At, Request
<1> QED
  BY <1>1, <1>2, <1>5 DEF FreshOf

LEMMA PersistInv ==
    ASSUME FilesInv, NEW r \in Clients, Persist(r)
    PROVE  FilesInv'
<1> DEFINE f == req[r].file
<1>1. /\ req[r].pc = "persist"
      /\ Clobbers(r) \/ disk[f] = Absent
      /\ disk' = [disk EXCEPT ![f] = temp[r].content]
      /\ mode' = [mode EXCEPT ![f] = temp[r].mode]
      /\ unsynced' = IF temp[r].synced THEN unsynced \ {f} ELSE unsynced \cup {f}
      /\ fresh' = fresh \ Working(f)
      /\ winners' = [winners EXCEPT ![f] =
                       IF req[r].op = "create" THEN @ \cup {r} ELSE @]
      /\ req' = [req EXCEPT ![r] = Idle]
      /\ temp' = [temp EXCEPT ![r] = NoTemp]
      /\ UNCHANGED shown
  BY DEF Persist, At, Target
<1>2. TypeInv
  BY DEF FilesInv
<1>3. req[r] \in Request /\ f \in Files
  BY <1>1, <1>2, ActiveRequest DEF Request
<1>4. /\ temp[r].content = req[r].content /\ temp[r].synced = TRUE
      /\ temp[r] \in Temp
  BY <1>1, <1>2 DEF FilesInv, Local, TempOf, TypeInv
<1>5. temp[r].content \in Contents /\ temp[r].mode \in Modes
  BY <1>3, <1>4 DEF Request, Temp
<1>6. r \in Working(f)
  BY <1>1 DEF Working, At
<1> HIDE DEF f
<1>7. NoTemp \in Temp
  BY DEF NoTemp, Temp, Modes
<1>8. winners' \in [Files -> SUBSET Clients]
  BY <1>1, <1>2, <1>3 DEF TypeInv
<1>9. TypeInv'
  BY <1>1, <1>2, <1>3, <1>4, <1>5, <1>7, <1>8 DEF TypeInv
<1>10. ASSUME NEW q \in Clients, q # r
       PROVE  Local(q)'
  <2>1. req'[q] = req[q] /\ temp'[q] = temp[q]
    BY <1>1, <1>2, <1>10 DEF TypeInv
  <2>2. TempOf(q)' /\ OpOf(q)'
    BY <2>1 DEF FilesInv, Local, TempOf, OpOf
  <2>3. \A g \in Files \ {f} : disk'[g] = disk[g] /\ mode'[g] = mode[g]
    BY <1>1, <1>2 DEF TypeInv
  <2>4. FreshOf(q)'
    BY <1>1, <1>3, <2>1, <2>3, FreshElsewhere
  <2> QED
    BY <2>2, <2>4 DEF Local
<1>11. Local(r)'
  <2>1. req'[r] = Idle /\ temp'[r] = NoTemp /\ r \notin fresh'
    BY <1>1, <1>2, <1>6 DEF TypeInv
  <2> QED
    BY <2>1, IdleIsNoPhase DEF Local, TempOf, OpOf, FreshOf, Writing
<1>12. SafeFiles'
  BY <1>1, <1>2, <1>4, <1>5, ContentsAssumption
     DEF FilesInv, SafeFiles, WholeFiles, TypeInv
<1>13. LoneWinner'
  <2> SUFFICES ASSUME NEW g \in Files, winners'[g] # {}
               PROVE  /\ disk'[g] # Absent
                      /\ \E q \in Clients : winners'[g] = {q}
    BY DEF LoneWinner
  <2>1. CASE g # f
    BY <1>1, <1>2, <2>1 DEF TypeInv, FilesInv, LoneWinner
  <2>2. CASE g = f /\ req[r].op = "create"
    <3>1. disk[f] = Absent
      BY <1>1, <2>2 DEF Clobbers
    <3>2. winners[f] = {}
      BY <1>3, <3>1 DEF FilesInv, LoneWinner
    <3>3. winners'[f] = {r}
      BY <1>1, <1>2, <1>3, <2>2, <3>2 DEF TypeInv
    <3>4. disk'[f] # Absent
      BY <1>1, <1>2, <1>3, <1>5, ContentsAssumption DEF TypeInv
    <3> QED
      BY <2>2, <3>3, <3>4
  <2>3. CASE g = f /\ req[r].op # "create"
    <3>1. winners'[f] = winners[f]
      BY <1>1, <1>2, <1>3, <2>3 DEF TypeInv
    <3>2. disk'[f] # Absent
      BY <1>1, <1>2, <1>3, <1>5, ContentsAssumption DEF TypeInv
    <3> QED
      BY <2>3, <3>1, <3>2 DEF FilesInv, LoneWinner
  <2> QED
    BY <2>1, <2>2, <2>3
<1>14. ShownDigest'
  BY <1>1 DEF FilesInv, ShownDigest
<1> QED
  BY <1>9, <1>10, <1>11, <1>12, <1>13, <1>14 DEF FilesInv

(* What others do to a file.                                               *)
LEMMA OutsideInv ==
    ASSUME FilesInv, NEW f \in Files, Outside(f)
    PROVE  FilesInv'
<1>1. /\ UNCHANGED <<req, temp, shown>>
      /\ fresh' = fresh \ Working(f)
  BY DEF Outside, OutsideWrite, OutsideDelete, OutsideChmod
<1>2. TypeInv
  BY DEF FilesInv
<1>3. /\ disk' \in [Files -> Contents \cup {Absent, Partial}]
      /\ mode' \in [Files -> Modes]
      /\ unsynced' \subseteq unsynced
      /\ winners' \in [Files -> SUBSET Clients]
  BY <1>2 DEF TypeInv, Outside, OutsideWrite, OutsideDelete, OutsideChmod
<1>4. TypeInv'
  BY <1>1, <1>2, <1>3 DEF TypeInv
<1>5. \A g \in Files \ {f} :
         disk'[g] = disk[g] /\ mode'[g] = mode[g] /\ winners'[g] = winners[g]
  BY <1>2 DEF TypeInv, Outside, OutsideWrite, OutsideDelete, OutsideChmod
<1>6. ASSUME NEW q \in Clients
      PROVE  Local(q)'
  <2>1. TempOf(q)' /\ OpOf(q)'
    BY <1>1 DEF FilesInv, Local, TempOf, OpOf
  <2>2. FreshOf(q)'
    BY <1>1, <1>5, FreshElsewhere
  <2> QED
    BY <2>1, <2>2 DEF Local
<1>7. disk'[f] # Partial
  BY <1>2, ContentsAssumption DEF TypeInv, FilesInv, SafeFiles, WholeFiles,
     Outside, OutsideWrite, OutsideDelete, OutsideChmod
<1>8. SafeFiles'
  BY <1>3, <1>5, <1>7 DEF FilesInv, SafeFiles, WholeFiles
<1>9. winners'[f] = {} \/ (winners'[f] = winners[f] /\
                             (disk'[f] # Absent \/ disk'[f] = disk[f]))
  BY <1>2, ContentsAssumption DEF TypeInv, Outside, OutsideWrite,
     OutsideDelete, OutsideChmod
<1>10. LoneWinner'
  BY <1>5, <1>9 DEF FilesInv, LoneWinner
<1>11. ShownDigest'
  BY <1>1 DEF FilesInv, ShownDigest
<1> QED
  BY <1>4, <1>6, <1>8, <1>10, <1>11 DEF FilesInv

LEMMA RestartInv ==
    ASSUME FilesInv, Restart
    PROVE  FilesInv'
<1>1. /\ req' = [r \in Clients |-> Idle]
      /\ temp' = [r \in Clients |-> NoTemp]
      /\ fresh' = {}
      /\ UNCHANGED <<mode, shown, unsynced, winners>>
  BY DEF Restart
<1>2. PICK torn \in SUBSET unsynced :
         disk' = [f \in Files |-> IF f \in torn THEN Partial ELSE disk[f]]
  BY DEF Restart
<1>3. torn = {}
  BY <1>2 DEF FilesInv, SafeFiles
<1>4. disk' = disk
  BY <1>2, <1>3 DEF FilesInv, TypeInv
<1>5. TypeInv'
  BY <1>1, <1>4 DEF FilesInv, TypeInv, Temp, NoTemp, Modes
<1>6. \A q \in Clients : Local(q)'
  BY <1>1, IdleIsNoPhase DEF Local, TempOf, OpOf, FreshOf, Writing
<1>7. SafeFiles' /\ LoneWinner' /\ ShownDigest'
  BY <1>1, <1>4 DEF FilesInv, SafeFiles, WholeFiles, LoneWinner, ShownDigest
<1> QED
  BY <1>5, <1>6, <1>7 DEF FilesInv

-----------------------------------------------------------------------------
(* The invariant                                                           *)

LEMMA HandleInv ==
    ASSUME FilesInv, NEW r \in Clients, Handle(r)
    PROVE  FilesInv'
<1>1. CASE WorkspaceRequest(r) \/ MountRequest(r)
  BY <1>1, AreaInv DEF WorkspaceRequest, MountRequest
<1>2. CASE ReplaceNode(r)
  BY <1>2, ReplaceNodeInv
<1>3. CASE ReadFile(r)
  BY <1>3, ReadFileInv
<1>4. CASE Check(r)
  BY <1>4, FindTargetInv, VerifyInv, PermissionsInv, DroppedInv
     DEF Check, FindTargetRefused, VerifyRefused
<1>5. CASE AtomicWrite(r)
  BY <1>5, OpenTempInv, WriteTempInv, SyncTempInv, ChmodTempInv, PersistInv,
     DroppedInv DEF AtomicWrite, PersistRefused
<1>6. CASE Fail(r)
  BY <1>6, DroppedInv DEF Fail
<1> QED
  BY <1>1, <1>2, <1>3, <1>4, <1>5, <1>6 DEF Handle

LEMMA NextInv == FilesInv /\ [Next]_vars => FilesInv'
<1> SUFFICES ASSUME FilesInv, [Next]_vars PROVE FilesInv'
  OBVIOUS
<1>1. CASE UNCHANGED vars
  BY <1>1 DEF vars, FilesInv, TypeInv, Local, TempOf, OpOf, FreshOf,
     SafeFiles, WholeFiles, LoneWinner, ShownDigest
<1>2. CASE Next
  BY <1>2, HandleInv, OutsideInv, RestartInv DEF Next
<1> QED
  BY <1>1, <1>2

(* FilesInv holds in every reachable state.                                *)
THEOREM FilesInvariant == Spec => []FilesInv
<1>1. Init => FilesInv
  BY InitInv
<1>2. FilesInv /\ [Next]_vars => FilesInv'
  BY NextInv
<1> QED
  BY <1>1, <1>2, PTL DEF Spec

(* The variables keep their types, and no handler leaves its temporary     *)
(* file behind (atomic_write's NamedTempFile).                             *)
THEOREM TypeCorrect == Spec => []TypeOK
<1>1. FilesInv => TypeOK
  BY DEF FilesInv, TypeInv, Local, TempOf, Writing, TypeOK
<1> QED
  BY <1>1, FilesInvariant, PTL

(* No failure and no stop leaves a file half-written (atomic_write).       *)
THEOREM FilesStayWhole == Spec => []WholeFiles
<1>1. FilesInv => WholeFiles
  BY DEF FilesInv, SafeFiles
<1> QED
  BY <1>1, FilesInvariant, PTL

(* Of any number of racing creates of a file one succeeds (write_file in   *)
(* create mode, persist_noclobber).                                        *)
THEOREM CreateHasOneWinner == Spec => []OneCreateWins
<1>1. FilesInv => OneCreateWins
  <2> SUFFICES ASSUME FilesInv, NEW f \in Files
               PROVE  Cardinality(winners[f]) <= 1
    BY DEF OneCreateWins
  <2>1. CASE winners[f] = {}
    BY <2>1, FS_EmptySet
  <2>2. CASE winners[f] # {}
    <3>1. PICK r \in Clients : winners[f] = {r}
      BY <2>2 DEF FilesInv, LoneWinner
    <3> QED
      BY <3>1, FS_Singleton
  <2> QED
    BY <2>1, <2>2
<1> QED
  BY <1>1, FilesInvariant, PTL

(* What a fresh handler's rename does.                                     *)
LEMMA FreshPersist ==
    ASSUME FilesInv, NEW r \in fresh, Persist(r)
    PROVE  /\ disk[req[r].file] = req[r].expected
           /\ mode'[req[r].file] = mode[req[r].file]
           /\ req[r].op \in EditOps =>
                disk'[req[r].file] = Edited[req[r].op][req[r].expected]
<1>1. r \in Clients /\ TypeInv
  BY DEF FilesInv, TypeInv
<1>2. /\ req[r].pc = "persist"
      /\ disk' = [disk EXCEPT ![req[r].file] = temp[r].content]
      /\ mode' = [mode EXCEPT ![req[r].file] = temp[r].mode]
  BY DEF Persist, At
<1>3. req[r].file \in Files
  BY <1>1, <1>2, ActiveRequest DEF Request
<1>4. FreshOf(r) /\ TempOf(r)
  BY <1>1 DEF FilesInv, Local
<1>5. /\ disk'[req[r].file] = temp[r].content
      /\ mode'[req[r].file] = temp[r].mode
  BY <1>1, <1>2, <1>3 DEF TypeInv
<1> QED
  BY <1>2, <1>4, <1>5 DEF FreshOf, TempOf

(* What replaces an untouched file was made from the version its client    *)
(* named and has the file's permissions (write_file, patch_file,           *)
(* replace_node).                                                          *)
THEOREM NamedVersionIsReplaced == Spec => ReplacesNamedVersion
<1>1. FilesInv /\ [Next]_vars =>
        [\A r \in fresh : Persist(r) =>
          LET q == req[r]
          IN  /\ disk[q.file] = q.expected
              /\ mode'[q.file] = mode[q.file]
              /\ q.op \in EditOps =>
                   disk'[q.file] = Edited[q.op][q.expected]]_vars
  BY FreshPersist
<1> QED
  BY <1>1, FilesInvariant, PTL DEF Spec, ReplacesNamedVersion

(* A client that names the digest its last read in a mount showed replaces *)
(* exactly the text it was shown (user_files.rs, read_file).               *)
THEOREM ShownTextIsReplaced == Spec => ReplacesOnlyWhatWasShown
<1>1. FilesInv /\ [Next]_vars =>
        [\A r \in fresh :
          /\ Persist(r)
          /\ req[r].file = shown[r].file
          /\ req[r].expected = shown[r].sha256
          => disk[req[r].file] = shown[r].content]_vars
  <2> SUFFICES ASSUME FilesInv, NEW r \in fresh, Persist(r),
                      req[r].file = shown[r].file,
                      req[r].expected = shown[r].sha256
               PROVE  disk[req[r].file] = shown[r].content
    OBVIOUS
  <2>1. disk[req[r].file] = req[r].expected
    BY FreshPersist
  <2>2. r \in Clients /\ req[r].file \in Files
    BY ActiveRequest DEF FilesInv, TypeInv, Persist, At, Request
  <2>3. CASE shown[r] # NoAnswer
    BY <2>1, <2>2, <2>3 DEF FilesInv, ShownDigest
  <2>4. CASE shown[r] = NoAnswer
    BY <2>2, <2>4, ContentsAssumption DEF NoAnswer
  <2> QED
    BY <2>3, <2>4
<1> QED
  BY <1>1, FilesInvariant, PTL DEF Spec, ReplacesOnlyWhatWasShown
=============================================================================
