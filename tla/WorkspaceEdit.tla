---------------------------- MODULE WorkspaceEdit ----------------------------
(***************************************************************************)
(* Requests that TuxBridge answers with the help of a language server      *)
(* (src/src/lsp.rs).  Each request reads its document, starts a server of  *)
(* its own, opens the document in it, asks one question and shuts the      *)
(* server down.  A rename or a formatting then applies the edit the server *)
(* answered with: it reads and edits every file in memory, reads every     *)
(* file once more, and only then replaces one after the other.  Nothing    *)
(* holds the files meanwhile, and nothing is assumed of the server.        *)
(*                                                                         *)
(* Both directions of the conversation matter for whether a request ends.  *)
(* An answer is awaited under a deadline; a message is written without one,*)
(* into a pipe that holds so much and that only the server empties.        *)
(*                                                                         *)
(* One action is one exchange with the server, one piece of a message that *)
(* is written to it, or one operation on a file (atomic_replace, which     *)
(* HashGuardedFiles models call by call, is one).                          *)
(***************************************************************************)
EXTENDS Naturals

CONSTANTS
    Handlers,   \* connections that send requests, one at a time
    Files,      \* regular files inside the workspace
    Texts,      \* what a file can hold; a digest stands for its text
    PipeRoom,   \* the pieces that the pipe to a server holds
    Size,       \* Size[c]: the pieces of a didOpen with text c; every other
                \* message is one piece
    Resolved,   \* Resolved[u]: the file that URI u resolves to.  A server may
                \* spell a file in several ways; URIs are numbered in the
                \* order in which a BTreeMap keeps them
    UriOf,      \* UriOf[f]: the URI under which TuxBridge opens f
    Fit,        \* Fit[v][c]: what an edit that a server made for text v makes
                \* of text c; c \notin DOMAIN Fit[v] if it is refused there
    Outside,    \* not a regular file inside the workspace
    None        \* no file, no text, no edit

Uris == DOMAIN Resolved

ASSUME FilesAssumption ==
    /\ Uris \subseteq Nat
    /\ Resolved \in [Uris -> Files \cup {Outside}]
    /\ UriOf \in [Files -> Uris]
    /\ \A f \in Files : Resolved[UriOf[f]] = f
    /\ Outside \notin Files /\ None \notin Files

ASSUME TextsAssumption ==
    /\ None \notin Texts
    /\ PipeRoom \in Nat \ {0}
    /\ Size \in [Texts -> Nat \ {0}]
    /\ \A v \in Texts : /\ DOMAIN Fit[v] \subseteq Texts
                        /\ \A c \in DOMAIN Fit[v] : Fit[v][c] \in Texts

VARIABLES
    disk,       \* the text of each file
    req,        \* what a connection's handler is doing, with its locals
    server,     \* the handler's language server, and what is on its way to it
    checked,    \* history: the URIs whose files the handler has read again
    fresh,      \* history: the files it has read again and on which nobody
                \* else has laid hands since
    wrote       \* history: the files it has replaced

history == <<checked, fresh, wrote>>

vars == <<disk, req, server, checked, fresh, wrote>>

-----------------------------------------------------------------------------
Queries == {"position", "symbols", "diagnostics"}

Ops == Queries \cup {"format", "rename"}

(* The phases of LspProcess, at whose awaits a request can be dropped, and *)
(* those of apply_workspace_edit, which awaits nothing.                    *)
Talking == {"initialize", "initialized", "open", "ask",
            "shutdown", "exit", "kill"}

Applying == {"collect", "prepare", "recheck", "write"}

Item == [original : Texts, updated : Texts]

NoItems == [u \in Uris |-> None]

Request == [pc : {"start"} \cup Talking \cup Applying, op : Ops, dryRun : BOOLEAN,
            file : Files, text : Texts,
            edits : [Uris -> Texts \cup {None}],    \* what the server answered
            items : [Uris -> Item \cup {None}],     \* PreparedFileEdit
            todo : SUBSET Uris]                     \* of the loop at hand

Idle == [pc |-> "idle"]

(* What the server does, the pieces in its pipe that it has not read, and  *)
(* those of the message under way that the handler has still to write.     *)
(* A "deaf" server reads no more, a "gone" one has closed its pipe.        *)
Server == [state : {"reads", "deaf", "gone"}, unread : 0..PipeRoom, left : Nat]

NoServer == [state |-> "none"]

At(h, pc) == req[h].pc = pc

Named(h) == {u \in Uris : req[h].edits[u] # None}

(* The next file of a loop, which follows the order of the BTreeMap.       *)
IsNext(h, u) ==
    /\ u \in req[h].todo
    /\ \A v \in req[h].todo : u <= v

Forget(h) ==
    /\ checked' = [checked EXCEPT ![h] = {}]
    /\ fresh' = [fresh EXCEPT ![h] = {}]
    /\ wrote' = [wrote EXCEPT ![h] = {}]

(* The handler returns or is dropped, and so is its server (kill_on_drop). *)
Done(h) ==
    /\ req' = [req EXCEPT ![h] = Idle]
    /\ server' = [server EXCEPT ![h] = NoServer]
    /\ Forget(h)
    /\ UNCHANGED disk

Talk(h, pc, s) ==
    /\ req' = [req EXCEPT ![h].pc = pc]
    /\ server' = [server EXCEPT ![h] = s]
    /\ UNCHANGED <<disk, history>>

Sending(h, n) == [server[h] EXCEPT !.left = n]

(* The handler has written what it had to write in this phase.             *)
Sent(h, pc) == At(h, pc) /\ server[h].left = 0

-----------------------------------------------------------------------------
Init ==
    /\ disk \in [Files -> Texts \cup {None}]
    /\ req = [h \in Handlers |-> Idle]
    /\ server = [h \in Handlers |-> NoServer]
    /\ checked = [h \in Handlers |-> {}]
    /\ fresh = [h \in Handlers |-> {}]
    /\ wrote = [h \in Handlers |-> {}]

-----------------------------------------------------------------------------
(* The conversation with the server                                        *)

(* prepare_document: the text the server will be shown is read here.       *)
Begin(h) ==
    /\ At(h, "idle")
    /\ \E op \in Ops, dry \in BOOLEAN, f \in Files :
          /\ disk[f] # None
          /\ req' = [req EXCEPT ![h] =
                [pc |-> "start", op |-> op, dryRun |-> dry, file |-> f,
                 text |-> disk[f], edits |-> NoItems, items |-> NoItems,
                 todo |-> {}]]
    /\ UNCHANGED <<disk, server, history>>

(* The server is spawned, and "initialize" is sent.                        *)
Start(h) ==
    /\ At(h, "start")
    /\ Talk(h, "initialize", [state |-> "reads", unread |-> 0, left |-> 1])

StartFails(h) == At(h, "start") /\ Done(h)

(* A message is written as far as the pipe has room, and there is nothing  *)
(* that ends the wait for room.                                            *)
Send(h) ==
    /\ req[h].pc \in Talking
    /\ server[h].state # "gone"
    /\ server[h].left > 0 /\ server[h].unread < PipeRoom
    /\ Talk(h, req[h].pc,
            [server[h] EXCEPT !.unread = @ + 1, !.left = @ - 1])

Initialized(h) ==
    /\ Sent(h, "initialize")
    /\ Talk(h, "initialized", Sending(h, 1))

Open(h) ==
    /\ Sent(h, "initialized")
    /\ req[h].op # "symbols"
    /\ Talk(h, "open", Sending(h, Size[req[h].text]))

(* A query for workspace symbols opens no document, and diagnostics are    *)
(* not asked for.                                                          *)
Ask(h) ==
    /\ \/ Sent(h, "open")
       \/ Sent(h, "initialized") /\ req[h].op = "symbols"
    /\ Talk(h, "ask", Sending(h, IF req[h].op = "diagnostics" THEN 0 ELSE 1))

(* The server answers with what it likes: edits for any URI, made for any  *)
(* text.  An answer to a formatting is taken for the document's own URI.   *)
(* Then "shutdown" is sent.                                                *)
Answer(h) ==
    /\ Sent(h, "ask")
    /\ req[h].op # "diagnostics"
    /\ \E edits \in [Uris -> Texts \cup {None}] :
          /\ req[h].op \in Queries => edits = NoItems
          /\ req[h].op = "format" =>
                \A u \in Uris : edits[u] # None <=> u = UriOf[req[h].file]
          /\ req' = [req EXCEPT ![h].pc = "shutdown", ![h].edits = edits]
    /\ server' = [server EXCEPT ![h] = Sending(h, 1)]
    /\ UNCHANGED <<disk, history>>

(* For diagnostics the handler listens for a while, whatever it hears.     *)
Listen(h) ==
    /\ Sent(h, "ask")
    /\ req[h].op = "diagnostics"
    /\ Talk(h, "shutdown", Sending(h, 1))

(* An error ends the request, except that shutdown goes on after one.      *)
Fails(h) ==
    \/ At(h, "shutdown") /\ Talk(h, "exit", Sending(h, 1))
    \/ At(h, "exit") /\ Talk(h, "kill", Sending(h, 0))
    \/ req[h].pc \in Talking \ {"shutdown", "exit", "kill"} /\ Done(h)

SendFails(h) ==
    /\ req[h].pc \in Talking
    /\ server[h].state = "gone" /\ server[h].left > 0
    /\ Fails(h)

Awaits(h) == \E pc \in {"initialize", "ask", "shutdown"} : Sent(h, pc)

(* Mutant: an answer is awaited without a deadline.                        *)
RequestFails_NoDeadline(h) ==
    Awaits(h) /\ server[h].state # "deaf" /\ Fails(h)

(* The server answers with an error or with what is no message, closes its *)
(* end, or has not answered when the deadline passes.  To "shutdown" an    *)
(* answer is as good as an error.                                          *)
RequestFails(h) == Awaits(h) /\ Fails(h)

Exit(h) == Sent(h, "exit") /\ Talk(h, "kill", Sending(h, 0))

(* The server is given some time to exit, and is killed.                   *)
Kill(h) ==
    /\ At(h, "kill")
    /\ IF req[h].op \in Queries THEN Done(h) ELSE Talk(h, "collect", NoServer)

-----------------------------------------------------------------------------
(* apply_workspace_edit                                                    *)

(* collect_workspace_edits: the edits of a URI that is named twice are     *)
(* joined under it.                                                        *)
Collect(h) ==
    /\ At(h, "collect")
    /\ req' = [req EXCEPT ![h].pc = "prepare", ![h].todo = Named(h)]
    /\ UNCHANGED <<disk, server, history>>

(* The answer is malformed or wants to create, rename or delete a file.    *)
CollectRefused(h) == At(h, "collect") /\ Done(h)

(* An edit of u can be prepared: u is a file inside the workspace, and the *)
(* ranges exist in the text it holds now and do not overlap there.         *)
Editable(h, u) ==
    LET f == Resolved[u]
    IN  /\ f # Outside
        /\ disk[f] # None
        /\ disk[f] \in DOMAIN Fit[req[h].edits[u]]

PrepareFile(h) ==
    /\ At(h, "prepare")
    /\ \E u \in Uris :
          /\ IsNext(h, u) /\ Editable(h, u)
          /\ LET f == Resolved[u]
                 item == [original |-> disk[f],
                          updated |-> Fit[req[h].edits[u]][disk[f]]]
             IN  req' = [req EXCEPT ![h].items[u] = item, ![h].todo = @ \ {u}]
    /\ UNCHANGED <<disk, server, history>>

PrepareRefused(h) ==
    /\ At(h, "prepare")
    /\ \E u \in Uris : IsNext(h, u) /\ ~Editable(h, u)
    /\ Done(h)

(* Mutant: the files are not read again.                                   *)
Prepared_NoRecheck(h) ==
    /\ At(h, "prepare")
    /\ req[h].todo = {}
    /\ IF req[h].dryRun THEN Done(h)
       ELSE /\ req' = [req EXCEPT ![h].pc = "write", ![h].todo = Named(h)]
            /\ UNCHANGED <<disk, server, history>>

Prepared(h) ==
    /\ At(h, "prepare")
    /\ req[h].todo = {}
    /\ IF req[h].dryRun THEN Done(h)
       ELSE /\ req' = [req EXCEPT ![h].pc = "recheck", ![h].todo = Named(h)]
            /\ UNCHANGED <<disk, server, history>>

Unchanged(h, u) == disk[Resolved[u]] = req[h].items[u].original

(* Mutant: each file is replaced as soon as it has been read again.        *)
Recheck_Writes(h) ==
    /\ At(h, "recheck")
    /\ \E u \in Uris :
          /\ IsNext(h, u) /\ Unchanged(h, u)
          /\ req' = [req EXCEPT ![h].todo = @ \ {u}]
          /\ disk' = [disk EXCEPT ![Resolved[u]] = req[h].items[u].updated]
          /\ checked' = [checked EXCEPT ![h] = @ \cup {u}]
          /\ fresh' = [fresh EXCEPT ![h] = @ \cup {Resolved[u]}]
          /\ wrote' = [wrote EXCEPT ![h] = @ \cup {Resolved[u]}]
    /\ UNCHANGED server

Recheck(h) ==
    /\ At(h, "recheck")
    /\ \E u \in Uris :
          /\ IsNext(h, u) /\ Unchanged(h, u)
          /\ req' = [req EXCEPT ![h].todo = @ \ {u}]
          /\ checked' = [checked EXCEPT ![h] = @ \cup {u}]
          /\ fresh' = [fresh EXCEPT ![h] = @ \cup {Resolved[u]}]
    /\ UNCHANGED <<disk, server, wrote>>

RecheckRefused(h) ==
    /\ At(h, "recheck")
    /\ \E u \in Uris : IsNext(h, u) /\ ~Unchanged(h, u)
    /\ Done(h)

Rechecked(h) ==
    /\ At(h, "recheck")
    /\ req[h].todo = {}
    /\ req' = [req EXCEPT ![h].pc = "write", ![h].todo = Named(h)]
    /\ UNCHANGED <<disk, server, history>>

(* A file that its edits leave as it is is not touched.                    *)
Replace(h, u) ==
    LET f == Resolved[u]
        item == req[h].items[u]
    IN  IF item.original = item.updated
        THEN UNCHANGED <<disk, history>>
        ELSE /\ disk' = [disk EXCEPT ![f] = item.updated]
             /\ wrote' = [wrote EXCEPT ![h] = @ \cup {f}]
             /\ fresh' = [g \in Handlers |->
                            IF g = h THEN fresh[g] ELSE fresh[g] \ {f}]
             /\ UNCHANGED checked

(* Mutant: a replacement that fails is passed over.                        *)
WriteItem_GoesOn(h) ==
    /\ At(h, "write")
    /\ \E u \in Uris :
          /\ IsNext(h, u)
          /\ req' = [req EXCEPT ![h].todo = @ \ {u}]
          /\ Replace(h, u) \/ UNCHANGED <<disk, history>>
    /\ UNCHANGED server

WriteItem(h) ==
    /\ At(h, "write")
    /\ \E u \in Uris :
          /\ IsNext(h, u)
          /\ req' = [req EXCEPT ![h].todo = @ \ {u}]
          /\ Replace(h, u)
    /\ UNCHANGED server

(* What was replaced before stays replaced.                                *)
WriteFailed(h) ==
    /\ At(h, "write")
    /\ \E u \in Uris :
          /\ IsNext(h, u)
          /\ req[h].items[u].original # req[h].items[u].updated
    /\ Done(h)

Applied(h) ==
    /\ At(h, "write")
    /\ req[h].todo = {}
    /\ Done(h)

-----------------------------------------------------------------------------
(* Everybody else                                                          *)

(* The connection goes away while the handler awaits.                      *)
Disconnect(h) == req[h].pc \in Talking /\ Done(h)

(* The server sends a request of its own, which is answered at once.       *)
ServerAsks(h) ==
    /\ Awaits(h)
    /\ Talk(h, req[h].pc, Sending(h, 1))

ServerReads(h) ==
    /\ req[h].pc \in Talking
    /\ server[h].state = "reads" /\ server[h].unread > 0
    /\ Talk(h, req[h].pc, [server[h] EXCEPT !.unread = @ - 1])

(* The server stops reading; what it says from now on may still be heard.  *)
ServerDeaf(h) ==
    /\ req[h].pc \in Talking
    /\ server[h].state = "reads"
    /\ Talk(h, req[h].pc, [server[h] EXCEPT !.state = "deaf"])

(* The server exits; what it has said before may still be heard.           *)
ServerExits(h) ==
    /\ req[h].pc \in Talking
    /\ server[h].state # "gone"
    /\ Talk(h, req[h].pc, [server[h] EXCEPT !.state = "gone", !.unread = 0])

(* Editors, builds, Git and the other parts of TuxBridge.                  *)
OutsideWrite(f) ==
    /\ \E c \in Texts \cup {None} : disk' = [disk EXCEPT ![f] = c]
    /\ fresh' = [h \in Handlers |-> fresh[h] \ {f}]
    /\ UNCHANGED <<req, server, checked, wrote>>

-----------------------------------------------------------------------------
Converse(h) ==
    Start(h) \/ StartFails(h) \/ Send(h) \/ SendFails(h) \/ Initialized(h)
        \/ Open(h) \/ Ask(h) \/ Answer(h) \/ Listen(h) \/ RequestFails(h)
        \/ Exit(h) \/ Kill(h)

ServerSteps(h) ==
    ServerAsks(h) \/ ServerReads(h) \/ ServerDeaf(h) \/ ServerExits(h)

Preflight(h) ==
    Collect(h) \/ CollectRefused(h) \/ PrepareFile(h) \/ PrepareRefused(h)
        \/ Prepared(h) \/ Recheck(h) \/ RecheckRefused(h) \/ Rechecked(h)

Write(h) == WriteItem(h) \/ WriteFailed(h) \/ Applied(h)

Step(h) == Converse(h) \/ Preflight(h) \/ Write(h)

Next ==
    \/ \E h \in Handlers : Begin(h) \/ Step(h) \/ Disconnect(h) \/ ServerSteps(h)
    \/ \E f \in Files : OutsideWrite(f)

Spec == Init /\ [][Next]_vars

(* The deadline of a request, or of listening: the end of it that needs    *)
(* nothing of the server.                                                  *)
Deadline(h) ==
    Listen(h) \/ (RequestFails(h) /\ ~(At(h, "ask") /\ req[h].op = "diagnostics"))

(* The runtime polls a handler that can go on, and a server that reads goes*)
(* on reading until it stops for good.  A deadline is a point in time that *)
(* every turn of the loop compares with the clock, so that a server which  *)
(* keeps asking cannot put it off: hence strong fairness.                  *)
FairSpec ==
    /\ Spec
    /\ \A h \in Handlers : /\ WF_vars(Step(h)) /\ WF_vars(ServerReads(h))
                           /\ SF_vars(Deadline(h))

-----------------------------------------------------------------------------
(* Properties                                                              *)

(* Types; and a server runs only while its handler talks to it, however    *)
(* the handler ends (kill_on_drop, shutdown).                              *)
TypeOK ==
    /\ disk \in [Files -> Texts \cup {None}]
    /\ req \in [Handlers -> Request \cup {Idle}]
    /\ server \in [Handlers -> Server \cup {NoServer}]
    /\ checked \in [Handlers -> SUBSET Uris]
    /\ fresh \in [Handlers -> SUBSET Files]
    /\ wrote \in [Handlers -> SUBSET Files]
    /\ \A h \in Handlers :
          server[h] # NoServer <=> req[h].pc \in Talking

(* Each file is named once only, in one spelling.                          *)
NoAlias(h) ==
    \A u, v \in Named(h) : Resolved[u] = Resolved[v] => u = v

(* An edit that is refused has changed nothing, wherever in the edit the   *)
(* bad file is: outside the workspace, gone, changed meanwhile, or not what*)
(* the ranges fit (the order of the three loops of apply_workspace_edit).  *)
RefusedMeansUntouched ==
    [][\A h \in Handlers :
          (CollectRefused(h) \/ PrepareRefused(h) \/ RecheckRefused(h))
             => wrote[h] = {}]_vars

(* A file is replaced only after all files of the edit were found as they  *)
(* had been prepared, and by what the edit makes of the text it holds,     *)
(* unless somebody else has changed it after it was read again.            *)
ReplacesRecheckedText ==
    [][\A h \in Handlers : (WriteItem(h) /\ disk' # disk) =>
          /\ checked[h] = Named(h)
          /\ NoAlias(h) => \A u \in Named(h) :
                LET f == Resolved[u]
                IN  (f \in fresh[h] /\ disk'[f] # disk[f])
                       => disk'[f] = Fit[req[h].edits[u]][disk[f]]]_vars

(* "applied": every file of the answer holds its new text, unless somebody *)
(* else has changed it after it was read again; and no other file was      *)
(* touched.                                                                *)
AppliedMeansAll ==
    [][\A h \in Handlers : (Applied(h) /\ NoAlias(h)) =>
          /\ wrote[h] \subseteq {Resolved[u] : u \in Named(h)}
          /\ \A u \in Named(h) :
                Resolved[u] \in fresh[h]
                   => disk[Resolved[u]] = req[h].items[u].updated]_vars

(* The handler writes to a full pipe whose server reads no more.           *)
Stuck(h) ==
    /\ req[h].pc \in Talking
    /\ server[h].state = "deaf"
    /\ server[h].left > 0 /\ server[h].unread = PipeRoom

(* Every request ends whatever its server does, says or keeps asking, with *)
(* one exception: it has a message to write, be it a request, a document,  *)
(* an answer to the server or the "shutdown" and "exit" that come before   *)
(* the kill, and the pipe is full and its server has stopped reading.  No  *)
(* deadline ends that (send, lsp.rs:628-635); the server's exit does.      *)
HandlersEnd ==
    \A h \in Handlers : ~At(h, "idle") ~> (At(h, "idle") \/ Stuck(h))
=============================================================================
