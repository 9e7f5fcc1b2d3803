------------------------- MODULE WorkspaceEditProofs -------------------------
(***************************************************************************)
(* Proofs about WorkspaceEdit, for every set of handlers, files, texts and *)
(* URIs and whatever edits a server makes.                                 *)
(*                                                                         *)
(* What a replacement relies on was established in two earlier loops.      *)
(* Local says for one handler what its program counter vouches for: which  *)
(* items are prepared, which have been read again, and what the files that *)
(* nobody else has touched since then still hold.                          *)
(***************************************************************************)
EXTENDS WorkspaceEdit, TLAPS

TypeInv ==
    /\ disk \in [Files -> Texts \cup {None}]
    /\ req \in [Handlers -> Request \cup {Idle}]
    /\ server \in [Handlers -> Server \cup {NoServer}]
    /\ checked \in [Handlers -> SUBSET Uris]
    /\ fresh \in [Handlers -> SUBSET Files]
    /\ wrote \in [Handlers -> SUBSET Files]

Changing == {"recheck", "write"}

ServerOf(h) == server[h] # NoServer <=> req[h].pc \in Talking

(* Before the second loop there is nothing to remember.                    *)
ForgottenOf(h) ==
    /\ req[h].pc \notin Changing => checked[h] = {} /\ fresh[h] = {}
    /\ req[h].pc # "write" => wrote[h] = {}

(* The item of u is what the edit of u makes of a text that it fits.       *)
ItemOK(h, u) ==
    LET q == req[h]
    IN  /\ q.edits[u] \in Texts
        /\ Resolved[u] \in Files
        /\ q.items[u] \in Item
        /\ q.items[u].original \in DOMAIN Fit[q.edits[u]]
        /\ q.items[u].updated = Fit[q.edits[u]][q.items[u].original]

PreparedOf(h) ==
    /\ req[h].pc \in {"prepare"} \cup Changing => req[h].todo \subseteq Named(h)
    /\ req[h].pc = "prepare" =>
          \A u \in Named(h) \ req[h].todo : ItemOK(h, u)
    /\ req[h].pc \in Changing => \A u \in Named(h) : ItemOK(h, u)

CheckedOf(h) ==
    /\ req[h].pc = "recheck" => checked[h] = Named(h) \ req[h].todo
    /\ req[h].pc = "write" => checked[h] = Named(h)

WroteOf(h) ==
    req[h].pc = "write" => wrote[h] \subseteq {Resolved[u] : u \in Named(h)}

(* What the file of u holds while only its handler touches it.             *)
Expected(h, u) ==
    IF req[h].pc = "write" /\ u \notin req[h].todo THEN req[h].items[u].updated
    ELSE req[h].items[u].original

FreshOf(h) ==
    req[h].pc \in Changing /\ NoAlias(h) =>
       \A u \in checked[h] :
          Resolved[u] \in fresh[h] => disk[Resolved[u]] = Expected(h, u)

Local(h) ==
    /\ ServerOf(h) /\ ForgottenOf(h) /\ PreparedOf(h)
    /\ CheckedOf(h) /\ WroteOf(h) /\ FreshOf(h)

EditInv == TypeInv /\ \A h \in Handlers : Local(h)

-----------------------------------------------------------------------------
(* Requests and their steps                                                *)

LEMMA PhasesDiffer ==
    /\ Idle.pc = "idle"
    /\ "idle" \notin Talking \cup Applying
    /\ "start" \notin Talking \cup Applying
    /\ Talking \cap Applying = {}
    /\ Changing \subseteq Applying
  BY DEF Idle, Talking, Applying, Changing

LEMMA ActiveRequest ==
    ASSUME TypeInv, NEW h \in Handlers, req[h].pc # "idle"
    PROVE  req[h] \in Request
  BY DEF TypeInv, Idle

LEMMA NamedURIs ==
    ASSUME NEW h
    PROVE  Named(h) \subseteq Uris
  BY DEF Named

(* A step of one handler preserves EditInv when it preserves the handler's *)
(* own part of it and takes the files it changes from the fresh ones of    *)
(* the others.                                                             *)
LEMMA LocalStep ==
    ASSUME EditInv, NEW h \in Handlers, TypeInv', Local(h)',
           \A g \in Handlers \ {h} :
              /\ req'[g] = req[g]
              /\ server'[g] = server[g]
              /\ checked'[g] = checked[g]
              /\ wrote'[g] = wrote[g]
              /\ fresh'[g] \subseteq fresh[g]
              /\ \A f \in fresh'[g] : disk'[f] = disk[f]
    PROVE  EditInv'
<1>1. ASSUME NEW g \in Handlers, g # h
      PROVE  Local(g)'
  <2>1. Local(g)
    BY DEF EditInv
  <2>2. /\ req'[g] = req[g] /\ server'[g] = server[g]
        /\ checked'[g] = checked[g] /\ wrote'[g] = wrote[g]
        /\ fresh'[g] \subseteq fresh[g]
        /\ \A f \in fresh'[g] : disk'[f] = disk[f]
    BY <1>1
  <2>3. ServerOf(g)'
    BY <2>1, <2>2 DEF Local, ServerOf
  <2>4. ForgottenOf(g)'
    BY <2>1, <2>2 DEF Local, ForgottenOf
  <2>5. Named(g)' = Named(g)
    BY <2>2 DEF Named
  <2>6. \A u : ItemOK(g, u)' <=> ItemOK(g, u)
    BY <2>2 DEF ItemOK
  <2>7. PreparedOf(g)'
    BY <2>1, <2>2, <2>5, <2>6 DEF Local, PreparedOf
  <2>8. CheckedOf(g)' /\ WroteOf(g)'
    BY <2>1, <2>2, <2>5 DEF Local, CheckedOf, WroteOf
  <2>9. FreshOf(g)'
    <3> SUFFICES ASSUME req'[g].pc \in Changing, NoAlias(g)',
                        NEW u \in checked'[g], Resolved[u] \in fresh'[g]
                 PROVE  disk'[Resolved[u]] = Expected(g, u)'
      BY DEF FreshOf
    <3>1. NoAlias(g)
      BY <2>5 DEF NoAlias
    <3>2. disk[Resolved[u]] = Expected(g, u)
      BY <2>1, <2>2, <3>1 DEF Local, FreshOf
    <3>3. Expected(g, u)' = Expected(g, u)
      BY <2>2 DEF Expected
    <3> QED
      BY <2>2, <3>2, <3>3
  <2> QED
    BY <2>3, <2>4, <2>7, <2>8, <2>9 DEF Local
<1> QED
  BY <1>1 DEF EditInv

(* A request that returns or is dropped.                                   *)
LEMMA DoneInv ==
    ASSUME EditInv, NEW h \in Handlers, Done(h)
    PROVE  EditInv'
<1>1. /\ req' = [req EXCEPT ![h] = Idle]
      /\ server' = [server EXCEPT ![h] = NoServer]
      /\ checked' = [checked EXCEPT ![h] = {}]
      /\ fresh' = [fresh EXCEPT ![h] = {}]
      /\ wrote' = [wrote EXCEPT ![h] = {}]
      /\ disk' = disk
  BY DEF Done, Forget
<1>2. TypeInv
  BY DEF EditInv
<1>3. TypeInv'
  BY <1>1, <1>2 DEF TypeInv
<1>4. /\ req'[h] = Idle /\ server'[h] = NoServer
      /\ checked'[h] = {} /\ fresh'[h] = {} /\ wrote'[h] = {}
  BY <1>1, <1>2 DEF TypeInv
<1>5. req'[h].pc = "idle"
  BY <1>4, PhasesDiffer
<1>6. Local(h)'
  BY <1>4, <1>5 DEF Local, ServerOf, ForgottenOf, PreparedOf, CheckedOf,
     WroteOf, FreshOf, Changing, Talking
<1> QED
  BY <1>1, <1>2, <1>3, <1>6, LocalStep DEF TypeInv

(* A step on the way to the answer of the server.                          *)
LEMMA TalkInv ==
    ASSUME EditInv, NEW h \in Handlers, NEW q \in Request,
           NEW s \in Server \cup {NoServer},
           req[h].pc \in {"idle", "start"} \cup Talking,
           q.pc \in {"start", "collect"} \cup Talking,
           req' = [req EXCEPT ![h] = q],
           server' = [server EXCEPT ![h] = s],
           s # NoServer <=> q.pc \in Talking,
           UNCHANGED <<disk, history>>
    PROVE  EditInv'
<1>1. TypeInv
  BY DEF EditInv
<1>2. TypeInv'
  BY <1>1 DEF TypeInv, history
<1>3. /\ req'[h] = q /\ server'[h] = s
      /\ \A g \in Handlers \ {h} :
            req'[g] = req[g] /\ server'[g] = server[g]
  BY <1>1 DEF TypeInv
<1>4. UNCHANGED <<disk, checked, fresh, wrote>>
  BY DEF history
<1>5. req[h].pc \notin Changing
  BY DEF Changing, Talking
<1>6. checked'[h] = {} /\ fresh'[h] = {} /\ wrote'[h] = {}
  BY <1>4, <1>5 DEF EditInv, Local, ForgottenOf, Changing
<1>7. q.pc \notin {"prepare"} \cup Changing
  BY DEF Changing, Talking
<1>8. Local(h)'
  BY <1>3, <1>6, <1>7 DEF Local, ServerOf, ForgottenOf, PreparedOf, CheckedOf,
     WroteOf, FreshOf, Changing
<1> QED
  BY <1>1, <1>2, <1>3, <1>4, <1>8, LocalStep DEF TypeInv

LEMMA ServerDiffers == NoServer \notin Server
<1>1. \A s \in Server : s.state # "none"
  BY DEF Server
<1> QED
  BY <1>1 DEF NoServer

(* The server and its pipe while the handler talks to it.                  *)
LEMMA ServerThere ==
    ASSUME EditInv, NEW h \in Handlers, req[h].pc \in Talking
    PROVE  /\ server[h] \in Server
           /\ \A n \in Nat : Sending(h, n) \in Server
<1>1. server[h] \in Server
  BY DEF EditInv, TypeInv, Local, ServerOf
<1> QED
  BY <1>1 DEF Server, Sending

(* The conversation goes on: only the phase and the server change.         *)
LEMMA GoesOn ==
    ASSUME EditInv, NEW h \in Handlers, NEW pc \in Talking, NEW s \in Server,
           req[h].pc \in {"start"} \cup Talking, Talk(h, pc, s)
    PROVE  EditInv'
<1> DEFINE q == [req[h] EXCEPT !.pc = pc]
<1>1. TypeInv /\ req[h].pc # "idle"
  BY PhasesDiffer DEF EditInv
<1>2. req[h] \in Request
  BY <1>1, ActiveRequest
<1>3. q \in Request /\ q.pc = pc
  BY <1>2 DEF Request
<1>4. /\ req' = [req EXCEPT ![h] = q]
      /\ server' = [server EXCEPT ![h] = s]
      /\ UNCHANGED <<disk, history>>
  BY DEF Talk
<1>5. s # NoServer
  BY ServerDiffers
<1> HIDE DEF q
<1> QED
  BY <1>3, <1>4, <1>5, TalkInv

-----------------------------------------------------------------------------
(* The conversation with the server                                        *)

LEMMA BeginInv ==
    ASSUME EditInv, NEW h \in Handlers, Begin(h)
    PROVE  EditInv'
<1>1. PICK op \in Ops, dry \in BOOLEAN, f \in Files :
         /\ disk[f] # None
         /\ req' = [req EXCEPT ![h] =
               [pc |-> "start", op |-> op, dryRun |-> dry, file |-> f,
                text |-> disk[f], edits |-> NoItems, items |-> NoItems,
                todo |-> {}]]
  BY DEF Begin
<1> DEFINE q == [pc |-> "start", op |-> op, dryRun |-> dry, file |-> f,
                 text |-> disk[f], edits |-> NoItems, items |-> NoItems,
                 todo |-> {}]
<1>2. disk[f] \in Texts
  BY <1>1 DEF EditInv, TypeInv
<1>3. /\ NoItems \in [Uris -> Texts \cup {None}]
      /\ NoItems \in [Uris -> Item \cup {None}]
  BY DEF NoItems
<1>4. q \in Request /\ q.pc = "start"
  BY <1>2, <1>3 DEF Request
<1>5. req[h].pc = "idle" /\ UNCHANGED <<disk, server, history>>
  BY DEF Begin, At
<1>6. server[h] = NoServer /\ server' = [server EXCEPT ![h] = NoServer]
  BY <1>5, PhasesDiffer DEF EditInv, TypeInv, Local, ServerOf
<1>7. req' = [req EXCEPT ![h] = q]
  BY <1>1
<1> HIDE DEF q
<1> QED
  BY <1>4, <1>5, <1>6, <1>7, PhasesDiffer, TalkInv

LEMMA AnswerInv ==
    ASSUME EditInv, NEW h \in Handlers, Answer(h)
    PROVE  EditInv'
<1>1. PICK edits \in [Uris -> Texts \cup {None}] :
         req' = [req EXCEPT ![h].pc = "shutdown", ![h].edits = edits]
  BY DEF Answer
<1> DEFINE q == [req[h] EXCEPT !.pc = "shutdown", !.edits = edits]
<1>2. /\ req[h].pc = "ask" /\ UNCHANGED <<disk, history>>
      /\ server' = [server EXCEPT ![h] = Sending(h, 1)]
  BY DEF Answer, Sent, At
<1>3. TypeInv /\ req[h] \in Request
  BY <1>2, ActiveRequest DEF EditInv
<1>4. q \in Request /\ q.pc = "shutdown"
  BY <1>3 DEF Request, Talking
<1>5. req' = [req EXCEPT ![h] = q]
  BY <1>1
<1>6. Sending(h, 1) \in Server /\ Sending(h, 1) # NoServer
  BY <1>2, ServerThere, ServerDiffers DEF Talking
<1> HIDE DEF q
<1> QED
  BY <1>2, <1>4, <1>5, <1>6, TalkInv DEF Talking

LEMMA FailsInv ==
    ASSUME EditInv, NEW h \in Handlers, Fails(h)
    PROVE  EditInv'
<1>1. CASE At(h, "shutdown") /\ Talk(h, "exit", Sending(h, 1))
  BY <1>1, ServerThere, GoesOn DEF At, Talking
<1>2. CASE At(h, "exit") /\ Talk(h, "kill", Sending(h, 0))
  BY <1>2, ServerThere, GoesOn DEF At, Talking
<1>3. CASE Done(h)
  BY <1>3, DoneInv
<1> QED
  BY <1>1, <1>2, <1>3 DEF Fails

LEMMA SendInv ==
    ASSUME EditInv, NEW h \in Handlers, Send(h)
    PROVE  EditInv'
<1> DEFINE s == [server[h] EXCEPT !.unread = @ + 1, !.left = @ - 1]
<1>1. /\ req[h].pc \in Talking /\ Talk(h, req[h].pc, s)
      /\ server[h].left > 0 /\ server[h].unread < PipeRoom
  BY DEF Send
<1>2. server[h] \in Server
  BY <1>1, ServerThere
<1>3. PipeRoom \in Nat
  BY TextsAssumption
<1>4. /\ server[h].unread + 1 \in 0..PipeRoom
      /\ server[h].left - 1 \in Nat
  BY <1>1, <1>2, <1>3 DEF Server
<1>5. s \in Server
  BY <1>2, <1>4 DEF Server
<1> HIDE DEF s
<1> QED
  BY <1>1, <1>5, GoesOn

LEMMA KillInv ==
    ASSUME EditInv, NEW h \in Handlers, Kill(h)
    PROVE  EditInv'
<1>1. CASE Done(h)
  BY <1>1, DoneInv
<1>2. CASE Talk(h, "collect", NoServer)
  <2> DEFINE q == [req[h] EXCEPT !.pc = "collect"]
  <2>1. req[h].pc = "kill"
    BY DEF Kill, At
  <2>2. req[h] \in Request
    BY <2>1, ActiveRequest DEF EditInv
  <2>3. q \in Request /\ q.pc = "collect"
    BY <2>2 DEF Request, Applying
  <2>4. /\ req' = [req EXCEPT ![h] = q]
        /\ server' = [server EXCEPT ![h] = NoServer]
        /\ UNCHANGED <<disk, history>>
    BY <1>2 DEF Talk
  <2> HIDE DEF q
  <2> QED
    BY <2>1, <2>3, <2>4, TalkInv DEF Talking
<1> QED
  BY <1>1, <1>2 DEF Kill

LEMMA ConverseInv ==
    ASSUME EditInv, NEW h \in Handlers, Converse(h)
    PROVE  EditInv'
<1>1. CASE Start(h)
  <2>1. [state |-> "reads", unread |-> 0, left |-> 1] \in Server
    BY TextsAssumption DEF Server
  <2> QED
    BY <1>1, <2>1, GoesOn DEF Start, At, Talking
<1>2. CASE StartFails(h)
  BY <1>2, DoneInv DEF StartFails
<1>3. CASE Send(h)
  BY <1>3, SendInv
<1>4. CASE SendFails(h) \/ RequestFails(h)
  BY <1>4, FailsInv DEF SendFails, RequestFails
<1>5. CASE Initialized(h)
  BY <1>5, ServerThere, GoesOn DEF Initialized, Sent, At, Talking
<1>6. CASE Open(h)
  <2>1. req[h].pc = "initialized"
    BY <1>6 DEF Open, Sent, At
  <2>2. Size[req[h].text] \in Nat
    BY <2>1, ActiveRequest, TextsAssumption DEF EditInv, Request
  <2>3. Sending(h, Size[req[h].text]) \in Server
    BY <2>1, <2>2, ServerThere DEF Talking
  <2> QED
    BY <1>6, <2>1, <2>3, GoesOn DEF Open, Talking
<1>7. CASE Ask(h)
  <2>1. req[h].pc \in {"initialized", "open"}
    BY <1>7 DEF Ask, Sent, At
  <2>2. \A n \in {0, 1} : Sending(h, n) \in Server
    BY <2>1, ServerThere DEF Talking
  <2> QED
    BY <1>7, <2>1, <2>2, GoesOn DEF Ask, Talking
<1>8. CASE Answer(h)
  BY <1>8, AnswerInv
<1>9. CASE Listen(h)
  BY <1>9, ServerThere, GoesOn DEF Listen, Sent, At, Talking
<1>10. CASE Exit(h)
  BY <1>10, ServerThere, GoesOn DEF Exit, Sent, At, Talking
<1>11. CASE Kill(h)
  BY <1>11, KillInv
<1> QED
  BY <1>1, <1>2, <1>3, <1>4, <1>5, <1>6, <1>7, <1>8, <1>9, <1>10, <1>11
     DEF Converse

LEMMA ServerStepsInv ==
    ASSUME EditInv, NEW h \in Handlers, ServerSteps(h)
    PROVE  EditInv'
<1>1. CASE ServerAsks(h)
  BY <1>1, ServerThere, GoesOn DEF ServerAsks, Awaits, Sent, At, Talking
<1>2. CASE ServerReads(h)
  <2> DEFINE s == [server[h] EXCEPT !.unread = @ - 1]
  <2>1. /\ req[h].pc \in Talking /\ Talk(h, req[h].pc, s)
        /\ server[h].unread > 0
    BY <1>2 DEF ServerReads
  <2>2. server[h] \in Server
    BY <2>1, ServerThere
  <2>3. s \in Server
    BY <2>1, <2>2, TextsAssumption DEF Server
  <2> HIDE DEF s
  <2> QED
    BY <2>1, <2>3, GoesOn
<1>3. CASE ServerDeaf(h)
  <2> DEFINE s == [server[h] EXCEPT !.state = "deaf"]
  <2>1. req[h].pc \in Talking /\ Talk(h, req[h].pc, s)
    BY <1>3 DEF ServerDeaf
  <2>2. s \in Server
    BY <2>1, ServerThere DEF Server
  <2> HIDE DEF s
  <2> QED
    BY <2>1, <2>2, GoesOn
<1>4. CASE ServerExits(h)
  <2> DEFINE s == [server[h] EXCEPT !.state = "gone", !.unread = 0]
  <2>1. req[h].pc \in Talking /\ Talk(h, req[h].pc, s)
    BY <1>4 DEF ServerExits
  <2>2. 0 \in 0..PipeRoom
    BY TextsAssumption
  <2>3. s \in Server
    BY <2>1, <2>2, ServerThere DEF Server
  <2> HIDE DEF s
  <2> QED
    BY <2>1, <2>3, GoesOn
<1> QED
  BY <1>1, <1>2, <1>3, <1>4 DEF ServerSteps

-----------------------------------------------------------------------------
(* The three loops of apply_workspace_edit                                 *)

(* A step of a loop leaves the edits as the server made them.              *)
LEMMA LoopStep ==
    ASSUME EditInv, NEW h \in Handlers, NEW q \in Request,
           req[h].pc \in Applying, q.pc \in Applying,
           q.edits = req[h].edits,
           req' = [req EXCEPT ![h] = q], server' = server
    PROVE  /\ req' \in [Handlers -> Request \cup {Idle}]
           /\ req'[h] = q
           /\ \A g \in Handlers \ {h} : req'[g] = req[g]
           /\ ServerOf(h)'
           /\ Named(h)' = Named(h)
           /\ NoAlias(h)' = NoAlias(h)
<1>1. req \in [Handlers -> Request \cup {Idle}]
  BY DEF EditInv, TypeInv
<1>2. req'[h] = q
  BY <1>1
<1>3. ServerOf(h)'
  BY <1>2, PhasesDiffer DEF EditInv, Local, ServerOf
<1>4. Named(h)' = Named(h)
  BY <1>2 DEF Named
<1>5. NoAlias(h)' = NoAlias(h)
  BY <1>4 DEF NoAlias
<1> QED
  BY <1>1, <1>2, <1>3, <1>4, <1>5

LEMMA CollectInv ==
    ASSUME EditInv, NEW h \in Handlers, Collect(h)
    PROVE  EditInv'
<1> DEFINE q == [req[h] EXCEPT !.pc = "prepare", !.todo = Named(h)]
<1>1. /\ req[h].pc = "collect" /\ UNCHANGED <<disk, server, history>>
      /\ req' = [req EXCEPT ![h] = q]
  BY DEF Collect, At
<1>2. TypeInv /\ Local(h) /\ req[h] \in Request
  BY <1>1, ActiveRequest DEF EditInv
<1>3. /\ q \in Request /\ q.pc = "prepare" /\ q.todo = Named(h)
      /\ q.edits = req[h].edits
  BY <1>2, NamedURIs DEF Request, Applying
<1>4. UNCHANGED <<disk, server, checked, fresh, wrote>>
  BY <1>1 DEF history
<1>5. req[h].pc \in Applying
  BY <1>1 DEF Applying
<1> HIDE DEF q
<1>6. /\ req' \in [Handlers -> Request \cup {Idle}] /\ req'[h] = q
      /\ \A g \in Handlers \ {h} : req'[g] = req[g]
      /\ ServerOf(h)' /\ Named(h)' = Named(h)
  BY <1>1, <1>3, <1>4, <1>5, LoopStep DEF Applying
<1>7. TypeInv'
  BY <1>2, <1>4, <1>6 DEF TypeInv
<1>8. checked[h] = {} /\ fresh[h] = {} /\ wrote[h] = {}
  BY <1>1, <1>2 DEF Local, ForgottenOf, Changing
<1>9. Local(h)'
  BY <1>3, <1>4, <1>6, <1>8 DEF Local, ForgottenOf, PreparedOf, CheckedOf,
     WroteOf, FreshOf, Changing
<1> QED
  BY <1>4, <1>6, <1>7, <1>9, LocalStep

LEMMA PrepareFileInv ==
    ASSUME EditInv, NEW h \in Handlers, PrepareFile(h)
    PROVE  EditInv'
<1>1. PICK u \in Uris :
         /\ IsNext(h, u) /\ Editable(h, u)
         /\ req' = [req EXCEPT
               ![h].items[u] =
                  [original |-> disk[Resolved[u]],
                   updated |-> Fit[req[h].edits[u]][disk[Resolved[u]]]],
               ![h].todo = @ \ {u}]
  BY DEF PrepareFile
<1> DEFINE item == [original |-> disk[Resolved[u]],
                    updated |-> Fit[req[h].edits[u]][disk[Resolved[u]]]]
           q == [req[h] EXCEPT !.items = [@ EXCEPT ![u] = item],
                               !.todo = @ \ {u}]
<1>2. req[h].pc = "prepare" /\ UNCHANGED <<disk, server, history>>
  BY DEF PrepareFile, At
<1>3. UNCHANGED <<disk, server, checked, fresh, wrote>>
  BY <1>2 DEF history
<1>4. TypeInv /\ Local(h) /\ req[h] \in Request
  BY <1>2, ActiveRequest DEF EditInv
<1>5. req' = [req EXCEPT ![h] = q]
  BY <1>1, <1>4 DEF Request
<1>6. u \in req[h].todo /\ req[h].todo \subseteq Named(h)
  BY <1>1, <1>2, <1>4 DEF IsNext, Local, PreparedOf
<1>7. req[h].edits[u] \in Texts
  BY <1>4, <1>6 DEF Named, Request
<1>8. /\ Resolved[u] \in Files /\ disk[Resolved[u]] \in Texts
      /\ disk[Resolved[u]] \in DOMAIN Fit[req[h].edits[u]]
  <2>1. Resolved[u] \in Files
    BY <1>1, FilesAssumption DEF Editable
  <2> QED
    BY <1>1, <1>4, <2>1 DEF Editable, TypeInv
<1>9. item \in Item
  BY <1>7, <1>8, TextsAssumption DEF Item
<1>10. /\ item.original = disk[Resolved[u]]
       /\ item.updated = Fit[req[h].edits[u]][item.original]
  OBVIOUS
<1> HIDE DEF item
<1>11. /\ q \in Request /\ q.pc = "prepare" /\ q.edits = req[h].edits
       /\ q.todo = req[h].todo \ {u}
       /\ q.items = [req[h].items EXCEPT ![u] = item]
  BY <1>2, <1>4, <1>9 DEF Request
<1>12. q.items[u] = item /\ \A v \in Uris \ {u} : q.items[v] = req[h].items[v]
  BY <1>4, <1>11 DEF Request
<1> HIDE DEF q
<1>13. /\ req' \in [Handlers -> Request \cup {Idle}] /\ req'[h] = q
       /\ \A g \in Handlers \ {h} : req'[g] = req[g]
       /\ ServerOf(h)' /\ Named(h)' = Named(h)
  BY <1>2, <1>3, <1>5, <1>11, LoopStep DEF Applying
<1>14. TypeInv'
  BY <1>3, <1>4, <1>13 DEF TypeInv
<1>15. ForgottenOf(h)'
  BY <1>2, <1>3, <1>4, <1>11, <1>13 DEF Local, ForgottenOf, Changing
<1>16. ItemOK(h, u)'
  BY <1>7, <1>8, <1>9, <1>10, <1>11, <1>12, <1>13 DEF ItemOK
<1>17. ASSUME NEW v \in Named(h) \ req[h].todo
       PROVE  ItemOK(h, v)'
  <2>1. ItemOK(h, v)
    BY <1>2, <1>4 DEF Local, PreparedOf
  <2>2. q.items[v] = req[h].items[v]
    BY <1>6, <1>12, NamedURIs
  <2> QED
    BY <1>11, <1>13, <2>1, <2>2 DEF ItemOK
<1>18. PreparedOf(h)'
  BY <1>6, <1>11, <1>13, <1>16, <1>17 DEF PreparedOf, Changing
<1>19. CheckedOf(h)' /\ WroteOf(h)' /\ FreshOf(h)'
  BY <1>11, <1>13 DEF CheckedOf, WroteOf, FreshOf, Changing
<1> QED
  BY <1>3, <1>13, <1>14, <1>15, <1>18, <1>19, LocalStep DEF Local

LEMMA PreparedInv ==
    ASSUME EditInv, NEW h \in Handlers, Prepared(h)
    PROVE  EditInv'
<1>1. CASE Done(h)
  BY <1>1, DoneInv
<1>2. CASE ~Done(h)
  <2> DEFINE q == [req[h] EXCEPT !.pc = "recheck", !.todo = Named(h)]
  <2>1. /\ req[h].pc = "prepare" /\ req[h].todo = {}
        /\ req' = [req EXCEPT ![h] = q]
        /\ UNCHANGED <<disk, server, history>>
    BY <1>2 DEF Prepared, At
  <2>2. TypeInv /\ Local(h) /\ req[h] \in Request
    BY <2>1, ActiveRequest DEF EditInv
  <2>3. UNCHANGED <<disk, server, checked, fresh, wrote>>
    BY <2>1 DEF history
  <2>4. /\ q \in Request /\ q.pc = "recheck" /\ q.todo = Named(h)
        /\ q.edits = req[h].edits /\ q.items = req[h].items
    BY <2>2, NamedURIs DEF Request, Applying
  <2> HIDE DEF q
  <2>5. /\ req' \in [Handlers -> Request \cup {Idle}] /\ req'[h] = q
        /\ \A g \in Handlers \ {h} : req'[g] = req[g]
        /\ ServerOf(h)' /\ Named(h)' = Named(h)
    BY <2>1, <2>3, <2>4, LoopStep DEF Applying
  <2>6. TypeInv'
    BY <2>2, <2>3, <2>5 DEF TypeInv
  <2>7. checked'[h] = {} /\ fresh'[h] = {} /\ wrote'[h] = {}
    BY <2>1, <2>2, <2>3 DEF Local, ForgottenOf, Changing
  <2>8. \A u \in Named(h) : ItemOK(h, u)'
    <3>1. \A u \in Named(h) : ItemOK(h, u)
      BY <2>1, <2>2 DEF Local, PreparedOf
    <3> QED
      BY <2>4, <2>5, <3>1 DEF ItemOK
  <2>9. PreparedOf(h)'
    BY <2>4, <2>5, <2>8 DEF PreparedOf
  <2>10. CheckedOf(h)' /\ WroteOf(h)' /\ FreshOf(h)' /\ ForgottenOf(h)'
    BY <2>4, <2>5, <2>7 DEF CheckedOf, WroteOf, FreshOf, ForgottenOf
  <2> QED
    BY <2>3, <2>5, <2>6, <2>9, <2>10, LocalStep DEF Local
<1> QED
  BY <1>1, <1>2

LEMMA RecheckInv ==
    ASSUME EditInv, NEW h \in Handlers, Recheck(h)
    PROVE  EditInv'
<1>1. PICK u \in Uris :
         /\ IsNext(h, u) /\ Unchanged(h, u)
         /\ req' = [req EXCEPT ![h].todo = @ \ {u}]
         /\ checked' = [checked EXCEPT ![h] = @ \cup {u}]
         /\ fresh' = [fresh EXCEPT ![h] = @ \cup {Resolved[u]}]
  BY DEF Recheck
<1> DEFINE q == [req[h] EXCEPT !.todo = @ \ {u}]
<1>2. req[h].pc = "recheck" /\ UNCHANGED <<disk, server, wrote>>
  BY DEF Recheck, At
<1>3. TypeInv /\ Local(h) /\ req[h] \in Request
  BY <1>2, ActiveRequest DEF EditInv
<1>4. req' = [req EXCEPT ![h] = q]
  BY <1>1
<1>5. /\ q \in Request /\ q.pc = "recheck" /\ q.todo = req[h].todo \ {u}
      /\ q.edits = req[h].edits /\ q.items = req[h].items
  BY <1>2, <1>3 DEF Request
<1> HIDE DEF q
<1>6. /\ req' \in [Handlers -> Request \cup {Idle}] /\ req'[h] = q
      /\ \A g \in Handlers \ {h} : req'[g] = req[g]
      /\ ServerOf(h)' /\ Named(h)' = Named(h) /\ NoAlias(h)' = NoAlias(h)
  BY <1>2, <1>4, <1>5, LoopStep DEF Applying
<1>7. u \in req[h].todo /\ req[h].todo \subseteq Named(h)
  BY <1>1, <1>2, <1>3 DEF IsNext, Local, PreparedOf, Changing
<1>8. \A v \in Named(h) : ItemOK(h, v)
  BY <1>2, <1>3 DEF Local, PreparedOf, Changing
<1>9. Resolved[u] \in Files
  BY <1>7, <1>8 DEF ItemOK
<1>10. /\ checked' \in [Handlers -> SUBSET Uris]
       /\ fresh' \in [Handlers -> SUBSET Files]
       /\ checked'[h] = checked[h] \cup {u}
       /\ fresh'[h] = fresh[h] \cup {Resolved[u]}
       /\ \A g \in Handlers \ {h} :
             checked'[g] = checked[g] /\ fresh'[g] = fresh[g]
  BY <1>1, <1>3, <1>9 DEF TypeInv
<1>11. TypeInv'
  BY <1>2, <1>3, <1>6, <1>10 DEF TypeInv
<1>12. \A v \in Named(h) : ItemOK(h, v)'
  BY <1>5, <1>6, <1>8 DEF ItemOK
<1>13. PreparedOf(h)'
  BY <1>5, <1>6, <1>7, <1>12 DEF PreparedOf
<1>14. checked[h] = Named(h) \ req[h].todo
  BY <1>2, <1>3 DEF Local, CheckedOf
<1>15. CheckedOf(h)'
  BY <1>5, <1>6, <1>7, <1>10, <1>14 DEF CheckedOf
<1>16. ForgottenOf(h)' /\ WroteOf(h)'
  BY <1>2, <1>3, <1>5, <1>6 DEF Local, ForgottenOf, WroteOf, Changing
<1>17. FreshOf(h)'
  <2> SUFFICES ASSUME NoAlias(h), NEW v \in checked[h] \cup {u},
                      Resolved[v] \in fresh[h] \cup {Resolved[u]}
               PROVE  disk[Resolved[v]] = req[h].items[v].original
    BY <1>2, <1>5, <1>6, <1>10 DEF FreshOf, Expected
  <2>1. CASE v = u
    BY <1>1, <2>1 DEF Unchanged
  <2>2. CASE v # u
    <3>1. v \in checked[h] /\ Resolved[v] # Resolved[u]
      BY <1>7, <1>14, <2>2 DEF NoAlias
    <3>2. Resolved[v] \in fresh[h]
      BY <3>1
    <3> QED
      BY <1>2, <1>3, <3>1, <3>2 DEF Local, FreshOf, Expected, Changing
  <2> QED
    BY <2>1, <2>2
<1> QED
  BY <1>2, <1>6, <1>10, <1>11, <1>13, <1>15, <1>16, <1>17, LocalStep DEF Local

LEMMA RecheckedInv ==
    ASSUME EditInv, NEW h \in Handlers, Rechecked(h)
    PROVE  EditInv'
<1> DEFINE q == [req[h] EXCEPT !.pc = "write", !.todo = Named(h)]
<1>1. /\ req[h].pc = "recheck" /\ req[h].todo = {}
      /\ req' = [req EXCEPT ![h] = q]
      /\ UNCHANGED <<disk, server, history>>
  BY DEF Rechecked, At
<1>2. TypeInv /\ Local(h) /\ req[h] \in Request
  BY <1>1, ActiveRequest DEF EditInv
<1>3. UNCHANGED <<disk, server, checked, fresh, wrote>>
  BY <1>1 DEF history
<1>4. /\ q \in Request /\ q.pc = "write" /\ q.todo = Named(h)
      /\ q.edits = req[h].edits /\ q.items = req[h].items
  BY <1>2, NamedURIs DEF Request, Applying
<1> HIDE DEF q
<1>5. /\ req' \in [Handlers -> Request \cup {Idle}] /\ req'[h] = q
      /\ \A g \in Handlers \ {h} : req'[g] = req[g]
      /\ ServerOf(h)' /\ Named(h)' = Named(h) /\ NoAlias(h)' = NoAlias(h)
  BY <1>1, <1>3, <1>4, LoopStep DEF Applying
<1>6. TypeInv'
  BY <1>2, <1>3, <1>5 DEF TypeInv
<1>7. \A u \in Named(h) : ItemOK(h, u)'
  <2>1. \A u \in Named(h) : ItemOK(h, u)
    BY <1>1, <1>2 DEF Local, PreparedOf, Changing
  <2> QED
    BY <1>4, <1>5, <2>1 DEF ItemOK
<1>8. PreparedOf(h)'
  BY <1>4, <1>5, <1>7 DEF PreparedOf
<1>9. checked[h] = Named(h)
  BY <1>1, <1>2 DEF Local, CheckedOf
<1>10. wrote[h] = {}
  BY <1>1, <1>2 DEF Local, ForgottenOf
<1>11. CheckedOf(h)' /\ WroteOf(h)' /\ ForgottenOf(h)'
  BY <1>3, <1>4, <1>5, <1>9, <1>10 DEF CheckedOf, WroteOf, ForgottenOf, Changing
<1>12. FreshOf(h)'
  <2> SUFFICES ASSUME NoAlias(h), NEW u \in Named(h), Resolved[u] \in fresh[h]
               PROVE  disk[Resolved[u]] = req[h].items[u].original
    BY <1>3, <1>4, <1>5, <1>9 DEF FreshOf, Expected
  <2> QED
    BY <1>1, <1>2, <1>9 DEF Local, FreshOf, Expected, Changing
<1> QED
  BY <1>3, <1>5, <1>6, <1>8, <1>11, <1>12, LocalStep DEF Local

(* Replacing a file keeps what is known of the others: no other URI of the *)
(* edit stands for it, and the other handlers no longer count on it.       *)
LEMMA WriteItemInv ==
    ASSUME EditInv, NEW h \in Handlers, WriteItem(h)
    PROVE  EditInv'
<1>1. PICK u \in Uris :
         /\ IsNext(h, u)
         /\ req' = [req EXCEPT ![h].todo = @ \ {u}]
         /\ Replace(h, u)
  BY DEF WriteItem
<1> DEFINE q == [req[h] EXCEPT !.todo = @ \ {u}]
           f == Resolved[u]
           item == req[h].items[u]
<1>2. req[h].pc = "write" /\ server' = server
  BY DEF WriteItem, At
<1>3. TypeInv /\ Local(h) /\ req[h] \in Request
  BY <1>2, ActiveRequest DEF EditInv
<1>4. req' = [req EXCEPT ![h] = q]
  BY <1>1
<1>5. /\ q \in Request /\ q.pc = "write" /\ q.todo = req[h].todo \ {u}
      /\ q.edits = req[h].edits /\ q.items = req[h].items
  BY <1>2, <1>3 DEF Request
<1> HIDE DEF q
<1>6. /\ req' \in [Handlers -> Request \cup {Idle}] /\ req'[h] = q
      /\ \A g \in Handlers \ {h} : req'[g] = req[g]
      /\ ServerOf(h)' /\ Named(h)' = Named(h) /\ NoAlias(h)' = NoAlias(h)
  BY <1>2, <1>4, <1>5, LoopStep DEF Applying
<1>7. u \in req[h].todo /\ req[h].todo \subseteq Named(h)
  BY <1>1, <1>2, <1>3 DEF IsNext, Local, PreparedOf, Changing
<1>8. \A v \in Named(h) : ItemOK(h, v)
  BY <1>2, <1>3 DEF Local, PreparedOf, Changing
<1>9. f \in Files /\ item \in Item
  BY <1>7, <1>8 DEF ItemOK
<1>10. \/ item.original = item.updated /\ UNCHANGED <<disk, history>>
       \/ /\ disk' = [disk EXCEPT ![f] = item.updated]
          /\ wrote' = [wrote EXCEPT ![h] = @ \cup {f}]
          /\ fresh' = [g \in Handlers |->
                         IF g = h THEN fresh[g] ELSE fresh[g] \ {f}]
          /\ checked' = checked
  BY <1>1 DEF Replace
<1>11. item.updated \in Texts
  BY <1>9 DEF Item
<1> HIDE DEF f, item
<1>12. /\ disk' \in [Files -> Texts \cup {None}]
       /\ checked' = checked
       /\ fresh' \in [Handlers -> SUBSET Files]
       /\ fresh'[h] = fresh[h]
       /\ wrote' \in [Handlers -> SUBSET Files]
       /\ wrote'[h] \subseteq wrote[h] \cup {f}
       /\ \A g \in Handlers \ {h} :
             /\ wrote'[g] = wrote[g]
             /\ fresh'[g] \subseteq fresh[g]
             /\ \A e \in fresh'[g] : disk'[e] = disk[e]
       /\ \A e \in Files \ {f} : disk'[e] = disk[e]
       /\ \/ disk'[f] = disk[f] /\ item.original = item.updated
          \/ disk'[f] = item.updated
  <2>1. CASE item.original = item.updated /\ UNCHANGED <<disk, history>>
    BY <1>3, <2>1 DEF TypeInv, history
  <2>2. CASE /\ disk' = [disk EXCEPT ![f] = item.updated]
             /\ wrote' = [wrote EXCEPT ![h] = @ \cup {f}]
             /\ fresh' = [g \in Handlers |->
                            IF g = h THEN fresh[g] ELSE fresh[g] \ {f}]
             /\ checked' = checked
    BY <1>3, <1>9, <1>11, <2>2 DEF TypeInv
  <2> QED
    BY <1>10, <2>1, <2>2
<1>13. TypeInv'
  BY <1>2, <1>3, <1>6, <1>12 DEF TypeInv
<1>14. \A v \in Named(h) : ItemOK(h, v)'
  BY <1>5, <1>6, <1>8 DEF ItemOK
<1>15. PreparedOf(h)'
  BY <1>5, <1>6, <1>7, <1>14 DEF PreparedOf
<1>16. checked[h] = Named(h)
  BY <1>2, <1>3 DEF Local, CheckedOf
<1>17. wrote[h] \subseteq {Resolved[v] : v \in Named(h)}
  BY <1>2, <1>3 DEF Local, WroteOf
<1>18. CheckedOf(h)' /\ ForgottenOf(h)'
  BY <1>5, <1>6, <1>12, <1>16 DEF CheckedOf, ForgottenOf, Changing
<1>19. WroteOf(h)'
  BY <1>6, <1>7, <1>12, <1>17 DEF WroteOf, f
<1>20. FreshOf(h)'
  <2> SUFFICES ASSUME NoAlias(h), NEW v \in Named(h), Resolved[v] \in fresh[h]
               PROVE  disk'[Resolved[v]] = Expected(h, v)'
    BY <1>6, <1>12, <1>16 DEF FreshOf
  <2>1. disk[Resolved[v]] = Expected(h, v)
    BY <1>2, <1>3, <1>16 DEF Local, FreshOf, Changing
  <2>2. CASE v = u
    <3>1. Expected(h, v)' = item.updated
      BY <1>5, <1>6, <2>2 DEF Expected, item
    <3>2. Expected(h, v) = item.original
      BY <1>7, <2>2 DEF Expected, item
    <3> QED
      BY <1>12, <2>1, <2>2, <3>1, <3>2 DEF f
  <2>3. CASE v # u
    <3>1. Resolved[v] # f
      BY <1>7, <2>3 DEF NoAlias, f
    <3>2. Resolved[v] \in Files
      BY <1>8 DEF ItemOK
    <3>3. Expected(h, v)' = Expected(h, v)
      BY <1>2, <1>5, <1>6, <2>3 DEF Expected
    <3> QED
      BY <1>12, <2>1, <3>1, <3>2, <3>3
  <2> QED
    BY <2>2, <2>3
<1>21. Local(h)'
  BY <1>6, <1>15, <1>18, <1>19, <1>20 DEF Local
<1> QED
  BY <1>2, <1>6, <1>12, <1>13, <1>21, LocalStep

LEMMA StepInv ==
    ASSUME EditInv, NEW h \in Handlers, Step(h)
    PROVE  EditInv'
<1>1. CASE Converse(h)
  BY <1>1, ConverseInv
<1>2. CASE Preflight(h)
  <2>1. CASE CollectRefused(h) \/ PrepareRefused(h) \/ RecheckRefused(h)
    BY <2>1, DoneInv DEF CollectRefused, PrepareRefused, RecheckRefused
  <2> QED
    BY <1>2, <2>1, CollectInv, PrepareFileInv, PreparedInv, RecheckInv,
       RecheckedInv DEF Preflight
<1>3. CASE Write(h)
  <2>1. CASE WriteFailed(h) \/ Applied(h)
    BY <2>1, DoneInv DEF WriteFailed, Applied
  <2> QED
    BY <1>3, <2>1, WriteItemInv DEF Write
<1> QED
  BY <1>1, <1>2, <1>3 DEF Step

-----------------------------------------------------------------------------
(* Everybody else                                                          *)

LEMMA OutsideWriteInv ==
    ASSUME EditInv, NEW f \in Files, OutsideWrite(f)
    PROVE  EditInv'
<1>1. PICK c \in Texts \cup {None} : disk' = [disk EXCEPT ![f] = c]
  BY DEF OutsideWrite
<1>2. /\ fresh' = [h \in Handlers |-> fresh[h] \ {f}]
      /\ UNCHANGED <<req, server, checked, wrote>>
  BY DEF OutsideWrite
<1>3. TypeInv
  BY DEF EditInv
<1>4. TypeInv'
  BY <1>1, <1>2, <1>3 DEF TypeInv
<1>5. ASSUME NEW h \in Handlers
      PROVE  Local(h)'
  <2>1. Local(h) /\ fresh'[h] = fresh[h] \ {f}
    BY <1>2 DEF EditInv
  <2>2. Named(h)' = Named(h) /\ ServerOf(h)'
    BY <1>2, <2>1 DEF Named, Local, ServerOf
  <2>3. \A u : ItemOK(h, u)' <=> ItemOK(h, u)
    BY <1>2 DEF ItemOK
  <2>4. PreparedOf(h)' /\ CheckedOf(h)' /\ WroteOf(h)'
    BY <1>2, <2>1, <2>2, <2>3 DEF Local, PreparedOf, CheckedOf, WroteOf
  <2>5. ForgottenOf(h)'
    BY <1>2, <2>1 DEF Local, ForgottenOf
  <2>6. FreshOf(h)'
    <3> SUFFICES ASSUME req[h].pc \in Changing, NoAlias(h),
                        NEW u \in checked[h],
                        Resolved[u] \in fresh[h] \ {f}
                 PROVE  disk'[Resolved[u]] = Expected(h, u)
      BY <1>2, <2>1, <2>2 DEF FreshOf, NoAlias, Expected
    <3>1. Resolved[u] \in Files
      BY <1>3 DEF TypeInv
    <3> QED
      BY <1>1, <1>3, <2>1, <3>1 DEF Local, FreshOf, TypeInv
  <2> QED
    BY <2>1, <2>2, <2>4, <2>5, <2>6 DEF Local
<1> QED
  BY <1>4, <1>5 DEF EditInv

LEMMA InitInv == Init => EditInv
<1> SUFFICES ASSUME Init
             PROVE  EditInv
  OBVIOUS
<1>1. TypeInv
  BY DEF Init, TypeInv
<1>2. ASSUME NEW h \in Handlers
      PROVE  Local(h)
  <2>1. /\ req[h].pc = "idle" /\ server[h] = NoServer
        /\ checked[h] = {} /\ fresh[h] = {} /\ wrote[h] = {}
    BY PhasesDiffer DEF Init
  <2> QED
    BY <2>1 DEF Local, ServerOf, ForgottenOf, PreparedOf, CheckedOf, WroteOf,
       FreshOf, Changing, Talking
<1> QED
  BY <1>1, <1>2 DEF EditInv

LEMMA NextInv == EditInv /\ [Next]_vars => EditInv'
<1> SUFFICES ASSUME EditInv, [Next]_vars
             PROVE  EditInv'
  OBVIOUS
<1>1. ASSUME NEW h \in Handlers, Begin(h) \/ Step(h) \/ Disconnect(h)
                                  \/ ServerSteps(h)
      PROVE  EditInv'
  BY <1>1, BeginInv, StepInv, DoneInv, ServerStepsInv DEF Disconnect
<1>2. ASSUME NEW f \in Files, OutsideWrite(f)
      PROVE  EditInv'
  BY <1>2, OutsideWriteInv
<1>3. CASE UNCHANGED vars
  <2>1. UNCHANGED <<disk, req, server, checked, fresh, wrote>>
    BY <1>3 DEF vars
  <2>2. TypeInv'
    BY <2>1 DEF EditInv, TypeInv
  <2>3. ASSUME NEW h \in Handlers
        PROVE  Local(h)'
    <3>1. Local(h)
      BY DEF EditInv
    <3> QED
      BY <2>1, <3>1 DEF Local, ServerOf, ForgottenOf, PreparedOf, CheckedOf,
         WroteOf, FreshOf, Named, NoAlias, ItemOK, Expected
  <2> QED
    BY <2>2, <2>3 DEF EditInv
<1> QED
  BY <1>1, <1>2, <1>3 DEF Next

THEOREM EditInvariant == Spec => []EditInv
  BY InitInv, NextInv, PTL DEF Spec

-----------------------------------------------------------------------------
(* Types; and a language server runs exactly while its request talks to it *)
(* (lsp.rs: kill_on_drop, LspProcess::shutdown).                           *)
THEOREM TypeCorrect == Spec => []TypeOK
<1>1. EditInv => TypeOK
  BY DEF EditInv, TypeInv, Local, ServerOf, TypeOK
<1> QED
  BY <1>1, EditInvariant, PTL

(* An edit that is refused, in any of the three loops, has changed nothing *)
(* (apply_workspace_edit).                                                 *)
THEOREM RefusalChangesNothing == Spec => RefusedMeansUntouched
<1>1. ASSUME EditInv, NEW h \in Handlers,
             CollectRefused(h) \/ PrepareRefused(h) \/ RecheckRefused(h)
      PROVE  wrote[h] = {}
  <2>1. req[h].pc # "write"
    BY <1>1 DEF CollectRefused, PrepareRefused, RecheckRefused, At
  <2> QED
    BY <1>1, <2>1 DEF EditInv, Local, ForgottenOf
<1>2. EditInv => \A h \in Handlers :
         (CollectRefused(h) \/ PrepareRefused(h) \/ RecheckRefused(h))
            => wrote[h] = {}
  BY <1>1
<1> QED
  BY <1>2, EditInvariant, PTL DEF RefusedMeansUntouched

(* Nothing is replaced before all files have been read again, and a file on*)
(* which nobody else has laid hands since gets what the edit makes of the  *)
(* text that it holds (apply_workspace_edit).                              *)
THEOREM ReplacementIsOfRecheckedText == Spec => ReplacesRecheckedText
<1> DEFINE Right(h) == \A u \in Named(h) :
              LET f == Resolved[u]
              IN  (f \in fresh[h] /\ disk'[f] # disk[f])
                     => disk'[f] = Fit[req[h].edits[u]][disk[f]]
<1>1. ASSUME EditInv, NEW h \in Handlers, WriteItem(h)
      PROVE  checked[h] = Named(h) /\ (NoAlias(h) => Right(h))
  <2>1. req[h].pc = "write" /\ Local(h) /\ TypeInv
    BY <1>1 DEF WriteItem, At, EditInv
  <2>2. checked[h] = Named(h)
    BY <2>1 DEF Local, CheckedOf
  <2>3. ASSUME NoAlias(h), NEW u \in Named(h), Resolved[u] \in fresh[h],
               disk'[Resolved[u]] # disk[Resolved[u]]
        PROVE  disk'[Resolved[u]] = Fit[req[h].edits[u]][disk[Resolved[u]]]
    <3>1. PICK v \in Uris : IsNext(h, v) /\ Replace(h, v)
      BY <1>1 DEF WriteItem
    <3>2. disk' = [disk EXCEPT ![Resolved[v]] = req[h].items[v].updated]
      BY <2>3, <3>1 DEF Replace
    <3>3. v \in req[h].todo /\ v \in Named(h)
      BY <2>1, <3>1 DEF IsNext, Local, PreparedOf, Changing
    <3>4. Resolved[u] = Resolved[v]
      BY <2>1, <2>3, <3>2 DEF TypeInv
    <3>5. u = v
      BY <2>3, <3>3, <3>4 DEF NoAlias
    <3>6. ItemOK(h, u) /\ disk[Resolved[u]] = req[h].items[u].original
      BY <2>1, <2>2, <2>3, <3>3, <3>5
         DEF Local, PreparedOf, FreshOf, Expected, Changing
    <3>7. disk'[Resolved[u]] = req[h].items[u].updated
      BY <2>1, <3>2, <3>5, <3>6 DEF TypeInv, ItemOK
    <3> QED
      BY <3>6, <3>7 DEF ItemOK
  <2> QED
    BY <2>2, <2>3
<1>2. EditInv => \A h \in Handlers : (WriteItem(h) /\ disk' # disk) =>
         /\ checked[h] = Named(h)
         /\ NoAlias(h) => Right(h)
  BY <1>1
<1> QED
  BY <1>2, EditInvariant, PTL DEF ReplacesRecheckedText

(* A request that answers "applied" has left its new text in every file    *)
(* that nobody else has touched, and has touched no file that its edit     *)
(* does not name (apply_workspace_edit).                                   *)
THEOREM AppliedIsComplete == Spec => AppliedMeansAll
<1> DEFINE Complete(h) ==
              /\ wrote[h] \subseteq {Resolved[u] : u \in Named(h)}
              /\ \A u \in Named(h) :
                    Resolved[u] \in fresh[h]
                       => disk[Resolved[u]] = req[h].items[u].updated
<1>1. ASSUME EditInv, NEW h \in Handlers, Applied(h), NoAlias(h)
      PROVE  Complete(h)
  <2>1. req[h].pc = "write" /\ req[h].todo = {} /\ Local(h)
    BY <1>1 DEF Applied, At, EditInv
  <2>2. wrote[h] \subseteq {Resolved[u] : u \in Named(h)}
    BY <2>1 DEF Local, WroteOf
  <2>3. ASSUME NEW u \in Named(h), Resolved[u] \in fresh[h]
        PROVE  disk[Resolved[u]] = req[h].items[u].updated
    BY <1>1, <2>1, <2>3 DEF Local, CheckedOf, FreshOf, Expected, Changing
  <2> QED
    BY <2>2, <2>3
<1>2. EditInv => \A h \in Handlers :
         (Applied(h) /\ NoAlias(h)) => Complete(h)
  BY <1>1
<1> QED
  BY <1>2, EditInvariant, PTL DEF AppliedMeansAll
=============================================================================
