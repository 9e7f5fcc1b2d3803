------------------------- MODULE RequestGateProofs -------------------------
(***************************************************************************)
(* Proofs about the request gate: permits are conserved, a running guarded *)
(* handler owns its approval, and the gate implements OneShotGrants, hence *)
(* a guarded operation runs at most once per approval; callers that are    *)
(* not authorized move nothing; and request numbers are audited once.      *)
(***************************************************************************)
EXTENDS RoleGate, FiniteSetTheorems, SequenceTheorems, TLAPS

-----------------------------------------------------------------------------
(* The inductive invariant.                                                *)

(* Types.  An approval has an id that was drawn.                           *)
TypeInv ==
    /\ permits \in Nat
    /\ sequence \in 0..RequestBound
    /\ issued \in 0..ApprovalBound
    /\ DOMAIN approvals \subseteq 1..issued
    /\ \A id \in DOMAIN approvals : approvals[id] \in ApprovalRecord
    /\ audit \in Seq([id : Nat, path : Paths])
    /\ req \in [Requests -> Request \cup {Idle}]
    /\ approved \in [Paths -> Nat]
    /\ ran \in [Paths -> Nat]
    /\ restarts \in 0..RestartBound

(* An id that was drawn and not yet used belongs to one request.           *)
IdsFresh ==
    \A r \in Requests : req[r].pc = "insert" =>
      /\ req[r].asks \in 1..issued
      /\ req[r].asks \notin DOMAIN approvals
      /\ \A q \in Requests : (req[q].pc = "insert" /\ req[q].asks = req[r].asks)
                                => q = r

(* Only guarded paths come to the gate, and only a guarded handler owns an *)
(* approval.                                                               *)
NothingOwned ==
    \A r \in Requests :
      /\ req[r].pc = "consume" => Gated(req[r].path)
      /\ (\/ req[r].pc \in {"started", "consume", "ask", "insert"}
          \/ req[r].pc = "handler" /\ ~Gated(req[r].path)) => req[r].uses = None

(* The part of the invariant that does not count anything.                 *)
GateInv == TypeInv /\ IdsFresh /\ NothingOwned /\ HandlerOwnsApproval

-----------------------------------------------------------------------------
(* Requests.                                                               *)

(* A request is either idle or has all its fields.                         *)
LEMMA ActiveRequest ==
    ASSUME TypeInv, NEW r \in Requests, req[r].pc # "idle"
    PROVE  req[r] \in Request /\ req[r].pc \in Phase
  BY DEF TypeInv, Idle, Request

(* Moving on changes nothing but the program counter.                      *)
LEMMA NextPhase ==
    ASSUME NEW q \in Request, NEW pc \in Phase
    PROVE  /\ [q EXCEPT !.pc = pc] \in Request
           /\ [q EXCEPT !.pc = pc].pc = pc
           /\ [q EXCEPT !.pc = pc].path = q.path
           /\ [q EXCEPT !.pc = pc].cred = q.cred
           /\ [q EXCEPT !.pc = pc].id = q.id
           /\ [q EXCEPT !.pc = pc].asks = q.asks
           /\ [q EXCEPT !.pc = pc].uses = q.uses
  BY DEF Request

(* What Goto does to the requests.                                         *)
LEMMA GotoFacts ==
    ASSUME TypeInv, NEW r \in Requests, req[r].pc # "idle",
           NEW pc \in Phase, Goto(r, pc)
    PROVE  /\ req' \in [Requests -> Request \cup {Idle}]
           /\ \A q \in Requests \ {r} : req'[q] = req[q]
           /\ req'[r].pc = pc
           /\ req'[r].path = req[r].path
           /\ req'[r].cred = req[r].cred
           /\ req'[r].id = req[r].id
           /\ req'[r].asks = req[r].asks
           /\ req'[r].uses = req[r].uses
<1>1. req[r] \in Request
  BY ActiveRequest
<1>2. req \in [Requests -> Request \cup {Idle}]
  BY DEF TypeInv
<1>3. req' = [req EXCEPT ![r] = [req[r] EXCEPT !.pc = pc]]
  BY DEF Goto
<1>4. req'[r] = [req[r] EXCEPT !.pc = pc]
  BY <1>2, <1>3
<1>5. [req[r] EXCEPT !.pc = pc] \in Request
  BY <1>1, NextPhase
<1>6. /\ req' \in [Requests -> Request \cup {Idle}]
      /\ \A q \in Requests \ {r} : req'[q] = req[q]
  BY <1>2, <1>3, <1>5
<1>7. /\ req'[r].pc = pc /\ req'[r].path = req[r].path
      /\ req'[r].cred = req[r].cred /\ req'[r].id = req[r].id
      /\ req'[r].asks = req[r].asks /\ req'[r].uses = req[r].uses
  BY <1>1, <1>4, NextPhase
<1> QED
  BY <1>6, <1>7

(* What Leave does to the requests.                                        *)
LEMMA LeaveFacts ==
    ASSUME TypeInv, NEW r \in Requests, Leave(r)
    PROVE  /\ req' \in [Requests -> Request \cup {Idle}]
           /\ \A q \in Requests \ {r} : req'[q] = req[q]
           /\ req'[r] = Idle
           /\ req'[r].pc = "idle"
  BY DEF TypeInv, Leave, Idle

(* A response leaves a request without permit, in a phase after the        *)
(* handler.                                                                *)
LEMMA RespondFacts ==
    ASSUME TypeInv, NEW r \in Requests, req[r].pc # "idle", Respond(r)
    PROVE  /\ permits' = permits + 1
           /\ req' \in [Requests -> Request \cup {Idle}]
           /\ \A q \in Requests \ {r} : req'[q] = req[q]
           /\ req'[r].pc \in {"idle", "audit", "finished"}
<1>1. CASE Goto(r, "audit")
  BY <1>1, GotoFacts DEF Phase, Respond
<1>2. CASE Goto(r, "finished")
  BY <1>2, GotoFacts DEF Phase, Respond
<1>3. CASE Leave(r)
  BY <1>3, LeaveFacts DEF Respond
<1> QED
  BY <1>1, <1>2, <1>3 DEF Respond

-----------------------------------------------------------------------------
(* Steps that leave the approvals alone.                                   *)

LEMMA QuietStep ==
    ASSUME GateInv, NEW r \in Requests,
           UNCHANGED <<issued, approvals, approved, ran, restarts>>,
           permits' \in Nat,
           sequence' \in 0..RequestBound,
           audit' \in Seq([id : Nat, path : Paths]),
           req' \in [Requests -> Request \cup {Idle}],
           \A q \in Requests \ {r} : req'[q] = req[q],
           req'[r].pc # "insert",
           req'[r].pc = "consume" => Gated(req'[r].path),
           req'[r].pc \in {"started", "consume", "ask"} => req'[r].uses = None,
           req'[r].pc = "handler" =>
             ~Gated(req'[r].path) /\ req'[r].uses = None
    PROVE  GateInv'
<1>1. TypeInv'
  BY DEF GateInv, TypeInv
<1>2. IdsFresh'
  BY DEF GateInv, IdsFresh
<1>3. NothingOwned'
  BY DEF GateInv, NothingOwned, Gated
<1>4. HandlerOwnsApproval'
  <2> SUFFICES ASSUME NEW q \in Requests, req'[q].pc = "handler",
                      Gated(req'[q].path)
               PROVE  (/\ req[q].uses \in DOMAIN approvals
                       /\ approvals[req[q].uses] =
                            [path |-> req[q].path, status |-> "Consumed"]
                       /\ \A p \in Requests \ {q} :
                            req[p].pc = "handler" => req[p].uses # req[q].uses)'
    BY DEF HandlerOwnsApproval, Gated
  <2>1. q # r /\ req'[q] = req[q]
    OBVIOUS
  <2>2. /\ req[q].uses \in DOMAIN approvals
        /\ approvals[req[q].uses] =
             [path |-> req[q].path, status |-> "Consumed"]
        /\ \A p \in Requests \ {q} :
             req[p].pc = "handler" => req[p].uses # req[q].uses
    BY <2>1 DEF GateInv, HandlerOwnsApproval
  <2>3. req[q].uses # None
    BY <2>2 DEF GateInv, TypeInv, None
  <2>4. ASSUME NEW p \in Requests \ {q}, req'[p].pc = "handler"
        PROVE  req'[p].uses # req'[q].uses
    BY <2>1, <2>2, <2>3, <2>4
  <2> QED
    BY <2>1, <2>2, <2>4
<1> QED
  BY <1>1, <1>2, <1>3, <1>4 DEF GateInv

(* A new request.                                                          *)
LEMMA AdmitInv ==
    ASSUME GateInv, NEW r \in Requests, NEW c \in Credentials, NEW p \in Paths,
           NEW n \in 0..ApprovalBound, Admit(r, c, p, n)
    PROVE  GateInv'
<1> DEFINE new == [pc |-> "started", cred |-> c, path |-> p, names |-> n,
                   id |-> sequence + 1, asks |-> None, uses |-> None]
<1>1. new \in Request
  BY BoundsAssumption DEF GateInv, TypeInv, Request, Phase, None
<1>2. req' = [req EXCEPT ![r] = new] /\ permits > 0 /\ permits' = permits - 1
      /\ sequence < RequestBound /\ sequence' = sequence + 1
      /\ UNCHANGED <<issued, approvals, audit, approved, ran, restarts>>
  BY DEF Admit
<1>3. permits' \in Nat /\ sequence' \in 0..RequestBound
  BY <1>2, BoundsAssumption DEF GateInv, TypeInv
<1>4. audit' \in Seq([id : Nat, path : Paths])
  BY <1>2 DEF GateInv, TypeInv
<1>5. new.pc = "started" /\ new.uses = None
  OBVIOUS
<1> HIDE DEF new
<1>6. /\ req' \in [Requests -> Request \cup {Idle}]
      /\ \A q \in Requests \ {r} : req'[q] = req[q]
      /\ req'[r] = new
  BY <1>1, <1>2 DEF GateInv, TypeInv
<1> QED
  BY <1>2, <1>3, <1>4, <1>5, <1>6, QuietStep

(* An entry is pushed, the oldest may go.                                  *)
LEMMA PushedType ==
    ASSUME TypeInv, NEW entry \in [id : Nat, path : Paths]
    PROVE  Pushed(entry) \in Seq([id : Nat, path : Paths])
<1> DEFINE Entries == [id : Nat, path : Paths]
           all == Append(audit, entry)
<1>1. audit \in Seq(Entries) /\ entry \in Entries
  BY DEF TypeInv
<1> HIDE DEF Entries
<1>2. all \in Seq(Entries) /\ all # << >>
  BY <1>1, AppendProperties
<1>3. Tail(all) \in Seq(Entries)
  BY <1>2, HeadTailProperties
<1>4. Pushed(entry) \in Seq(Entries)
  BY <1>2, <1>3 DEF Pushed
<1> QED
  BY <1>4 DEF Entries

LEMMA AuditInv ==
    ASSUME GateInv, NEW r \in Requests, Audit(r)
    PROVE  GateInv'
<1>0. TypeInv /\ req[r].pc = "audit"
  BY DEF GateInv, Audit
<1>1. req[r] \in Request
  BY <1>0, ActiveRequest
<1>2. [id |-> req[r].id, path |-> req[r].path] \in [id : Nat, path : Paths]
  BY <1>1 DEF Request
<1>3. audit' \in Seq([id : Nat, path : Paths])
  BY <1>0, <1>2, PushedType DEF Audit
<1>4. permits' \in Nat /\ sequence' \in 0..RequestBound
      /\ UNCHANGED <<issued, approvals, approved, ran, restarts>>
  BY DEF Audit, GateInv, TypeInv
<1>5. Leave(r) \/ Goto(r, "finished")
  BY DEF Audit
<1>6. CASE Leave(r)
  BY <1>0, <1>3, <1>4, <1>6, LeaveFacts, QuietStep
<1>7. CASE Goto(r, "finished")
  BY <1>0, <1>3, <1>4, <1>7, GotoFacts, QuietStep DEF Phase
<1> QED
  BY <1>5, <1>6, <1>7

LEMMA FinishedInv ==
    ASSUME GateInv, NEW r \in Requests, Finished(r)
    PROVE  GateInv'
<1>1. TypeInv /\ Leave(r)
  BY DEF GateInv, Finished
<1>2. permits' \in Nat /\ sequence' \in 0..RequestBound
      /\ audit' \in Seq([id : Nat, path : Paths])
      /\ UNCHANGED <<issued, approvals, approved, ran, restarts>>
  BY <1>1 DEF Finished, TypeInv
<1> QED
  BY <1>1, <1>2, LeaveFacts, QuietStep

(* Any step that only responds.                                            *)
LEMMA RespondInv ==
    ASSUME GateInv, NEW r \in Requests, req[r].pc # "idle", Respond(r),
           UNCHANGED <<sequence, issued, approvals, audit, approved, ran,
                       restarts>>
    PROVE  GateInv'
<1>1. TypeInv
  BY DEF GateInv
<1>2. /\ permits' = permits + 1
      /\ req' \in [Requests -> Request \cup {Idle}]
      /\ \A q \in Requests \ {r} : req'[q] = req[q]
      /\ req'[r].pc \in {"idle", "audit", "finished"}
  BY <1>1, RespondFacts
<1>3. permits' \in Nat /\ sequence' \in 0..RequestBound
      /\ audit' \in Seq([id : Nat, path : Paths])
  BY <1>1, <1>2 DEF TypeInv
<1> QED
  BY <1>2, <1>3, QuietStep

(* The request enters its handler, or the gate.                            *)
LEMMA EnterInv ==
    ASSUME GateInv, NEW r \in Requests, Enter(r)
    PROVE  GateInv'
<1>1. TypeInv /\ req[r].pc = "started"
  BY DEF GateInv, Enter
<1>2. req[r].uses = None
  BY <1>1 DEF GateInv, NothingOwned
<1>3. permits' \in Nat /\ sequence' \in 0..RequestBound
      /\ audit' \in Seq([id : Nat, path : Paths])
      /\ UNCHANGED <<issued, approvals, approved, ran, restarts>>
  BY <1>1 DEF Enter, TypeInv
<1>4. \/ Goto(r, "handler") /\ ~Gated(req[r].path)
      \/ Goto(r, "consume") /\ Gated(req[r].path)
      \/ Goto(r, "ask")
  BY DEF Enter
<1>5. CASE Goto(r, "handler") /\ ~Gated(req[r].path)
  <2>1. "handler" \in Phase
    BY DEF Phase
  <2>2. /\ req' \in [Requests -> Request \cup {Idle}]
        /\ \A q \in Requests \ {r} : req'[q] = req[q]
        /\ req'[r].pc = "handler" /\ req'[r].path = req[r].path
        /\ req'[r].uses = None
    BY <1>1, <1>2, <1>5, <2>1, GotoFacts
  <2> QED
    BY <1>3, <1>5, <2>2, QuietStep
<1>6. CASE Goto(r, "consume") /\ Gated(req[r].path)
  BY <1>1, <1>2, <1>3, <1>6, GotoFacts, QuietStep DEF Phase
<1>7. CASE Goto(r, "ask")
  BY <1>1, <1>2, <1>3, <1>7, GotoFacts, QuietStep DEF Phase
<1> QED
  BY <1>4, <1>5, <1>6, <1>7

LEMMA NotConsumedInv ==
    ASSUME GateInv, NEW r \in Requests, NotConsumed(r)
    PROVE  GateInv'
<1>1. TypeInv /\ req[r].pc = "consume" /\ Goto(r, "ask")
  BY DEF GateInv, NotConsumed
<1>2. req[r].uses = None
  BY <1>1 DEF GateInv, NothingOwned
<1>3. permits' \in Nat /\ sequence' \in 0..RequestBound
      /\ audit' \in Seq([id : Nat, path : Paths])
      /\ UNCHANGED <<issued, approvals, approved, ran, restarts>>
  BY <1>1 DEF NotConsumed, TypeInv
<1> QED
  BY <1>1, <1>2, <1>3, GotoFacts, QuietStep DEF Phase

LEMMA DropInv ==
    ASSUME GateInv, NEW r \in Requests, Drop(r)
    PROVE  GateInv'
<1>1. TypeInv /\ Leave(r)
  BY DEF GateInv, Drop
<1>2. permits' \in Nat /\ sequence' \in 0..RequestBound
      /\ audit' \in Seq([id : Nat, path : Paths])
      /\ UNCHANGED <<issued, approvals, approved, ran, restarts>>
  BY <1>1 DEF Drop, TypeInv
<1> QED
  BY <1>1, <1>2, LeaveFacts, QuietStep

-----------------------------------------------------------------------------
(* Steps on the approvals.                                                 *)

(* An approval that is still approved is owned by nobody.                  *)
LEMMA ConsumeInv ==
    ASSUME GateInv, NEW r \in Requests, Consume(r)
    PROVE  GateInv'
<1> DEFINE n == req[r].names
           p == req[r].path
<1>1. /\ TypeInv /\ IdsFresh /\ NothingOwned /\ HandlerOwnsApproval
      /\ req[r].pc = "consume" /\ n \in DOMAIN approvals
      /\ approvals[n].path = p /\ approvals[n].status = "Approved"
  BY DEF GateInv, Consume, Usable
<1>2. req[r] \in Request /\ p \in Paths
  BY <1>1, ActiveRequest DEF Request
<1>3. [req[r] EXCEPT !.pc = "handler", !.uses = n] \in Request
  BY <1>2 DEF Request, Phase
<1>4. /\ req' = [req EXCEPT ![r] = [req[r] EXCEPT !.pc = "handler", !.uses = n]]
      /\ approvals' = [approvals EXCEPT ![n] =
                         [approvals[n] EXCEPT !.status = "Consumed"]]
      /\ ran' = [ran EXCEPT ![p] = ran[p] + 1]
      /\ UNCHANGED <<permits, sequence, issued, audit, approved, restarts>>
  BY DEF Consume
<1>5. approvals[n] \in ApprovalRecord
  BY <1>1 DEF TypeInv
<1>6. [approvals[n] EXCEPT !.status = "Consumed"]
        = [path |-> p, status |-> "Consumed"]
  BY <1>1, <1>5 DEF ApprovalRecord
<1>7. /\ req' \in [Requests -> Request \cup {Idle}]
      /\ \A q \in Requests \ {r} : req'[q] = req[q]
  BY <1>1, <1>3, <1>4 DEF TypeInv
<1>8. req'[r].pc = "handler" /\ req'[r].uses = n /\ req'[r].path = p
  <2>1. req'[r] = [req[r] EXCEPT !.pc = "handler", !.uses = n]
    BY <1>1, <1>4 DEF TypeInv
  <2> QED
    BY <1>2, <2>1 DEF Request
<1> HIDE DEF n, p
<1>9. /\ DOMAIN approvals' = DOMAIN approvals
      /\ approvals'[n] = [path |-> p, status |-> "Consumed"]
      /\ \A id \in DOMAIN approvals \ {n} : approvals'[id] = approvals[id]
  BY <1>1, <1>4, <1>6
<1>10. \A id \in DOMAIN approvals' : approvals'[id] \in ApprovalRecord
  <2>1. [path |-> p, status |-> "Consumed"] \in ApprovalRecord
    BY <1>2 DEF ApprovalRecord, ApprovalStatus
  <2>2. \A id \in DOMAIN approvals : approvals[id] \in ApprovalRecord
    BY <1>1 DEF TypeInv
  <2> QED
    BY <1>9, <2>1, <2>2
<1>11. ran' \in [Paths -> Nat]
  BY <1>1, <1>2, <1>4 DEF TypeInv
<1>12. TypeInv'
  BY <1>1, <1>4, <1>7, <1>9, <1>10, <1>11 DEF TypeInv
<1>13. IdsFresh'
  BY <1>1, <1>4, <1>7, <1>8, <1>9 DEF IdsFresh
<1>14. Gated(p)
  BY <1>1 DEF NothingOwned, p
<1>15. NothingOwned'
  <2>1. ASSUME NEW q \in Requests
        PROVE  /\ req'[q].pc = "consume" => Gated(req'[q].path)
               /\ (\/ req'[q].pc \in {"started", "consume", "ask", "insert"}
                   \/ req'[q].pc = "handler" /\ ~Gated(req'[q].path))
                  => req'[q].uses = None
    <3>1. CASE q = r
      BY <1>8, <1>14, <3>1
    <3>2. CASE q # r
      BY <1>1, <1>7, <3>2 DEF NothingOwned
    <3> QED
      BY <3>1, <3>2
  <2> QED
    BY <2>1 DEF NothingOwned, Gated
<1>16. \A q \in Requests \ {r} :
          req[q].pc = "handler" => req[q].uses # n
  <2> SUFFICES ASSUME NEW q \in Requests \ {r}, req[q].pc = "handler",
                      req[q].uses = n
               PROVE  FALSE
    OBVIOUS
  <2>1. CASE Gated(req[q].path)
    <3>1. approvals[n] = [path |-> req[q].path, status |-> "Consumed"]
      BY <1>1, <2>1 DEF HandlerOwnsApproval
    <3>2. approvals[n].status = "Consumed"
      BY <3>1
    <3> QED
      BY <1>1, <3>2
  <2>2. CASE ~Gated(req[q].path)
    BY <1>1, <2>2 DEF NothingOwned, TypeInv, None, n
  <2> QED
    BY <2>1, <2>2
<1>17. HandlerOwnsApproval'
  <2> SUFFICES ASSUME NEW q \in Requests, req'[q].pc = "handler",
                      Gated(req'[q].path)
               PROVE  (/\ req[q].uses \in DOMAIN approvals
                       /\ approvals[req[q].uses] =
                            [path |-> req[q].path, status |-> "Consumed"]
                       /\ \A o \in Requests \ {q} :
                            req[o].pc = "handler" => req[o].uses # req[q].uses)'
    BY DEF HandlerOwnsApproval, Gated
  <2>1. CASE q = r
    BY <1>1, <1>7, <1>8, <1>9, <1>16, <2>1
  <2>2. CASE q # r
    <3>1. req'[q] = req[q]
      BY <1>7, <2>2
    <3>2. req[q].uses # n
      BY <1>16, <2>2, <3>1
    <3>3. /\ req[q].uses \in DOMAIN approvals
          /\ approvals[req[q].uses] =
               [path |-> req[q].path, status |-> "Consumed"]
          /\ \A o \in Requests \ {q} :
               req[o].pc = "handler" => req[o].uses # req[q].uses
      BY <1>1, <3>1 DEF HandlerOwnsApproval
    <3>4. ASSUME NEW o \in Requests \ {q}, req'[o].pc = "handler"
          PROVE  req'[o].uses # req'[q].uses
      BY <1>7, <1>8, <3>1, <3>2, <3>3, <3>4
    <3> QED
      BY <1>9, <3>1, <3>2, <3>3, <3>4
  <2> QED
    BY <2>1, <2>2
<1> QED
  BY <1>12, <1>13, <1>15, <1>17 DEF GateInv

(* Drawing an id.                                                          *)
LEMMA AskInv ==
    ASSUME GateInv, NEW r \in Requests, Ask(r)
    PROVE  GateInv'
<1>1. /\ TypeInv /\ IdsFresh /\ NothingOwned /\ HandlerOwnsApproval
      /\ req[r].pc = "ask" /\ issued < ApprovalBound /\ issued' = issued + 1
      /\ UNCHANGED <<permits, sequence, approvals, audit, approved, ran, restarts>>
  BY DEF GateInv, Ask
<1>2. req[r] \in Request
  BY <1>1, ActiveRequest
<1>3. issued \in Nat /\ issued' \in 1..ApprovalBound
  BY <1>1, BoundsAssumption DEF TypeInv
<1> DEFINE n == issued + 1
<1>4. n \in Nat /\ n = issued'
  BY <1>1, <1>3
<1> HIDE DEF n
<1>5. [req[r] EXCEPT !.pc = "insert", !.asks = n] \in Request
  BY <1>2, <1>4 DEF Request, Phase
<1>6. req' = [req EXCEPT ![r] = [req[r] EXCEPT !.pc = "insert", !.asks = n]]
  BY DEF Ask, n
<1>7. /\ req' \in [Requests -> Request \cup {Idle}]
      /\ \A q \in Requests \ {r} : req'[q] = req[q]
  BY <1>1, <1>5, <1>6 DEF TypeInv
<1>8. req'[r].pc = "insert" /\ req'[r].asks = issued'
      /\ req'[r].uses = req[r].uses
  <2>1. req'[r] = [req[r] EXCEPT !.pc = "insert", !.asks = n]
    BY <1>1, <1>6 DEF TypeInv
  <2> QED
    BY <1>2, <1>4, <2>1 DEF Request
<1>9. req[r].uses = None
  BY <1>1 DEF NothingOwned
<1>10. issued' \notin DOMAIN approvals /\ DOMAIN approvals \subseteq 1..issued'
  BY <1>1, <1>3 DEF TypeInv
<1>11. TypeInv'
  BY <1>1, <1>3, <1>7, <1>10 DEF TypeInv
<1>12. IdsFresh'
  <2>1. \A q \in Requests \ {r} : req[q].pc = "insert" =>
           req[q].asks \in 1..issued /\ req[q].asks # issued'
    BY <1>1, <1>3 DEF IdsFresh
  <2> QED
    BY <1>1, <1>3, <1>7, <1>8, <1>10, <2>1 DEF IdsFresh
<1>13. NothingOwned'
  BY <1>1, <1>7, <1>8, <1>9 DEF NothingOwned, Gated
<1>14. HandlerOwnsApproval'
  BY <1>1, <1>7, <1>8 DEF HandlerOwnsApproval, Gated
<1> QED
  BY <1>11, <1>12, <1>13, <1>14 DEF GateInv

(* What Insert does to the approvals.                                      *)
LEMMA InsertFacts ==
    ASSUME GateInv, NEW r \in Requests, Insert(r)
    PROVE  /\ req[r].asks \in 1..issued
           /\ req[r].asks \notin DOMAIN approvals
           /\ req[r].path \in Paths
           /\ DOMAIN approvals' = DOMAIN approvals \cup {req[r].asks}
           /\ approvals'[req[r].asks] =
                [path |-> req[r].path, status |-> "Pending"]
           /\ \A id \in DOMAIN approvals : approvals'[id] = approvals[id]
<1>1. TypeInv /\ req[r].pc = "insert"
  BY DEF GateInv, Insert
<1>2. req[r] \in Request
  BY <1>1, ActiveRequest
<1>3. req[r].asks \in 1..issued /\ req[r].asks \notin DOMAIN approvals
  BY <1>1 DEF GateInv, IdsFresh
<1> QED
  BY <1>2, <1>3 DEF Insert, Request

LEMMA InsertInv ==
    ASSUME GateInv, NEW r \in Requests, Insert(r)
    PROVE  GateInv'
<1> DEFINE n == req[r].asks
<1>1. /\ TypeInv /\ IdsFresh /\ NothingOwned /\ HandlerOwnsApproval
      /\ req[r].pc = "insert" /\ Goto(r, "announce")
      /\ UNCHANGED <<permits, sequence, issued, audit, approved, ran, restarts>>
  BY DEF GateInv, Insert
<1>2. /\ n \in 1..issued /\ n \notin DOMAIN approvals /\ req[r].path \in Paths
      /\ DOMAIN approvals' = DOMAIN approvals \cup {n}
      /\ approvals'[n] = [path |-> req[r].path, status |-> "Pending"]
      /\ \A id \in DOMAIN approvals : approvals'[id] = approvals[id]
  BY InsertFacts
<1>3. "announce" \in Phase
  BY DEF Phase
<1>4. /\ req' \in [Requests -> Request \cup {Idle}]
      /\ \A q \in Requests \ {r} : req'[q] = req[q]
      /\ req'[r].pc = "announce"
  BY <1>1, <1>3, GotoFacts
<1>5. \A q \in Requests \ {r} : req[q].pc = "insert" => req[q].asks # n
  BY <1>1 DEF IdsFresh
<1> HIDE DEF n
<1>6. \A id \in DOMAIN approvals' : approvals'[id] \in ApprovalRecord
  BY <1>1, <1>2 DEF TypeInv, ApprovalRecord, ApprovalStatus
<1>7. TypeInv'
  BY <1>1, <1>2, <1>4, <1>6 DEF TypeInv
<1>8. IdsFresh'
  BY <1>1, <1>2, <1>4, <1>5 DEF IdsFresh
<1>9. NothingOwned'
  BY <1>1, <1>4 DEF NothingOwned, Gated
<1>10. HandlerOwnsApproval'
  BY <1>1, <1>2, <1>4 DEF HandlerOwnsApproval, Gated
<1> QED
  BY <1>7, <1>8, <1>9, <1>10 DEF GateInv

(* A pending approval is owned by nobody.                                  *)
LEMMA DecideInv ==
    ASSUME GateInv, NEW r \in Requests, Decide(r)
    PROVE  GateInv'
<1> DEFINE n == req[r].names
           s == IF req[r].path = Approve THEN "Approved" ELSE "Denied"
<1>1. /\ TypeInv /\ IdsFresh /\ NothingOwned /\ HandlerOwnsApproval
      /\ req[r].pc = "handler" /\ Goto(r, "announce")
      /\ n \in DOMAIN approvals /\ approvals[n].status = "Pending"
      /\ UNCHANGED <<permits, sequence, issued, audit, ran, restarts>>
  BY DEF GateInv, Decide, Decidable
<1>2. approvals' = [approvals EXCEPT ![n] = [approvals[n] EXCEPT !.status = s]]
  BY DEF Decide
<1>3. s \in ApprovalStatus
  BY DEF ApprovalStatus
<1>4. approved' = approved
      \/ approved' = [approved EXCEPT ![approvals[n].path] =
                        approved[approvals[n].path] + 1]
  BY DEF Decide
<1> HIDE DEF n, s
<1>5. approvals[n] \in ApprovalRecord
  BY <1>1 DEF TypeInv
<1>6. [approvals[n] EXCEPT !.status = s] \in ApprovalRecord
  BY <1>3, <1>5 DEF ApprovalRecord
<1>7. /\ DOMAIN approvals' = DOMAIN approvals
      /\ \A id \in DOMAIN approvals \ {n} : approvals'[id] = approvals[id]
      /\ approvals'[n] \in ApprovalRecord
  BY <1>1, <1>2, <1>6
<1>8. approved' \in [Paths -> Nat]
  <2>1. approvals[n].path \in Paths
    BY <1>5 DEF ApprovalRecord
  <2>2. approved \in [Paths -> Nat]
    BY <1>1 DEF TypeInv
  <2>3. approved[approvals[n].path] + 1 \in Nat
    BY <2>1, <2>2
  <2> QED
    BY <1>4, <2>1, <2>2, <2>3
<1>9. "announce" \in Phase
  BY DEF Phase
<1>10. /\ req' \in [Requests -> Request \cup {Idle}]
       /\ \A q \in Requests \ {r} : req'[q] = req[q]
       /\ req'[r].pc = "announce"
  BY <1>1, <1>9, GotoFacts
<1>11. TypeInv'
  BY <1>1, <1>7, <1>8, <1>10 DEF TypeInv
<1>12. IdsFresh'
  BY <1>1, <1>7, <1>10 DEF IdsFresh
<1>13. NothingOwned'
  BY <1>1, <1>10 DEF NothingOwned, Gated
<1>14. ASSUME NEW q \in Requests, req[q].pc = "handler", Gated(req[q].path),
              req[q].uses = n
       PROVE  FALSE
  <2>1. approvals[n] = [path |-> req[q].path, status |-> "Consumed"]
    BY <1>1, <1>14 DEF HandlerOwnsApproval
  <2>2. approvals[n].status = "Consumed"
    BY <2>1
  <2> QED
    BY <1>1, <2>2
<1>15. HandlerOwnsApproval'
  BY <1>1, <1>7, <1>10, <1>14 DEF HandlerOwnsApproval, Gated
<1> QED
  BY <1>11, <1>12, <1>13, <1>15 DEF GateInv

(* A restart.                                                              *)
LEMMA RestartInv ==
    ASSUME GateInv, Restart
    PROVE  GateInv'
<1>1. /\ permits' = MaxInFlight /\ sequence' = 0 /\ issued' = 0
      /\ approvals' = << >> /\ audit' = << >>
      /\ req' = [r \in Requests |-> Idle]
      /\ restarts < RestartBound /\ restarts' = restarts + 1
      /\ UNCHANGED <<approved, ran>>
  BY DEF Restart
<1>2. DOMAIN approvals' = {}
  BY <1>1
<1>3. audit' \in Seq([id : Nat, path : Paths])
  BY <1>1
<1>4. TypeInv'
  BY <1>1, <1>2, <1>3, BoundsAssumption DEF GateInv, TypeInv
<1>5. \A r \in Requests : req'[r].pc = "idle"
  BY <1>1 DEF Idle
<1>6. IdsFresh' /\ NothingOwned' /\ HandlerOwnsApproval'
  BY <1>5 DEF IdsFresh, NothingOwned, HandlerOwnsApproval
<1> QED
  BY <1>4, <1>6 DEF GateInv

LEMMA InitInv == Init => GateInv
<1> SUFFICES ASSUME Init
             PROVE  GateInv
  OBVIOUS
<1>1. DOMAIN approvals = {}
  BY DEF Init
<1>2. TypeInv
  BY <1>1, BoundsAssumption DEF Init, TypeInv
<1>3. \A r \in Requests : req[r].pc = "idle"
  BY DEF Init, Idle
<1> QED
  BY <1>2, <1>3 DEF GateInv, IdsFresh, NothingOwned, HandlerOwnsApproval

LEMMA NextInv == GateInv /\ [Next]_vars => GateInv'
<1> SUFFICES ASSUME GateInv, [Next]_vars
             PROVE  GateInv'
  OBVIOUS
<1>1. ASSUME NEW r \in Requests, NEW c \in Credentials, NEW p \in Paths,
             NEW n \in 0..ApprovalBound, Admit(r, c, p, n)
      PROVE  GateInv'
  BY <1>1, AdmitInv
<1>2. ASSUME NEW r \in Requests, Step(r)
      PROVE  GateInv'
  <2>1. CASE Rejected(r)
    BY <2>1, RespondInv DEF Rejected
  <2>2. CASE Enter(r)
    BY <2>2, EnterInv
  <2>3. CASE Consume(r)
    BY <2>3, ConsumeInv
  <2>4. CASE NotConsumed(r)
    BY <2>4, NotConsumedInv
  <2>5. CASE Ask(r)
    BY <2>5, AskInv
  <2>6. CASE Insert(r)
    BY <2>6, InsertInv
  <2>7. CASE Announced(r)
    BY <2>7, RespondInv DEF Announced
  <2>8. CASE Decide(r)
    BY <2>8, DecideInv
  <2>9. CASE Return(r)
    BY <2>9, RespondInv DEF Return
  <2>10. CASE Audit(r)
    BY <2>10, AuditInv
  <2>11. CASE Finished(r)
    BY <2>11, FinishedInv
  <2> QED
    BY <1>2, <2>1, <2>2, <2>3, <2>4, <2>5, <2>6, <2>7, <2>8, <2>9, <2>10,
       <2>11 DEF Step
<1>3. ASSUME NEW r \in Requests, Drop(r)
      PROVE  GateInv'
  BY <1>3, DropInv
<1>4. CASE Restart
  BY <1>4, RestartInv
<1>5. CASE UNCHANGED vars
  BY <1>5 DEF vars, GateInv, TypeInv, IdsFresh, NothingOwned,
              HandlerOwnsApproval, Gated
<1> QED
  BY <1>1, <1>2, <1>3, <1>4, <1>5 DEF Next

-----------------------------------------------------------------------------
(* Results.                                                                *)

(* The invariant holds in every reachable state.                           *)
THEOREM GateInvariant == Spec => []GateInv
<1> QED
  BY InitInv, NextInv, PTL DEF Spec

(* A running guarded handler owns an approval of its path that no other    *)
(* request owns, whatever the number of connections and approvals.         *)
THEOREM OwnedByOne == Spec => []HandlerOwnsApproval
<1>1. GateInv => HandlerOwnsApproval
  BY DEF GateInv
<1> QED
  BY <1>1, GateInvariant, PTL

-----------------------------------------------------------------------------
(* Permits.                                                                *)

(* A step that keeps everybody's permit.                                   *)
LEMMA SameInFlight ==
    ASSUME NEW r \in Requests,
           \A q \in Requests \ {r} : req'[q] = req[q],
           req[r].pc \in Holding <=> req'[r].pc \in Holding
    PROVE  InFlight' = InFlight
  BY DEF InFlight

(* A step that releases the permit of r.                                   *)
LEMMA OneReleased ==
    ASSUME NEW r \in Requests, TypeInv, PermitsConserved,
           \A q \in Requests \ {r} : req'[q] = req[q],
           req[r].pc \in Holding, req'[r].pc \notin Holding,
           permits' = permits + 1
    PROVE  PermitsConserved'
<1>1. r \in InFlight /\ InFlight' = InFlight \ {r}
  BY DEF InFlight
<1>2. IsFiniteSet(InFlight)
  BY BoundsAssumption, FS_Subset DEF InFlight
<1>3. /\ Cardinality(InFlight) \in Nat
      /\ Cardinality(InFlight \ {r}) = Cardinality(InFlight) - 1
  BY <1>1, <1>2, FS_CardinalityType, FS_RemoveElement
<1> QED
  BY <1>1, <1>3, BoundsAssumption DEF PermitsConserved, TypeInv

(* A step that gives a permit to r.                                        *)
LEMMA OneAdmitted ==
    ASSUME NEW r \in Requests, TypeInv, PermitsConserved,
           \A q \in Requests \ {r} : req'[q] = req[q],
           req[r].pc \notin Holding, req'[r].pc \in Holding,
           permits' = permits - 1
    PROVE  PermitsConserved'
<1>1. r \notin InFlight /\ InFlight' = InFlight \cup {r}
  BY DEF InFlight
<1>2. IsFiniteSet(InFlight)
  BY BoundsAssumption, FS_Subset DEF InFlight
<1>3. /\ Cardinality(InFlight) \in Nat
      /\ Cardinality(InFlight \cup {r}) = Cardinality(InFlight) + 1
  BY <1>1, <1>2, FS_CardinalityType, FS_AddElement
<1> QED
  BY <1>1, <1>3, BoundsAssumption DEF PermitsConserved, TypeInv

LEMMA KeptPermits ==
    ASSUME PermitsConserved, permits' = permits, InFlight' = InFlight
    PROVE  PermitsConserved'
  BY DEF PermitsConserved

LEMMA GotoPermits ==
    ASSUME TypeInv, PermitsConserved, NEW r \in Requests, NEW pc \in Phase,
           Goto(r, pc), req[r].pc # "idle",
           req[r].pc \in Holding <=> pc \in Holding, permits' = permits
    PROVE  PermitsConserved'
  BY GotoFacts, SameInFlight, KeptPermits

LEMMA RespondPermits ==
    ASSUME TypeInv, PermitsConserved, NEW r \in Requests,
           req[r].pc \in Holding, Respond(r)
    PROVE  PermitsConserved'
<1>1. req[r].pc # "idle"
  BY DEF Holding
<1>2. /\ permits' = permits + 1
      /\ \A q \in Requests \ {r} : req'[q] = req[q]
      /\ req'[r].pc \in {"idle", "audit", "finished"}
  BY <1>1, RespondFacts
<1>3. req'[r].pc \notin Holding
  BY <1>2 DEF Holding
<1> QED
  BY <1>2, <1>3, OneReleased

LEMMA LeavePermits ==
    ASSUME TypeInv, PermitsConserved, NEW r \in Requests, Leave(r),
           permits' = IF req[r].pc \in Holding THEN permits + 1 ELSE permits
    PROVE  PermitsConserved'
<1>1. /\ \A q \in Requests \ {r} : req'[q] = req[q]
      /\ req'[r].pc = "idle"
  BY LeaveFacts
<1>2. req'[r].pc \notin Holding
  BY <1>1 DEF Holding
<1>3. CASE req[r].pc \in Holding
  BY <1>1, <1>2, <1>3, OneReleased
<1>4. CASE req[r].pc \notin Holding
  BY <1>1, <1>2, <1>4, SameInFlight, KeptPermits
<1> QED
  BY <1>3, <1>4

LEMMA NextPermits ==
    TypeInv /\ PermitsConserved /\ [Next]_vars => PermitsConserved'
<1> SUFFICES ASSUME TypeInv, PermitsConserved, [Next]_vars
             PROVE  PermitsConserved'
  OBVIOUS
<1>1. ASSUME NEW r \in Requests, NEW c \in Credentials, NEW p \in Paths,
             NEW n \in 0..ApprovalBound, Admit(r, c, p, n)
      PROVE  PermitsConserved'
  <2>1. /\ \A q \in Requests \ {r} : req'[q] = req[q]
        /\ req'[r].pc = "started"
        /\ permits' = permits - 1
        /\ req[r].pc = "idle"
    BY <1>1 DEF Admit, TypeInv
  <2>2. req[r].pc \notin Holding /\ req'[r].pc \in Holding
    BY <2>1 DEF Holding
  <2> QED
    BY <2>1, <2>2, OneAdmitted
<1>2. ASSUME NEW r \in Requests, Rejected(r) \/ Announced(r) \/ Return(r)
      PROVE  PermitsConserved'
  <2>1. Respond(r) /\ req[r].pc \in {"started", "announce", "handler"}
    BY <1>2 DEF Rejected, Announced, Return
  <2>2. req[r].pc \in Holding
    BY <2>1 DEF Holding
  <2> QED
    BY <2>1, <2>2, RespondPermits
<1>3. ASSUME NEW r \in Requests,
             Enter(r) \/ NotConsumed(r) \/ Insert(r) \/ Decide(r)
      PROVE  PermitsConserved'
  <2>1. /\ permits' = permits
        /\ req[r].pc \in {"started", "consume", "insert", "handler"}
        /\ \E pc \in {"handler", "consume", "ask", "announce"} : Goto(r, pc)
    BY <1>3 DEF Enter, NotConsumed, Insert, Decide
  <2>2. PICK pc \in {"handler", "consume", "ask", "announce"} : Goto(r, pc)
    BY <2>1
  <2>3. pc \in Phase /\ pc \in Holding /\ req[r].pc \in Holding
        /\ req[r].pc # "idle"
    BY <2>1, <2>2 DEF Phase, Holding
  <2> QED
    BY <2>1, <2>2, <2>3, GotoPermits
<1>4. ASSUME NEW r \in Requests, Consume(r) \/ Ask(r)
      PROVE  PermitsConserved'
  <2>1. /\ permits' = permits
        /\ req[r].pc \in {"consume", "ask"}
        /\ \A q \in Requests \ {r} : req'[q] = req[q]
    BY <1>4 DEF Consume, Ask, TypeInv
  <2>2. req[r] \in Request
    BY <2>1, ActiveRequest
  <2>3. req'[r].pc \in {"handler", "insert"}
    BY <1>4, <2>2 DEF Consume, Ask, TypeInv, Request
  <2>4. req[r].pc \in Holding /\ req'[r].pc \in Holding
    BY <2>1, <2>3 DEF Holding
  <2> QED
    BY <2>1, <2>4, SameInFlight, KeptPermits
<1>5. ASSUME NEW r \in Requests, Audit(r) \/ Finished(r)
      PROVE  PermitsConserved'
  <2>1. /\ permits' = permits
        /\ req[r].pc \in {"audit", "finished"}
        /\ Leave(r) \/ Goto(r, "finished")
    BY <1>5 DEF Audit, Finished
  <2>2. req[r].pc \notin Holding /\ req[r].pc # "idle"
    BY <2>1 DEF Holding
  <2>3. "finished" \in Phase /\ "finished" \notin Holding
    BY DEF Phase, Holding
  <2>4. CASE Leave(r)
    BY <2>1, <2>2, <2>4, LeavePermits
  <2>5. CASE Goto(r, "finished")
    BY <2>1, <2>2, <2>3, <2>5, GotoPermits
  <2> QED
    BY <2>1, <2>4, <2>5
<1>6. ASSUME NEW r \in Requests, Drop(r)
      PROVE  PermitsConserved'
  BY <1>6, LeavePermits DEF Drop
<1>7. CASE Restart
  <2>1. permits' = MaxInFlight /\ \A r \in Requests : req'[r].pc = "idle"
    BY <1>7 DEF Restart, Idle
  <2>2. InFlight' = {}
    BY <2>1 DEF InFlight, Holding
  <2> QED
    BY <2>1, <2>2, FS_EmptySet, BoundsAssumption DEF PermitsConserved
<1>8. CASE UNCHANGED vars
  BY <1>8 DEF vars, PermitsConserved, InFlight
<1> QED
  BY <1>1, <1>2, <1>3, <1>4, <1>5, <1>6, <1>7, <1>8 DEF Next, Step

(* However requests end, the permits that are free and those that requests *)
(* hold add up to the limit, for every limit and number of connections.    *)
THEOREM PermitsAreConserved == Spec => []PermitsConserved
<1>1. Init => PermitsConserved
  <2> SUFFICES ASSUME Init
               PROVE  PermitsConserved
    OBVIOUS
  <2>1. permits = MaxInFlight /\ \A r \in Requests : req[r].pc = "idle"
    BY DEF Init, Idle
  <2>2. InFlight = {}
    BY <2>1 DEF InFlight, Holding
  <2> QED
    BY <2>1, <2>2, FS_EmptySet, BoundsAssumption DEF PermitsConserved
<1>2. GateInv => TypeInv
  BY DEF GateInv
<1> QED
  BY <1>1, <1>2, NextPermits, GateInvariant, PTL DEF Spec

(* The types, with the free permits between none and all.                  *)
THEOREM TypeCorrect == Spec => []TypeOK
<1>1. GateInv /\ PermitsConserved => TypeOK
  <2> SUFFICES ASSUME GateInv, PermitsConserved
               PROVE  TypeOK
    OBVIOUS
  <2>1. IsFiniteSet(InFlight)
    BY BoundsAssumption, FS_Subset DEF InFlight
  <2>2. Cardinality(InFlight) \in Nat
    BY <2>1, FS_CardinalityType
  <2>3. permits \in 0..MaxInFlight
    BY <2>2, BoundsAssumption DEF PermitsConserved, GateInv, TypeInv
  <2>4. DOMAIN approvals \subseteq 1..ApprovalBound
    BY BoundsAssumption DEF GateInv, TypeInv
  <2> QED
    BY <2>3, <2>4 DEF GateInv, TypeInv, TypeOK
<1> QED
  BY <1>1, GateInvariant, PermitsAreConserved, PTL

-----------------------------------------------------------------------------
(* Who has passed the role check, and whose number is whose.               *)

(* What a step of a request does to the requests: it is its own step, and  *)
(* the request leaves or stays the one it was.                             *)
Stays(r) ==
    /\ req'[r].pc \in Phase
    /\ req'[r].path = req[r].path
    /\ req'[r].cred = req[r].cred
    /\ req'[r].id = req[r].id

LEMMA GotoStays ==
    ASSUME TypeInv, NEW r \in Requests, req[r].pc # "idle",
           NEW pc \in Phase, Goto(r, pc)
    PROVE  /\ Stays(r) /\ req'[r].pc = pc
           /\ \A q \in Requests \ {r} : req'[q] = req[q]
  BY GotoFacts DEF Stays

LEMMA RespondStays ==
    ASSUME TypeInv, NEW r \in Requests, req[r].pc # "idle", Respond(r)
    PROVE  /\ \/ req'[r].pc = "idle"
              \/ Stays(r) /\ req'[r].pc \in {"audit", "finished"}
           /\ \A q \in Requests \ {r} : req'[q] = req[q]
<1>1. "audit" \in Phase /\ "finished" \in Phase
  BY DEF Phase
<1>2. CASE Goto(r, "audit")
  BY <1>1, <1>2, GotoStays
<1>3. CASE Goto(r, "finished")
  BY <1>1, <1>3, GotoStays
<1>4. CASE Leave(r)
  BY <1>4, LeaveFacts
<1> QED
  BY <1>2, <1>3, <1>4 DEF Respond

LEMMA ConsumeStays ==
    ASSUME TypeInv, NEW r \in Requests, Consume(r)
    PROVE  /\ Stays(r) /\ req'[r].pc = "handler"
           /\ \A q \in Requests \ {r} : req'[q] = req[q]
<1> DEFINE n == req[r].names
<1>1. req[r].pc = "consume"
      /\ req' = [req EXCEPT ![r].pc = "handler", ![r].uses = n]
  BY DEF Consume
<1> HIDE DEF n
<1>2. req[r] \in Request
  BY <1>1, ActiveRequest
<1>3. req'[r] = [req[r] EXCEPT !.pc = "handler", !.uses = n]
      /\ \A q \in Requests \ {r} : req'[q] = req[q]
  BY <1>1 DEF TypeInv
<1> QED
  BY <1>2, <1>3 DEF Stays, Request, Phase

LEMMA AskStays ==
    ASSUME TypeInv, NEW r \in Requests, Ask(r)
    PROVE  /\ Stays(r) /\ req'[r].pc = "insert"
           /\ \A q \in Requests \ {r} : req'[q] = req[q]
<1> DEFINE n == issued + 1
<1>1. req[r].pc = "ask"
      /\ req' = [req EXCEPT ![r].pc = "insert", ![r].asks = n]
  BY DEF Ask
<1> HIDE DEF n
<1>2. req[r] \in Request
  BY <1>1, ActiveRequest
<1>3. req'[r] = [req[r] EXCEPT !.pc = "insert", !.asks = n]
      /\ \A q \in Requests \ {r} : req'[q] = req[q]
  BY <1>1 DEF TypeInv
<1> QED
  BY <1>2, <1>3 DEF Stays, Request, Phase

(* The phases behind the role check in which something is done that other  *)
(* requests can see.                                                       *)
Inside == {"consume", "ask", "insert", "handler"}

(* A request comes inside only by Enter.                                   *)
LEMMA StepFrame ==
    ASSUME TypeInv, NEW r \in Requests, Step(r) \/ Drop(r)
    PROVE  /\ req[r].pc # "idle"
           /\ \A q \in Requests \ {r} : req'[q] = req[q]
           /\ req'[r].pc = "idle" \/ Stays(r)
           /\ req'[r].pc \in Inside => req[r].pc \in Inside \/ Enter(r)
           /\ req'[r].pc \in Holding => req[r].pc \in Holding
           /\ req'[r].pc = "audit" => req[r].pc \in Holding
<1>1. CASE Rejected(r) \/ Announced(r) \/ Return(r)
  <2>1. Respond(r) /\ req[r].pc \in {"started", "announce", "handler"}
    BY <1>1 DEF Rejected, Announced, Return
  <2> QED
    BY <2>1, RespondStays DEF Inside, Holding
<1>2. CASE Enter(r)
  <2>1. req[r].pc = "started"
        /\ \E pc \in {"handler", "consume", "ask"} : Goto(r, pc)
    BY <1>2 DEF Enter
  <2>2. PICK pc \in {"handler", "consume", "ask"} : Goto(r, pc)
    BY <2>1
  <2>3. pc \in Phase
    BY <2>2 DEF Phase
  <2> QED
    BY <1>2, <2>1, <2>2, <2>3, GotoStays DEF Inside, Holding
<1>3. CASE Consume(r)
  <2>1. req[r].pc = "consume"
    BY <1>3 DEF Consume
  <2> QED
    BY <1>3, <2>1, ConsumeStays DEF Inside, Holding
<1>4. CASE Ask(r)
  <2>1. req[r].pc = "ask"
    BY <1>4 DEF Ask
  <2> QED
    BY <1>4, <2>1, AskStays DEF Inside, Holding
<1>5. CASE NotConsumed(r) \/ Insert(r) \/ Decide(r)
  <2>1. /\ req[r].pc \in {"consume", "insert", "handler"}
        /\ Goto(r, "ask") \/ Goto(r, "announce")
    BY <1>5 DEF NotConsumed, Insert, Decide
  <2>2. "ask" \in Phase /\ "announce" \in Phase
    BY DEF Phase
  <2> QED
    BY <2>1, <2>2, GotoStays DEF Inside, Holding
<1>6. CASE Audit(r) \/ Finished(r)
  <2>1. /\ req[r].pc \in {"audit", "finished"}
        /\ Leave(r) \/ Goto(r, "finished")
    BY <1>6 DEF Audit, Finished
  <2>2. "finished" \in Phase
    BY DEF Phase
  <2> QED
    BY <2>1, <2>2, GotoStays, LeaveFacts DEF Inside, Holding
<1>7. CASE Drop(r)
  <2>1. Leave(r) /\ req[r].pc \in Phase
    BY <1>7 DEF Drop
  <2> QED
    BY <2>1, LeaveFacts DEF Inside, Holding, Phase
<1> QED
  BY <1>1, <1>2, <1>3, <1>4, <1>5, <1>6, <1>7 DEF Step

(* Whoever is inside was authorized, or on a path that is public.          *)
Vetted ==
    \A r \in Requests : req[r].pc \in Inside =>
      req[r].path \in Public \/ Authorized(r)

LEMMA NextVetted == TypeInv /\ Vetted /\ [Next]_vars => Vetted'
<1> SUFFICES ASSUME TypeInv, Vetted, [Next]_vars
             PROVE  Vetted'
  OBVIOUS
<1>1. ASSUME NEW r \in Requests, NEW c \in Credentials, NEW p \in Paths,
             NEW n \in 0..ApprovalBound, Admit(r, c, p, n)
      PROVE  Vetted'
  <2>1. /\ \A q \in Requests \ {r} : req'[q] = req[q]
        /\ req'[r].pc = "started"
    BY <1>1 DEF Admit, TypeInv
  <2> QED
    BY <2>1 DEF Vetted, Authorized, Inside
<1>2. ASSUME NEW r \in Requests, Step(r) \/ Drop(r)
      PROVE  Vetted'
  <2>1. ASSUME NEW q \in Requests \ {r}, req'[q].pc \in Inside
        PROVE  (req[q].path \in Public \/ Authorized(q))'
    BY <1>2, <2>1, StepFrame DEF Vetted, Authorized
  <2>2. ASSUME req'[r].pc \in Inside
        PROVE  (req[r].path \in Public \/ Authorized(r))'
    <3>1. req[r].path \in Public \/ Authorized(r)
      BY <1>2, <2>2, StepFrame DEF Vetted, Enter
    <3>2. Stays(r)
      BY <1>2, <2>2, StepFrame DEF Inside
    <3> QED
      BY <3>1, <3>2 DEF Stays, Authorized
  <2> QED
    BY <2>1, <2>2 DEF Vetted
<1>3. CASE Restart
  <2>1. \A r \in Requests : req'[r].pc = "idle"
    BY <1>3 DEF Restart, Idle
  <2> QED
    BY <2>1 DEF Vetted, Inside
<1>4. CASE UNCHANGED vars
  BY <1>4 DEF vars, Vetted, Authorized
<1> QED
  BY <1>1, <1>2, <1>3, <1>4 DEF Next

THEOREM InsideIsVetted == Spec => []Vetted
<1>1. Init => Vetted
  BY DEF Init, Vetted, Idle, Inside
<1>2. GateInv => TypeInv
  BY DEF GateInv
<1> QED
  BY <1>1, <1>2, NextVetted, GateInvariant, PTL DEF Spec

(* A request without authorization moves nothing that others can see, for  *)
(* every policy.                                                           *)
THEOREM StrangersMoveNothing == Spec => StrangersAskNothing
<1> DEFINE Foreign(r) ==
             /\ req[r].pc # "idle" /\ req[r] # req'[r] /\ restarts' = restarts
             /\ req[r].path \notin Public /\ ~Authorized(r)
           Kept == UNCHANGED <<issued, approvals, approved, ran>>
<1>1. GateInv /\ Vetted /\ [Next]_vars => \A r \in Requests : Foreign(r) => Kept
  <2> SUFFICES ASSUME GateInv, Vetted, [Next]_vars,
                      NEW r \in Requests, Foreign(r)
               PROVE  Kept
    OBVIOUS
  <2>1. TypeInv /\ req[r].pc \notin Inside
    BY DEF GateInv, Vetted
  <2>2. ASSUME NEW q \in Requests, NEW c \in Credentials, NEW p \in Paths,
               NEW n \in 0..ApprovalBound, Admit(q, c, p, n)
        PROVE  Kept
    BY <2>2 DEF Admit
  <2>3. ASSUME NEW q \in Requests, Step(q) \/ Drop(q)
        PROVE  Kept
    <3>1. q = r
      BY <2>1, <2>3, StepFrame
    <3>2. ~Consume(q) /\ ~Ask(q) /\ ~Insert(q) /\ ~Decide(q)
      BY <2>1, <3>1 DEF Inside, Consume, Ask, Insert, Decide
    <3> QED
      BY <2>3, <3>2 DEF Step, Rejected, Enter, NotConsumed, Announced, Return,
                        Audit, Finished, Drop
  <2>4. CASE Restart
    BY <2>4, BoundsAssumption DEF Restart, GateInv, TypeInv
  <2>5. CASE UNCHANGED vars
    BY <2>5 DEF vars
  <2> QED
    BY <2>2, <2>3, <2>4, <2>5 DEF Next
<1> QED
  BY <1>1, GateInvariant, InsideIsVetted, PTL DEF Spec, StrangersAskNothing

(* Numbers are those that were given since the last restart, and no two    *)
(* requests under way share one.                                           *)
NumbersInv ==
    /\ \A r \in Requests : req[r].pc # "idle" => req[r].id \in 1..sequence
    /\ \A r, q \in Requests :
         (req[r].pc # "idle" /\ req[q].pc # "idle" /\ req[r].id = req[q].id)
         => r = q
    /\ \A i \in 1..Len(audit) : audit[i].id \in 1..sequence
    /\ AuditedOnce

(* The ring after an entry: the older ones move down or stay.              *)
LEMMA PushedFacts ==
    ASSUME TypeInv, NEW entry \in [id : Nat, path : Paths]
    PROVE  \E k \in 0..1 :
             /\ Len(Pushed(entry)) = Len(audit) + 1 - k
             /\ \A i \in 1..Len(Pushed(entry)) :
                  Pushed(entry)[i] = IF i + k <= Len(audit) THEN audit[i + k]
                                                            ELSE entry
<1> DEFINE Entries == [id : Nat, path : Paths]
           all == Append(audit, entry)
           m == Len(audit)
<1>1. audit \in Seq(Entries) /\ entry \in Entries /\ m \in Nat
  BY DEF TypeInv
<1> HIDE DEF Entries
<1>2. /\ all \in Seq(Entries) /\ all # << >> /\ Len(all) = m + 1
      /\ \A i \in 1..m : all[i] = audit[i]
      /\ all[m + 1] = entry
  BY <1>1, AppendProperties
<1>3. Pushed(entry) = IF Len(all) > MaxAudit THEN Tail(all) ELSE all
  BY DEF Pushed
<1> HIDE DEF all, m
<1>4. CASE Len(all) > MaxAudit
  <2>1. /\ Len(Tail(all)) = m
        /\ \A i \in 1..m : Tail(all)[i] = all[i + 1]
    BY <1>1, <1>2, HeadTailProperties
  <2>2. ASSUME NEW i \in 1..m
        PROVE  Tail(all)[i] = IF i + 1 <= m THEN audit[i + 1] ELSE entry
    <3>1. CASE i + 1 <= m
      BY <1>1, <1>2, <2>1, <3>1
    <3>2. CASE ~(i + 1 <= m)
      <4>1. i + 1 = m + 1
        BY <1>1, <3>2
      <4> QED
        BY <1>2, <2>1, <3>2, <4>1
    <3> QED
      BY <3>1, <3>2
  <2>3. Len(Pushed(entry)) = m + 1 - 1 /\ Pushed(entry) = Tail(all)
    BY <1>1, <1>3, <1>4, <2>1
  <2>4. 1..Len(Pushed(entry)) = 1..m
    BY <2>1, <2>3
  <2> QED
    BY <2>2, <2>3, <2>4 DEF m
<1>5. CASE ~(Len(all) > MaxAudit)
  <2>1. ASSUME NEW i \in 1..(m + 1)
        PROVE  all[i] = IF i + 0 <= m THEN audit[i + 0] ELSE entry
    <3>1. CASE i <= m
      BY <1>1, <1>2, <3>1
    <3>2. CASE ~(i <= m)
      <4>1. i = m + 1
        BY <1>1, <3>2
      <4> QED
        BY <1>1, <1>2, <3>2, <4>1
    <3> QED
      BY <3>1, <3>2
  <2>2. Len(Pushed(entry)) = m + 1 - 0 /\ Pushed(entry) = all
    BY <1>1, <1>2, <1>3, <1>5
  <2>3. 1..Len(Pushed(entry)) = 1..(m + 1)
    BY <1>1, <2>2
  <2> QED
    BY <2>1, <2>2, <2>3 DEF m
<1> QED
  BY <1>4, <1>5

(* A step that writes no entry.                                            *)
LEMMA SilentNumbers ==
    ASSUME TypeInv, NumbersInv, NEW r \in Requests, Step(r) \/ Drop(r),
           UNCHANGED <<sequence, audit>>
    PROVE  NumbersInv'
<1>1. /\ req[r].pc # "idle"
      /\ \A q \in Requests \ {r} : req'[q] = req[q]
      /\ req'[r].pc = "idle" \/ req'[r].id = req[r].id
      /\ req'[r].pc \in Holding \cup {"audit"} => req[r].pc \in Holding
  BY StepFrame DEF Stays
<1>2. "idle" \notin Holding \cup {"audit"}
  BY DEF Holding
<1>3. ASSUME NEW q \in Requests, req'[q].pc # "idle"
      PROVE  /\ req[q].pc # "idle" /\ req'[q].id = req[q].id
             /\ req'[q].pc \in Holding \cup {"audit"} =>
                  req[q].pc \in Holding \cup {"audit"}
  BY <1>1, <1>3
<1>4. AuditedOnce'
  BY <1>2, <1>3 DEF NumbersInv, AuditedOnce
<1> QED
  BY <1>3, <1>4 DEF NumbersInv

(* A request gets the next number.                                         *)
LEMMA AdmitNumbers ==
    ASSUME TypeInv, NumbersInv, NEW r \in Requests, NEW c \in Credentials,
           NEW p \in Paths, NEW n \in 0..ApprovalBound, Admit(r, c, p, n)
    PROVE  NumbersInv'
<1>1. /\ \A q \in Requests \ {r} : req'[q] = req[q]
      /\ req'[r].id = sequence + 1
      /\ sequence \in Nat /\ sequence' = sequence + 1 /\ audit' = audit
  BY BoundsAssumption DEF Admit, TypeInv
<1>2. \A q \in Requests \ {r} :
        req'[q].pc # "idle" => req'[q].id \in 1..sequence
  BY <1>1 DEF NumbersInv
<1>3. sequence + 1 \notin 1..sequence /\ 1..sequence \subseteq 1..(sequence + 1)
      /\ sequence + 1 \in 1..(sequence + 1)
  BY <1>1
<1>4. \A q \in Requests : req'[q].pc # "idle" => req'[q].id \in 1..sequence'
  BY <1>1, <1>2, <1>3
<1>5. \A s, q \in Requests :
        (req'[s].pc # "idle" /\ req'[q].pc # "idle" /\ req'[s].id = req'[q].id)
        => s = q
  BY <1>1, <1>2, <1>3 DEF NumbersInv
<1>6. \A i \in 1..Len(audit') : audit'[i].id \in 1..sequence
  BY <1>1 DEF NumbersInv
<1>7. AuditedOnce'
  <2>1. ASSUME NEW q \in Requests, NEW i \in 1..Len(audit'),
               req'[q].pc \in Holding \cup {"audit"}
        PROVE  audit'[i].id # req'[q].id
    <3>1. CASE q = r
      BY <1>1, <1>3, <1>6, <3>1
    <3>2. CASE q # r
      BY <1>1, <2>1, <3>2 DEF NumbersInv, AuditedOnce
    <3> QED
      BY <3>1, <3>2
  <2>2. \A i, j \in 1..Len(audit') : audit'[i].id = audit'[j].id => i = j
    BY <1>1 DEF NumbersInv, AuditedOnce
  <2> QED
    BY <2>1, <2>2 DEF AuditedOnce
<1> QED
  BY <1>1, <1>3, <1>4, <1>5, <1>6, <1>7 DEF NumbersInv

(* A request writes its entry, and is then past writing one.               *)
LEMMA AuditNumbers ==
    ASSUME TypeInv, NumbersInv, NEW r \in Requests, Audit(r)
    PROVE  NumbersInv'
<1> DEFINE entry == [id |-> req[r].id, path |-> req[r].path]
<1>1. /\ req[r].pc = "audit" /\ audit' = Pushed(entry)
      /\ sequence' = sequence
      /\ Leave(r) \/ Goto(r, "finished")
  BY DEF Audit
<1>2. req[r] \in Request
  BY <1>1, ActiveRequest
<1>3. entry \in [id : Nat, path : Paths] /\ entry.id = req[r].id
  BY <1>2 DEF Request
<1> HIDE DEF entry
<1>4. PICK k \in 0..1 :
        /\ Len(audit') = Len(audit) + 1 - k
        /\ \A i \in 1..Len(audit') :
             audit'[i] = IF i + k <= Len(audit) THEN audit[i + k] ELSE entry
  BY <1>1, <1>3, PushedFacts
<1>5. /\ \A q \in Requests \ {r} : req'[q] = req[q]
      /\ \/ req'[r].pc = "idle"
         \/ req'[r].pc = "finished" /\ req'[r].id = req[r].id
  <2>1. "finished" \in Phase
    BY DEF Phase
  <2> QED
    BY <1>1, <2>1, LeaveFacts, GotoFacts
<1>6. req'[r].pc \notin Holding \cup {"audit"}
  BY <1>5 DEF Holding
<1>7. Len(audit) \in Nat
  BY DEF TypeInv
<1>8. ASSUME NEW i \in 1..Len(audit')
      PROVE  \/ /\ i + k \in 1..Len(audit)
                /\ audit'[i] = audit[i + k]
             \/ /\ i + k = Len(audit) + 1
                /\ audit'[i].id = req[r].id
  BY <1>3, <1>4, <1>7
<1>9. \A i \in 1..Len(audit) : audit[i].id # req[r].id
  BY <1>1 DEF NumbersInv, AuditedOnce
<1>10. ASSUME NEW i \in 1..Len(audit'), NEW j \in 1..Len(audit'),
              audit'[i].id = audit'[j].id
       PROVE  i = j
  <2>1. i + k = j + k
    BY <1>8, <1>9, <1>10 DEF NumbersInv, AuditedOnce
  <2> QED
    BY <1>4, <1>7, <2>1
<1>11. ASSUME NEW q \in Requests, NEW i \in 1..Len(audit'),
              req'[q].pc \in Holding \cup {"audit"}
       PROVE  audit'[i].id # req'[q].id
  <2>1. q # r /\ req'[q] = req[q]
    BY <1>5, <1>6, <1>11
  <2>2. req[q].pc # "idle" /\ req[q].id # req[r].id
    BY <1>1, <1>11, <2>1 DEF NumbersInv, Holding
  <2> QED
    BY <1>8, <1>11, <2>1, <2>2 DEF NumbersInv, AuditedOnce
<1>12. AuditedOnce'
  BY <1>10, <1>11 DEF AuditedOnce
<1>13. \A i \in 1..Len(audit') : audit'[i].id \in 1..sequence'
  BY <1>1, <1>8 DEF NumbersInv
<1>14. \A q \in Requests : req'[q].pc # "idle" =>
         req[q].pc # "idle" /\ req'[q].id = req[q].id
  BY <1>1, <1>5
<1> QED
  BY <1>1, <1>12, <1>13, <1>14 DEF NumbersInv

LEMMA NextNumbers == TypeInv /\ NumbersInv /\ [Next]_vars => NumbersInv'
<1> SUFFICES ASSUME TypeInv, NumbersInv, [Next]_vars
             PROVE  NumbersInv'
  OBVIOUS
<1>1. ASSUME NEW r \in Requests, NEW c \in Credentials, NEW p \in Paths,
             NEW n \in 0..ApprovalBound, Admit(r, c, p, n)
      PROVE  NumbersInv'
  BY <1>1, AdmitNumbers
<1>2. ASSUME NEW r \in Requests, Step(r) \/ Drop(r)
      PROVE  NumbersInv'
  <2>1. CASE Audit(r)
    BY <2>1, AuditNumbers
  <2>2. CASE ~Audit(r)
    <3>1. UNCHANGED <<sequence, audit>>
      BY <1>2, <2>2 DEF Step, Rejected, Enter, Consume, NotConsumed, Ask,
                        Insert, Announced, Decide, Return, Finished, Drop
    <3> QED
      BY <1>2, <3>1, SilentNumbers
  <2> QED
    BY <2>1, <2>2
<1>3. CASE Restart
  <2>1. Len(audit') = 0 /\ \A r \in Requests : req'[r].pc = "idle"
    BY <1>3 DEF Restart, Idle
  <2> QED
    BY <2>1 DEF NumbersInv, AuditedOnce, Holding
<1>4. CASE UNCHANGED vars
  BY <1>4 DEF vars, NumbersInv, AuditedOnce
<1> QED
  BY <1>1, <1>2, <1>3, <1>4 DEF Next

(* No number is audited twice, and none before its request has ended, for  *)
(* every size of the ring and every number of connections.                 *)
THEOREM NumbersAreAuditedOnce == Spec => []AuditedOnce
<1>1. Init => NumbersInv
  <2> SUFFICES ASSUME Init
               PROVE  NumbersInv
    OBVIOUS
  <2>1. Len(audit) = 0 /\ \A r \in Requests : req[r].pc = "idle"
    BY DEF Init, Idle
  <2> QED
    BY <2>1 DEF NumbersInv, AuditedOnce, Holding
<1>2. GateInv => TypeInv
  BY DEF GateInv
<1>3. NumbersInv => AuditedOnce
  BY DEF NumbersInv
<1> QED
  BY <1>1, <1>2, <1>3, NextNumbers, GateInvariant, PTL DEF Spec

-----------------------------------------------------------------------------
(* The gate implements the grants.                                         *)

LEMMA InitRefines == Init => Grants!Init
  BY DEF Init, Grants!Init

LEMMA ConsumeRefines ==
    ASSUME GateInv, NEW r \in Requests, Consume(r)
    PROVE  \E id \in DOMAIN approvals : Grants!Use(id)
<1>1. /\ req[r].names \in DOMAIN approvals
      /\ approvals[req[r].names].path = req[r].path
      /\ approvals[req[r].names].status = "Approved"
  BY DEF Consume, Usable
<1>2. Grants!Use(req[r].names)
  BY <1>1 DEF Consume, Grants!Use
<1> QED
  BY <1>1, <1>2

LEMMA InsertRefines ==
    ASSUME GateInv, NEW r \in Requests, Insert(r)
    PROVE  \E id \in 1..ApprovalBound, p \in Paths : Grants!Ask(id, p)
<1>1. req[r].asks \in 1..ApprovalBound /\ req[r].path \in Paths
  <2>1. req[r].asks \in 1..issued /\ req[r].path \in Paths
    BY InsertFacts
  <2>2. issued \in 0..ApprovalBound
    BY DEF GateInv, TypeInv
  <2> QED
    BY <2>1, <2>2, BoundsAssumption
<1>2. Grants!Ask(req[r].asks, req[r].path)
  BY InsertFacts DEF Insert, Grants!Ask
<1> QED
  BY <1>1, <1>2

LEMMA DecideRefines ==
    ASSUME GateInv, NEW r \in Requests, Decide(r)
    PROVE  \E id \in DOMAIN approvals : Grants!Allow(id) \/ Grants!Refuse(id)
<1>1. /\ req[r].names \in DOMAIN approvals
      /\ approvals[req[r].names].status = "Pending"
  BY DEF Decide, Decidable
<1>2. Grants!Allow(req[r].names) \/ Grants!Refuse(req[r].names)
  BY <1>1 DEF Decide, Grants!Allow, Grants!Refuse
<1> QED
  BY <1>1, <1>2

(* Every step is a step of the grants or leaves them alone.                *)
LEMMA NextRefines == GateInv /\ [Next]_vars => [Grants!Next]_(Grants!vars)
<1> SUFFICES ASSUME GateInv, [Next]_vars
             PROVE  [Grants!Next]_(Grants!vars)
  OBVIOUS
<1>1. ASSUME NEW r \in Requests, Consume(r)
      PROVE  [Grants!Next]_(Grants!vars)
  BY <1>1, ConsumeRefines DEF Grants!Next
<1>2. ASSUME NEW r \in Requests, Insert(r)
      PROVE  [Grants!Next]_(Grants!vars)
  BY <1>2, InsertRefines DEF Grants!Next
<1>3. ASSUME NEW r \in Requests, Decide(r)
      PROVE  [Grants!Next]_(Grants!vars)
  BY <1>3, DecideRefines DEF Grants!Next
<1>4. CASE Restart
  BY <1>4 DEF Restart, Grants!Next, Grants!Forget
<1>5. ASSUME NEW r \in Requests,
             \/ Rejected(r) \/ Enter(r) \/ NotConsumed(r) \/ Ask(r)
             \/ Announced(r) \/ Return(r) \/ Audit(r) \/ Finished(r)
             \/ Drop(r)
      PROVE  [Grants!Next]_(Grants!vars)
  <2>1. UNCHANGED <<approvals, approved, ran>>
    BY <1>5 DEF Rejected, Enter, NotConsumed, Ask, Announced, Return, Audit,
                Finished, Drop
  <2> QED
    BY <2>1 DEF Grants!vars
<1>6. ASSUME NEW r \in Requests, NEW c \in Credentials, NEW p \in Paths,
             NEW n \in 0..ApprovalBound, Admit(r, c, p, n)
      PROVE  [Grants!Next]_(Grants!vars)
  BY <1>6 DEF Admit, Grants!vars
<1>7. CASE UNCHANGED vars
  BY <1>7 DEF vars, Grants!vars
<1> QED
  BY <1>1, <1>2, <1>3, <1>4, <1>5, <1>6, <1>7 DEF Next, Step

(* Approvals are one-shot and path-bound: the gate implements              *)
(* OneShotGrants for every number of connections, paths and approvals.     *)
THEOREM GateRefinesGrants == Spec => GrantsRefinement
<1> QED
  BY InitRefines, NextRefines, GateInvariant, PTL
  DEF Spec, GrantsRefinement, Grants!Spec

-----------------------------------------------------------------------------
(* What the grants promise.  OneShot alone is not inductive: a step that   *)
(* uses a grant needs to know that this grant has been paid for.           *)

(* The grants for p that an operator has given and nobody has used.        *)
Unused(p) ==
    {id \in DOMAIN approvals :
        approvals[id].path = p /\ approvals[id].status = "Approved"}

(* What has been used and what may still be used do not exceed what was    *)
(* approved; a restart only loses grants.                                  *)
Balance ==
    \A p \in Paths : /\ IsFiniteSet(Unused(p))
                     /\ ran[p] + Cardinality(Unused(p)) <= approved[p]

(* The types, which Balance needs for its sums.                            *)
GrantsOK ==
    /\ \A id \in DOMAIN approvals : approvals[id] \in Grants!Grant
    /\ approved \in [Paths -> Nat]
    /\ ran \in [Paths -> Nat]

GrantInv == GrantsOK /\ Balance

(* The sums of Balance are over natural numbers.                           *)
LEMMA UnusedCounts ==
    ASSUME NEW p \in Paths, GrantInv
    PROVE  /\ IsFiniteSet(Unused(p))
           /\ Cardinality(Unused(p)) \in Nat
           /\ ran[p] \in Nat
           /\ approved[p] \in Nat
           /\ ran[p] + Cardinality(Unused(p)) <= approved[p]
<1>1. IsFiniteSet(Unused(p)) /\ ran[p] + Cardinality(Unused(p)) <= approved[p]
  BY DEF GrantInv, Balance
<1>2. Cardinality(Unused(p)) \in Nat
  BY <1>1, FS_CardinalityType
<1>3. ran[p] \in Nat /\ approved[p] \in Nat
  BY DEF GrantInv, GrantsOK
<1> QED
  BY <1>1, <1>2, <1>3

(* Initially nothing is asked for, approved or used.                       *)
LEMMA InitGrantInv == Grants!Init => GrantInv
<1> SUFFICES ASSUME Grants!Init
             PROVE  GrantInv
  OBVIOUS
<1>1. DOMAIN approvals = {}
  BY DEF Grants!Init
<1>2. GrantsOK
  BY <1>1 DEF Grants!Init, GrantsOK
<1>3. ASSUME NEW p \in Paths
      PROVE  /\ IsFiniteSet(Unused(p))
             /\ ran[p] + Cardinality(Unused(p)) <= approved[p]
  <2>1. Unused(p) = {}
    BY <1>1 DEF Unused
  <2>2. ran[p] = 0 /\ approved[p] = 0
    BY DEF Grants!Init
  <2> QED
    BY <2>1, <2>2, FS_EmptySet
<1> QED
  BY <1>2, <1>3 DEF GrantInv, Balance

(* What may still be used after a grant has changed its status.            *)
LEMMA AskKeepsUnused ==
    ASSUME NEW id \in 1..ApprovalBound, NEW q \in Paths, Grants!Ask(id, q),
           NEW p \in Paths
    PROVE  Unused(p)' = Unused(p)
  BY DEF Grants!Ask, Unused

(* Allowing a grant makes it usable for its own path only.                 *)
LEMMA AllowAddsUnused ==
    ASSUME NEW id \in DOMAIN approvals, Grants!Allow(id), GrantInv, NEW p \in Paths
    PROVE  /\ id \notin Unused(p)
           /\ Unused(p)' = IF p = approvals[id].path THEN Unused(p) \cup {id}
                                                  ELSE Unused(p)
  BY DEF Grants!Allow, Unused, GrantInv, GrantsOK, Grants!Grant

(* Refusing a grant makes nothing usable.                                  *)
LEMMA RefuseKeepsUnused ==
    ASSUME NEW id \in DOMAIN approvals, Grants!Refuse(id), GrantInv, NEW p \in Paths
    PROVE  Unused(p)' = Unused(p)
  BY DEF Grants!Refuse, Unused, GrantInv, GrantsOK, Grants!Grant

(* Using a grant takes it away.                                            *)
LEMMA UseRemovesUnused ==
    ASSUME NEW id \in DOMAIN approvals, Grants!Use(id), GrantInv, NEW p \in Paths
    PROVE  /\ p = approvals[id].path => id \in Unused(p)
           /\ Unused(p)' = IF p = approvals[id].path THEN Unused(p) \ {id}
                                                  ELSE Unused(p)
  BY DEF Grants!Use, Unused, GrantInv, GrantsOK, Grants!Grant

(* Every step preserves the balance.                                       *)
LEMMA NextGrantInv == GrantInv /\ [Grants!Next]_Grants!vars => GrantInv'
<1> SUFFICES ASSUME GrantInv, [Grants!Next]_Grants!vars
             PROVE  GrantInv'
  OBVIOUS
<1>1. ASSUME NEW id \in 1..ApprovalBound, NEW q \in Paths, Grants!Ask(id, q)
      PROVE  GrantInv'
  <2>1. GrantsOK'
    BY <1>1 DEF Grants!Ask, GrantInv, GrantsOK, Grants!Grant
  <2>2. ASSUME NEW p \in Paths
        PROVE  (/\ IsFiniteSet(Unused(p))
                /\ ran[p] + Cardinality(Unused(p)) <= approved[p])'
    <3>1. Unused(p)' = Unused(p)
      BY <1>1, AskKeepsUnused
    <3>2. ran' = ran /\ approved' = approved
      BY <1>1 DEF Grants!Ask
    <3> QED
      BY <3>1, <3>2, UnusedCounts
  <2> QED
    BY <2>1, <2>2 DEF GrantInv, Balance
<1>2. ASSUME NEW id \in DOMAIN approvals, Grants!Allow(id)
      PROVE  GrantInv'
  <2>0. approvals[id].path \in Paths
    BY <1>2 DEF GrantInv, GrantsOK, Grants!Grant
  <2>1. GrantsOK'
    BY <1>2, <2>0 DEF Grants!Allow, GrantInv, GrantsOK, Grants!Grant
  <2>2. ASSUME NEW p \in Paths
        PROVE  (/\ IsFiniteSet(Unused(p))
                /\ ran[p] + Cardinality(Unused(p)) <= approved[p])'
    <3>1. /\ id \notin Unused(p)
          /\ Unused(p)' = IF p = approvals[id].path THEN Unused(p) \cup {id}
                                                 ELSE Unused(p)
      BY <1>2, AllowAddsUnused
    <3>2. /\ ran' = ran
          /\ approved'[p] = IF p = approvals[id].path THEN approved[p] + 1
                                                   ELSE approved[p]
      BY <1>2, <2>0 DEF Grants!Allow, GrantInv, GrantsOK
    <3>3. /\ IsFiniteSet(Unused(p) \cup {id})
          /\ Cardinality(Unused(p) \cup {id}) = Cardinality(Unused(p)) + 1
      BY <3>1, UnusedCounts, FS_AddElement
    <3> QED
      BY <3>1, <3>2, <3>3, UnusedCounts
  <2> QED
    BY <2>1, <2>2 DEF GrantInv, Balance
<1>3. ASSUME NEW id \in DOMAIN approvals, Grants!Refuse(id)
      PROVE  GrantInv'
  <2>1. GrantsOK'
    BY <1>3 DEF Grants!Refuse, GrantInv, GrantsOK, Grants!Grant
  <2>2. ASSUME NEW p \in Paths
        PROVE  (/\ IsFiniteSet(Unused(p))
                /\ ran[p] + Cardinality(Unused(p)) <= approved[p])'
    <3>1. Unused(p)' = Unused(p)
      BY <1>3, RefuseKeepsUnused
    <3>2. ran' = ran /\ approved' = approved
      BY <1>3 DEF Grants!Refuse
    <3> QED
      BY <3>1, <3>2, UnusedCounts
  <2> QED
    BY <2>1, <2>2 DEF GrantInv, Balance
<1>4. ASSUME NEW id \in DOMAIN approvals, Grants!Use(id)
      PROVE  GrantInv'
  <2>0. approvals[id].path \in Paths
    BY <1>4 DEF GrantInv, GrantsOK, Grants!Grant
  <2>1. GrantsOK'
    BY <1>4, <2>0 DEF Grants!Use, GrantInv, GrantsOK, Grants!Grant
  <2>2. ASSUME NEW p \in Paths
        PROVE  (/\ IsFiniteSet(Unused(p))
                /\ ran[p] + Cardinality(Unused(p)) <= approved[p])'
    <3>1. /\ p = approvals[id].path => id \in Unused(p)
          /\ Unused(p)' = IF p = approvals[id].path THEN Unused(p) \ {id}
                                                 ELSE Unused(p)
      BY <1>4, UseRemovesUnused
    <3>2. /\ approved' = approved
          /\ ran'[p] = IF p = approvals[id].path THEN ran[p] + 1 ELSE ran[p]
      BY <1>4, <2>0 DEF Grants!Use, GrantInv, GrantsOK
    <3>3. p = approvals[id].path =>
            /\ IsFiniteSet(Unused(p) \ {id})
            /\ Cardinality(Unused(p) \ {id}) = Cardinality(Unused(p)) - 1
      BY <3>1, UnusedCounts, FS_RemoveElement
    <3> QED
      BY <3>1, <3>2, <3>3, UnusedCounts
  <2> QED
    BY <2>1, <2>2 DEF GrantInv, Balance
<1>5. CASE Grants!Forget
  <2>1. DOMAIN approvals' = {}
    BY <1>5 DEF Grants!Forget
  <2>2. GrantsOK'
    BY <1>5, <2>1 DEF Grants!Forget, GrantInv, GrantsOK
  <2>3. ASSUME NEW p \in Paths
        PROVE  (/\ IsFiniteSet(Unused(p))
                /\ ran[p] + Cardinality(Unused(p)) <= approved[p])'
    <3>1. Unused(p)' = {}
      BY <2>1 DEF Unused
    <3>2. ran' = ran /\ approved' = approved
      BY <1>5 DEF Grants!Forget
    <3> QED
      BY <3>1, <3>2, UnusedCounts, FS_EmptySet
  <2> QED
    BY <2>2, <2>3 DEF GrantInv, Balance
<1>6. CASE UNCHANGED Grants!vars
  BY <1>6 DEF Grants!vars, GrantInv, GrantsOK, Balance, Unused, Grants!Grant
<1> QED
  BY <1>1, <1>2, <1>3, <1>4, <1>5, <1>6 DEF Grants!Next

(* What has been used and what may still be used never exceed what was     *)
(* approved.                                                               *)
THEOREM BalanceHolds == Grants!Spec => []GrantInv
<1> QED
  BY InitGrantInv, NextGrantInv, PTL DEF Grants!Spec

(* A guarded operation never starts more often than it was approved.       *)
THEOREM UsedOnce == Grants!Spec => []Grants!OneShot
<1>1. GrantInv => Grants!OneShot
  BY UnusedCounts DEF Grants!OneShot
<1> QED
  BY <1>1, BalanceHolds, PTL

(* A guarded handler never starts more often than an operator approved its *)
(* path, restarts included.                                                *)
THEOREM RunsOncePerApproval == Spec => []OneShot
<1>1. Grants!OneShot => OneShot
  BY DEF OneShot
<1> QED
  BY <1>1, UsedOnce, GateRefinesGrants, PTL DEF GrantsRefinement
-----------------------------------------------------------------------------
(* The role policy and the router.                                         *)

(* A call that is apart from a template does not match what matches it.    *)
LEMMA ApartMatch ==
    ASSUME NEW t, NEW u, NEW path,
           RouteMatches(t, path), RouteMatches(u, path)
    PROVE  ~Apart(t, u)
<1>1. Len(t) = Len(path) /\ Len(u) = Len(path)
  BY DEF RouteMatches
<1>2. ASSUME NEW i \in 1..Len(t), {t[i], u[i]} \cap Parameters = {}
      PROVE  t[i] = u[i]
  <2>1. t[i] = path[i] /\ u[i] = path[i]
    BY <1>1, <1>2 DEF RouteMatches
  <2> QED BY <2>1
<1> QED BY <1>1, <1>2 DEF Apart

(* The rules permit a role no call that reaches a handler its profile does *)
(* not list, and every call that its profile lists.                        *)
LEMMA RulesFollowLists ==
    ASSUME NEW role, NEW call
    PROVE  /\ Allows(role, call) => Given(role, call)
           /\ Due(role, call) => Allows(role, call)
<1>1. ASSUME NEW p \in DOMAIN Profiles, NEW listed \in Listed(p),
             listed.method = call.method, RouteMatches(listed.path, call.path),
             NEW route \in Dispatched(Routes, call)
      PROVE  route = listed
  <2>1. /\ route \in Routes /\ Serves(route, call)
        /\ RouteMatches(route.path, call.path)
    BY <1>1 DEF Dispatched
  <2>2. listed \in Routes /\ call.method # "head"
    BY <1>1, RoutesAssumption
  <2>3. route.method = listed.method
    BY <1>1, <2>1, <2>2 DEF Serves
  <2>4. ~Apart(route.path, listed.path)
    BY <1>1, <2>1, ApartMatch
  <2> QED BY <2>1, <2>2, <2>3, <2>4, RoutesAssumption
<1>2. ASSUME role # "Admin", Allows(role, call)
      PROVE  Given(role, call)
  <2>1. PICK rule \in Rules :
          /\ rule.call.method = call.method /\ role \in rule.roles
          /\ RouteMatches(rule.call.path, call.path)
    BY <1>2 DEF Allows
  <2>2. rule.roles = {ProfileRole[p] :
                        p \in {q \in DOMAIN Profiles : rule.call \in Listed(q)}}
    BY <2>1 DEF Rules
  <2>3. PICK p \in DOMAIN Profiles :
          role = ProfileRole[p] /\ rule.call \in Listed(p)
    BY <2>1, <2>2
  <2>4. \A route \in Dispatched(Routes, call) : route = rule.call
    BY <1>1, <2>1, <2>3
  <2> QED BY <2>3, <2>4 DEF Given
<1>3. ASSUME role # "Admin", Due(role, call)
      PROVE  Allows(role, call)
  <2>1. PICK p \in DOMAIN Profiles :
          /\ ProfileRole[p] = role
          /\ \E route \in Dispatched(Routes, call) \cap Listed(p) :
                route.method = call.method
    BY <1>3 DEF Due
  <2>2. PICK route \in Dispatched(Routes, call) \cap Listed(p) :
          route.method = call.method
    BY <2>1
  <2>3. RouteMatches(route.path, call.path)
    BY <2>2 DEF Dispatched
  <2> DEFINE roles == {ProfileRole[o] :
                         o \in {q \in DOMAIN Profiles : route \in Listed(q)}}
             rule == [call |-> route, roles |-> roles]
  <2>4. rule \in Rules
    BY <2>2 DEF Rules
  <2>5. role \in roles
    BY <2>1, <2>2
  <2> QED BY <2>2, <2>3, <2>4, <2>5 DEF Allows
<1> QED BY <1>2, <1>3 DEF Allows, Given

(* No request passes the role check to a handler that the profiles of its  *)
(* roles do not list, and none is refused there that they do list, for     *)
(* every call of any method, whatever the profiles and the routes are.     *)
THEOREM RolesMeetTheirHandlers == Spec => RolesGetTheirHandlers
<1> DEFINE Checked(r) == req[r].pc = "started" /\ req[r].path \notin Public
                         /\ req[r].cred \in Principals
           Met(r) == /\ Enter(r) => GivenTo(r)
                     /\ Rejected(r) => ~DueTo(r) \/ req[r].path \in Blocked
<1>1. ASSUME TypeInv, NEW r \in Requests, Checked(r)
      PROVE  /\ <<req[r].cred, req[r].path>> \in Allowed => GivenTo(r)
             /\ DueTo(r) => <<req[r].cred, req[r].path>> \in Allowed
  <2>1. PICK c, p : c = req[r].cred /\ p = req[r].path
    OBVIOUS
  <2>2. c \in Principals /\ p \in Paths \ Public
    BY <1>1, <2>1 DEF TypeInv, Request, Idle
  <2>3. \A role : /\ Allows(role, CallOf[p]) => Given(role, CallOf[p])
                  /\ Due(role, CallOf[p]) => Allows(role, CallOf[p])
    BY RulesFollowLists
  <2>4. <<c, p>> \in Permitted <=> \E role \in RolesOf[c] : Allows(role, CallOf[p])
    BY <2>2 DEF Permitted
  <2> QED BY <2>1, <2>3, <2>4, RolesAssumption DEF GivenTo, DueTo
<1>2. GateInv /\ [Next]_vars => \A r \in Requests : Checked(r) => Met(r)
  BY <1>1 DEF GateInv, Enter, Rejected, Authorized
<1> QED BY <1>2, GateInvariant, PTL DEF Spec, RolesGetTheirHandlers
=============================================================================
