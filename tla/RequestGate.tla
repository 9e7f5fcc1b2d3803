---------------------------- MODULE RequestGate ----------------------------
(***************************************************************************)
(* The way of an HTTP request through TuxBridge's two middlewares: the     *)
(* outer one (src/src/hardening.rs) bounds how many requests are in        *)
(* flight, numbers them and reports them to the event hub and the audit    *)
(* ring; the inner one (src/src/auth.rs) authenticates, authorizes and, on *)
(* the paths an administrator lists, takes an operator's approval          *)
(* (src/src/approvals.rs), which is consumed before the handler starts.    *)
(*                                                                         *)
(* A request is a future of its connection.  One action is what it does    *)
(* between two points where it can wait; at each of these points it may be *)
(* dropped, because its client went away, and the rest never runs.         *)
(***************************************************************************)
EXTENDS Naturals, Sequences, FiniteSets

CONSTANTS
    Requests,       \* connections that can have a request under way
    Credentials,    \* what can be presented, valid keys and others
    Principals,     \* the configured keys, a subset of Credentials
    Allowed,        \* the pairs <<credential, path>> the roles permit
    Paths,          \* the routed paths
    Public,         \* those in front of the inner middleware: /health, /ui
    Required,       \* approvals.required_paths
    Blocked,        \* what the default profile refuses; empty in others
    Approve, Deny,  \* POST /v1/approvals/{id}/approve and .../deny
    Unaudited,      \* paths that leave no audit entry
    Unannounced,    \* paths that emit no event: /v1/events/stream
    MaxInFlight,    \* limits.max_in_flight
    MaxAudit,       \* MAX_AUDIT_EVENTS
    RequestBound,   \* bound: requests admitted between two restarts
    ApprovalBound,  \* bound: approvals asked for between two restarts
    RestartBound    \* bound: restarts

ASSUME PathsAssumption ==
    /\ Principals \subseteq Credentials
    /\ Allowed \subseteq Principals \X Paths
    /\ Public \subseteq Paths /\ Required \subseteq Paths
    /\ Blocked \subseteq Paths
    /\ Unaudited \subseteq Paths /\ Unannounced \subseteq Paths
    /\ Approve \in Paths /\ Deny \in Paths
    \* AppConfig::validate: only /v1/ paths can require an approval, and
    \* the management of approvals cannot
    /\ Required \cap ({Approve, Deny} \cup Public) = {}

ASSUME BoundsAssumption ==
    /\ IsFiniteSet(Requests)
    /\ MaxInFlight \in Nat \ {0} /\ MaxAudit \in Nat \ {0}
    /\ RequestBound \in Nat /\ ApprovalBound \in Nat /\ RestartBound \in Nat

VARIABLES
    permits,        \* free permits of the request gate
    sequence,       \* AppState::request_sequence
    issued,         \* ApprovalStore::next
    approvals,      \* ApprovalStore::inner, from ids to records
    audit,          \* AuditStore::inner, oldest first
    req,            \* the requests under way
    approved,       \* history: how often each path was approved
    ran,            \* history: how often each guarded handler started
    restarts        \* history: how often TuxBridge was restarted

vars == <<permits, sequence, issued, approvals, audit, req, approved, ran,
          restarts>>

-----------------------------------------------------------------------------
None == 0

Phase == {"started", "consume", "ask", "insert", "announce", "handler",
          "audit", "finished"}

ApprovalStatus == {"Pending", "Approved", "Denied", "Consumed"}

ApprovalRecord == [path : Paths, status : ApprovalStatus]

Request == [pc : Phase,
            cred : Credentials,
            path : Paths,
            names : Nat,    \* the approval it names, in its header or path
            id : Nat,       \* its number
            asks : Nat,     \* the approval id it has drawn
            uses : Nat]     \* the approval it has consumed

Idle == [pc |-> "idle"]

(* The phases in which a request owns a permit.                            *)
Holding == {"started", "consume", "ask", "insert", "announce", "handler"}

InFlight == {r \in Requests : req[r].pc \in Holding}

Leave(r) == req' = [req EXCEPT ![r] = Idle]

Goto(r, pc) == req' = [req EXCEPT ![r].pc = pc]

(* The permit is released as soon as there is a response, before the audit *)
(* entry is written.                                                       *)
Respond(r) ==
    /\ permits' = permits + 1
    /\ CASE req[r].path \notin Unaudited -> Goto(r, "audit")
         [] req[r].path \in Unaudited \ Unannounced -> Goto(r, "finished")
         [] OTHER -> Leave(r)

(* The roles of the credential permit the path, and so does the profile.   *)
Authorized(r) ==
    /\ <<req[r].cred, req[r].path>> \in Allowed
    /\ req[r].path \notin Blocked

Gated(p) == p \in Required

-----------------------------------------------------------------------------
Init ==
    /\ permits = MaxInFlight
    /\ sequence = 0
    /\ issued = 0
    /\ approvals = << >>
    /\ audit = << >>
    /\ req = [r \in Requests |-> Idle]
    /\ approved = [p \in Paths |-> 0]
    /\ ran = [p \in Paths |-> 0]
    /\ restarts = 0

-----------------------------------------------------------------------------
(* The outer middleware.                                                   *)

(* A request that finds no permit is refused and leaves no trace.          *)
Admit(r, c, p, n) ==
    /\ req[r].pc = "idle"
    /\ permits > 0
    /\ sequence < RequestBound
    /\ permits' = permits - 1
    /\ sequence' = sequence + 1
    /\ req' = [req EXCEPT ![r] =
                 [pc |-> "started", cred |-> c, path |-> p, names |-> n,
                  id |-> sequence + 1, asks |-> None, uses |-> None]]
    /\ UNCHANGED <<issued, approvals, audit, approved, ran, restarts>>

(* The ring keeps the newest MaxAudit entries.                             *)
Pushed(entry) ==
    LET all == Append(audit, entry)
    IN  IF Len(all) > MaxAudit THEN Tail(all) ELSE all

(* Mutant: the counter is read again instead of the request's own number.  *)
Audit_ReadsCounter(r) ==
    /\ req[r].pc = "audit"
    /\ audit' = Pushed([id |-> sequence, path |-> req[r].path])
    /\ IF req[r].path \in Unannounced THEN Leave(r) ELSE Goto(r, "finished")
    /\ UNCHANGED <<permits, sequence, issued, approvals, approved, ran,
                   restarts>>

Audit(r) ==
    /\ req[r].pc = "audit"
    /\ audit' = Pushed([id |-> req[r].id, path |-> req[r].path])
    /\ IF req[r].path \in Unannounced THEN Leave(r) ELSE Goto(r, "finished")
    /\ UNCHANGED <<permits, sequence, issued, approvals, approved, ran,
                   restarts>>

(* The event request.finished has been emitted.                            *)
Finished(r) ==
    /\ req[r].pc = "finished"
    /\ Leave(r)
    /\ UNCHANGED <<permits, sequence, issued, approvals, audit, approved, ran,
                   restarts>>

-----------------------------------------------------------------------------
(* The inner middleware.                                                   *)

(* 401 or 403, before anything about approvals is looked at.               *)
Rejected(r) ==
    /\ req[r].pc = "started"
    /\ req[r].path \notin Public
    /\ ~Authorized(r)
    /\ Respond(r)
    /\ UNCHANGED <<sequence, issued, approvals, audit, approved, ran, restarts>>

(* Mutant: the approval gate comes before the role check.                  *)
Enter_GateFirst(r) ==
    /\ req[r].pc = "started"
    /\ req[r].path \in Public \/ Authorized(r) \/ Gated(req[r].path)
    /\ Goto(r, CASE ~Gated(req[r].path) -> "handler"
                 [] Gated(req[r].path) /\ req[r].names # None -> "consume"
                 [] OTHER -> "ask")
    /\ UNCHANGED <<permits, sequence, issued, approvals, audit, approved, ran,
                   restarts>>

(* The request goes on to its handler or to the approval gate.             *)
Enter(r) ==
    /\ req[r].pc = "started"
    /\ req[r].path \in Public \/ Authorized(r)
    /\ Goto(r, CASE ~Gated(req[r].path) -> "handler"
                 [] Gated(req[r].path) /\ req[r].names # None -> "consume"
                 [] OTHER -> "ask")
    /\ UNCHANGED <<permits, sequence, issued, approvals, audit, approved, ran,
                   restarts>>

(* Mutant: any approved record will do.                                    *)
Usable_AnyPath(id, p) ==
    id \in DOMAIN approvals /\ approvals[id].status = "Approved"

Usable(id, p) ==
    /\ id \in DOMAIN approvals
    /\ approvals[id].path = p
    /\ approvals[id].status = "Approved"

(* The approval is spent here, whatever becomes of the handler.            *)
Consume(r) ==
    /\ req[r].pc = "consume"
    /\ Usable(req[r].names, req[r].path)
    /\ approvals' = [approvals EXCEPT ![req[r].names].status = "Consumed"]
    /\ ran' = [ran EXCEPT ![req[r].path] = @ + 1]
    /\ req' = [req EXCEPT ![r].pc = "handler", ![r].uses = req[r].names]
    /\ UNCHANGED <<permits, sequence, issued, audit, approved, restarts>>

NotConsumed(r) ==
    /\ req[r].pc = "consume"
    /\ ~Usable(req[r].names, req[r].path)
    /\ Goto(r, "ask")
    /\ UNCHANGED <<permits, sequence, issued, approvals, audit, approved, ran,
                   restarts>>

(* The id is drawn outside the lock of the store.                          *)
Ask(r) ==
    /\ req[r].pc = "ask"
    /\ issued < ApprovalBound
    /\ issued' = issued + 1
    /\ req' = [req EXCEPT ![r].pc = "insert", ![r].asks = issued + 1]
    /\ UNCHANGED <<permits, sequence, approvals, audit, approved, ran, restarts>>

Insert(r) ==
    /\ req[r].pc = "insert"
    /\ approvals' = [i \in DOMAIN approvals \cup {req[r].asks} |->
                       IF i = req[r].asks
                       THEN [path |-> req[r].path, status |-> "Pending"]
                       ELSE approvals[i]]
    /\ Goto(r, "announce")
    /\ UNCHANGED <<permits, sequence, issued, audit, approved, ran, restarts>>

(* An event has been emitted and the response is ready.                    *)
Announced(r) ==
    /\ req[r].pc = "announce"
    /\ Respond(r)
    /\ UNCHANGED <<sequence, issued, approvals, audit, approved, ran, restarts>>

-----------------------------------------------------------------------------
(* The handlers.                                                           *)

(* Mutant: the status is set whatever it is.                               *)
Decidable_Always(id) == id \in DOMAIN approvals

Decidable(id) ==
    id \in DOMAIN approvals /\ approvals[id].status = "Pending"

(* POST /v1/approvals/{id}/approve and .../deny                            *)
Decide(r) ==
    /\ req[r].pc = "handler"
    /\ req[r].path \in {Approve, Deny}
    /\ Decidable(req[r].names)
    /\ IF req[r].path = Approve
       THEN /\ approvals' = [approvals EXCEPT ![req[r].names].status = "Approved"]
            /\ approved' = [approved EXCEPT ![approvals[req[r].names].path] = @ + 1]
       ELSE /\ approvals' = [approvals EXCEPT ![req[r].names].status = "Denied"]
            /\ UNCHANGED approved
    /\ Goto(r, "announce")
    /\ UNCHANGED <<permits, sequence, issued, audit, ran, restarts>>

(* Every other handler, and a decision that is refused.                    *)
Return(r) ==
    /\ req[r].pc = "handler"
    /\ req[r].path \in {Approve, Deny} => ~Decidable(req[r].names)
    /\ Respond(r)
    /\ UNCHANGED <<sequence, issued, approvals, audit, approved, ran, restarts>>

-----------------------------------------------------------------------------
(* Mutant: the permit is not an owned value that goes with the future.     *)
Drop_KeepsPermit(r) ==
    /\ req[r].pc \in Phase \ {"ask"}
    /\ req[r].pc = "started" => req[r].path \notin Unannounced
    /\ Leave(r)
    /\ UNCHANGED <<permits, sequence, issued, approvals, audit, approved, ran,
                   restarts>>

(* The client goes away while its request waits: for a lock, for the event *)
(* hub, or inside the handler.  The future is dropped, and with it its     *)
(* permit; what it has done stays done.                                    *)
Drop(r) ==
    /\ req[r].pc \in Phase \ {"ask"}
    /\ req[r].pc = "started" => req[r].path \notin Unannounced
    /\ permits' = IF req[r].pc \in Holding THEN permits + 1 ELSE permits
    /\ Leave(r)
    /\ UNCHANGED <<sequence, issued, approvals, audit, approved, ran, restarts>>

(* Everything is in memory; numbers and ids start again.                   *)
Restart ==
    /\ restarts < RestartBound
    /\ restarts' = restarts + 1
    /\ permits' = MaxInFlight
    /\ sequence' = 0
    /\ issued' = 0
    /\ approvals' = << >>
    /\ audit' = << >>
    /\ req' = [r \in Requests |-> Idle]
    /\ UNCHANGED <<approved, ran>>

-----------------------------------------------------------------------------
Step(r) ==
    \/ Rejected(r) \/ Enter(r)
    \/ Consume(r) \/ NotConsumed(r) \/ Ask(r) \/ Insert(r) \/ Announced(r)
    \/ Decide(r) \/ Return(r)
    \/ Audit(r) \/ Finished(r)

Next ==
    \/ \E r \in Requests, c \in Credentials, p \in Paths, n \in 0..ApprovalBound :
          Admit(r, c, p, n)
    \/ \E r \in Requests : Step(r) \/ Drop(r)
    \/ Restart

Spec == Init /\ [][Next]_vars

-----------------------------------------------------------------------------
(* Properties.                                                             *)

(* The types of the stores and of the requests.                            *)
TypeOK ==
    /\ permits \in 0..MaxInFlight
    /\ sequence \in 0..RequestBound
    /\ issued \in 0..ApprovalBound
    /\ DOMAIN approvals \subseteq 1..ApprovalBound
    /\ \A id \in DOMAIN approvals : approvals[id] \in ApprovalRecord
    /\ audit \in Seq([id : Nat, path : Paths])
    /\ req \in [Requests -> Request \cup {Idle}]
    /\ approved \in [Paths -> Nat]
    /\ ran \in [Paths -> Nat]
    /\ restarts \in 0..RestartBound

(* Permits are conserved: however requests end, by a response, a refusal   *)
(* or a dropped connection, the free permits and the requests under way    *)
(* add up to max_in_flight (hardening.rs:19-28, :48).                      *)
PermitsConserved == permits + Cardinality(InFlight) = MaxInFlight

(* A guarded handler that is running owns an approval of its own path that *)
(* an operator gave, and no other request owns the same one, however many  *)
(* retries present it at once (approvals.rs:33-35, auth.rs:73).            *)
HandlerOwnsApproval ==
    \A r \in Requests :
      (req[r].pc = "handler" /\ Gated(req[r].path)) =>
        /\ req[r].uses \in DOMAIN approvals
        /\ approvals[req[r].uses] = [path |-> req[r].path, status |-> "Consumed"]
        /\ \A q \in Requests \ {r} :
             req[q].pc = "handler" => req[q].uses # req[r].uses

(* An audit entry belongs to one request: numbers in the ring differ from  *)
(* each other and from those of the requests not yet reported, although    *)
(* requests end in another order than they began (hardening.rs:30, :60).   *)
AuditedOnce ==
    /\ \A i, j \in 1..Len(audit) : audit[i].id = audit[j].id => i = j
    /\ \A r \in Requests, i \in 1..Len(audit) :
         req[r].pc \in Holding \cup {"audit"} => audit[i].id # req[r].id

(* Traffic that is not authenticated and authorized changes neither the    *)
(* approvals nor what runs (auth.rs:36-49; MULTI_GPT.md:128).              *)
StrangersAskNothing ==
    [][\A r \in Requests :
         (/\ req[r].pc # "idle" /\ req[r] # req'[r] /\ restarts' = restarts
          /\ req[r].path \notin Public /\ ~Authorized(r))
         => UNCHANGED <<issued, approvals, approved, ran>>]_vars

(* The gate seen as the grants it hands out.                               *)
Grants == INSTANCE OneShotGrants WITH grants <- approvals,
                                      Ids <- 1..ApprovalBound

(* Approvals are one-shot and path-bound: every step of the gate is one of *)
(* the abstract grants, or leaves them alone (DASHBOARD.md:48).            *)
GrantsRefinement == Grants!Spec

(* A guarded handler never starts more often than its path was approved,   *)
(* restarts included (approvals.rs:33-36).                                 *)
OneShot == Grants!OneShot
=============================================================================
