------------------------ MODULE CodingSessionsProofs ------------------------
(***************************************************************************)
(* Proofs about CodingSessions, for every number of workspaces, files,     *)
(* requests and sessions: types and the undo written ahead; what edits and *)
(* rollbacks replace while nobody else writes; bytes stay in their         *)
(* workspace; sessions implement UndoLog; and the store keeps its limits.  *)
(***************************************************************************)
EXTENDS CodingSessions, WellFoundedInduction, FiniteSetTheorems, TLAPS

(* What is true of one request besides its type, when the store is ss: the *)
(* path or item its phase handles next exists, and it names a session of   *)
(* its own workspace whenever its phase depends on one.                    *)
PhaseOK(q, ss) ==
    /\ q.pc # "idle" => q.ws \in Workspaces
    /\ q.pc \in {"preflight", "read", "checkpoint", "refresh"}
          => q.k + 1 \in 1..Len(q.names)
    /\ q.pc \in {"capture", "write"} => q.k + 1 \in 1..Len(q.plan)
    /\ q.pc \in {"read", "checkpoint", "refresh", "verify", "restore", "commit"}
          => /\ q.sess \in DOMAIN ss
             /\ ss[q.sess].workspace = q.ws
    /\ q.pc = "checkpoint" => q.seen \in Contents
    /\ q.pc \in {"verify", "restore"} => q.left \subseteq Tracked(q.snap)

(* The first i items of the plan of q are tracked by its session.          *)
ItemsTracked(q, i, ss) ==
    /\ i > 0 => /\ q.sess \in DOMAIN ss
                /\ ss[q.sess].workspace = q.ws
    /\ \A j \in 1..i : q.plan[j].name \in Tracked(ss[q.sess].files)

WriteAhead(q, ss) ==
    /\ q.pc = "capture" => ItemsTracked(q, q.k, ss)
    /\ q.pc = "write" /\ q.sess # NoSession => ItemsTracked(q, Len(q.plan), ss)

RequestOK(q, ss) == PhaseOK(q, ss) /\ WriteAhead(q, ss)

(* The inductive invariant behind type correctness and WritesAreTracked.   *)
StoreInv == TypeOK /\ \A r \in Requests : RequestOK(req[r], sessions)

(* No step but a restart takes a session or a tracked name away.           *)
Grows(ss, tt) ==
    \A s \in DOMAIN ss :
      /\ s \in DOMAIN tt
      /\ tt[s].workspace = ss[s].workspace
      /\ Tracked(ss[s].files) \subseteq Tracked(tt[s].files)

USE DEF NoSession

-----------------------------------------------------------------------------
(* Helpers.                                                                *)

(* An idle request is well typed and constrains no store.                  *)
LEMMA IdleType ==
    ASSUME NEW ss
    PROVE  Idle \in Request /\ RequestOK(Idle, ss)
BY ContentsAssumption, SMT
DEF Idle, Request, Phase, RequestOK, PhaseOK, WriteAhead, Entry

(* create() makes a well-typed record.                                     *)
LEMMA NewSessionType ==
    ASSUME NEW w \in Workspaces
    PROVE  NewSession(w) \in SessionRecord
BY DEF NewSession, SessionRecord, Status

(* capture_change keeps the record well typed, its workspace and its       *)
(* status, and makes exactly one name tracked.                             *)
LEMMA CapturedType ==
    ASSUME NEW session, NEW n, NEW before, NEW after,
           session \in SessionRecord, n \in Names,
           before \in Contents, after \in Contents
    PROVE  /\ Captured(session, n, before, after) \in SessionRecord
           /\ Captured(session, n, before, after).workspace = session.workspace
           /\ Captured(session, n, before, after).status = session.status
           /\ Tracked(Captured(session, n, before, after).files)
                = Tracked(session.files) \cup {n}
<1>1. CASE n \in Tracked(session.files)
  <2>1. session.files[n] \in Entry
    BY <1>1 DEF Tracked, SessionRecord
  <2> DEFINE moved == [session EXCEPT !.files[n].after = after]
  <2>2. moved = [session EXCEPT !.files =
                   [session.files EXCEPT ![n] =
                      [session.files[n] EXCEPT !.after = after]]]
    OBVIOUS
  <2>3. [session.files[n] EXCEPT !.after = after] \in Entry
    BY <2>1 DEF Entry
  <2>4. moved \in SessionRecord
    BY <2>3 DEF SessionRecord
  <2>5. Tracked(moved.files) = Tracked(session.files) \cup {n}
    BY <2>3, <1>1, ContentsAssumption DEF SessionRecord, Tracked, Entry
  <2> QED
    BY <1>1, <2>4, <2>5 DEF Captured, SessionRecord
<1>2. CASE n \notin Tracked(session.files)
  <2> DEFINE entry == [before |-> before, after |-> after]
             added == [session EXCEPT !.files[n] = entry,
                                      !.bytes = @ + Size[before]]
  <2>1. entry \in Entry /\ entry # NoEntry /\ Size[before] \in Nat
    BY ContentsAssumption DEF Entry
  <2> HIDE DEF entry
  <2>2. added = [session EXCEPT
                   !.files = [session.files EXCEPT ![n] = entry],
                   !.bytes = session.bytes + Size[before]]
    OBVIOUS
  <2>3. [session.files EXCEPT ![n] = entry] \in [Names -> Entry \cup {NoEntry}]
    BY <2>1 DEF SessionRecord
  <2>4. session.bytes + Size[before] \in Nat
    BY <2>1 DEF SessionRecord
  <2>5. added \in SessionRecord
    BY <2>2, <2>3, <2>4 DEF SessionRecord
  <2>6. Tracked(added.files) = Tracked(session.files) \cup {n}
    BY <2>1 DEF SessionRecord, Tracked
  <2> QED
    BY <1>2, <2>5, <2>6 DEF Captured, SessionRecord, entry
<1> QED BY <1>1, <1>2

(* A position in the store holds a session record.                         *)
LEMMA SessionType ==
    ASSUME TypeOK, NEW s \in DOMAIN sessions
    PROVE  /\ s \in Nat
           /\ sessions[s] \in SessionRecord
           /\ sessions[s].workspace \in Workspaces
           /\ sessions[s].files \in [Names -> Entry \cup {NoEntry}]
<1>1. sessions \in Seq(SessionRecord)
  BY DEF TypeOK
<1>2. s \in 1..Len(sessions)
  BY <1>1
<1>3. sessions[s] \in SessionRecord
  BY <1>1, <1>2
<1> QED BY <1>2, <1>3 DEF SessionRecord

(* Replacing a record of the store by one that tracks no less.             *)
LEMMA StoreUpdate ==
    ASSUME NEW ss \in Seq(SessionRecord), NEW s \in DOMAIN ss,
           NEW record \in SessionRecord, record.workspace = ss[s].workspace,
           Tracked(ss[s].files) \subseteq Tracked(record.files)
    PROVE  /\ [ss EXCEPT ![s] = record] \in Seq(SessionRecord)
           /\ Grows(ss, [ss EXCEPT ![s] = record])
BY DEF Grows

(* What holds of a request still holds when the store only grows.          *)
LEMMA GrowsKeeps ==
    ASSUME NEW ss, NEW tt, Grows(ss, tt), NEW q \in Request, RequestOK(q, ss)
    PROVE  RequestOK(q, tt)
<1>1. PhaseOK(q, tt)
  BY DEF Grows, RequestOK, PhaseOK
<1>2. ASSUME NEW i \in Nat, ItemsTracked(q, i, ss)
      PROVE  ItemsTracked(q, i, tt)
  BY <1>2 DEF ItemsTracked, Grows
<1>3. q.k \in Nat /\ Len(q.plan) \in Nat
  BY DEF Request
<1>4. WriteAhead(q, tt)
  BY <1>2, <1>3 DEF RequestOK, WriteAhead
<1> QED BY <1>1, <1>4 DEF RequestOK

(* One request moves to state q while the store only grows.                *)
LEMMA RequestMoves ==
    ASSUME StoreInv, NEW r \in Requests, NEW q \in Request,
           Grows(sessions, sessions'), RequestOK(q, sessions'),
           req' = [req EXCEPT ![r] = q]
    PROVE  /\ req' \in [Requests -> Request]
           /\ \A p \in Requests : RequestOK(req'[p], sessions')
<1>1. req \in [Requests -> Request]
  BY DEF StoreInv, TypeOK
<1>2. ASSUME NEW p \in Requests PROVE RequestOK(req'[p], sessions')
  <2>1. CASE p = r
    BY <2>1, <1>1
  <2>2. CASE p # r
    <3>1. req'[p] = req[p] /\ req[p] \in Request /\ RequestOK(req[p], sessions)
      BY <2>2, <1>1 DEF StoreInv
    <3> QED BY <3>1, GrowsKeeps
  <2> QED BY <2>1, <2>2
<1> QED BY <1>1, <1>2

(* A store that does not change grows.                                     *)
LEMMA SameStoreGrows == ASSUME NEW ss PROVE Grows(ss, ss)
BY DEF Grows

(* A request that returns leaves nothing to preserve.                      *)
LEMMA FinishKeeps ==
    ASSUME StoreInv, NEW r \in Requests, Finish(r),
           Grows(sessions, sessions')
    PROVE  /\ req' \in [Requests -> Request]
           /\ \A p \in Requests : RequestOK(req'[p], sessions')
           /\ fresh' \in [Requests -> SUBSET Files]
<1>1. Idle \in Request /\ RequestOK(Idle, sessions')
  BY IdleType
<1>2. req' = [req EXCEPT ![r] = Idle]
  BY DEF Finish
<1>3. fresh' \in [Requests -> SUBSET Files]
  BY DEF Finish, StoreInv, TypeOK
<1> QED BY <1>1, <1>2, <1>3, RequestMoves

(* A request keeps its type when its counter and its phase move.           *)
LEMMA RequestUpdate ==
    ASSUME NEW q \in Request, NEW pc \in Phase, NEW k \in Nat
    PROVE  /\ [q EXCEPT !.k = k] \in Request
           /\ [q EXCEPT !.k = k, !.pc = pc] \in Request
<1> DEFINE names == Seq(Names)
           plans == Seq(Item)
           snaps == [Names -> Entry \cup {NoEntry}]
           lefts == SUBSET Names
           roots == Workspaces \cup {NoSession}
           reads == Contents \cup {Absent}
           Shape == [pc : Phase, ws : roots, sess : Nat, names : names,
                     k : Nat, plan : plans, seen : reads, snap : snaps,
                     left : lefts]
<1>1. Request = Shape
  BY DEF Request
<1> HIDE DEF names, plans, snaps, lefts, roots, reads
<1>2. q \in Shape
  BY <1>1
<1>3. /\ [q EXCEPT !.k = k] \in Shape
      /\ [q EXCEPT !.k = k, !.pc = pc] \in Shape
  BY <1>2
<1> QED BY <1>1, <1>3

(* The fields Advance does not touch, and what it does to the counter.     *)
LEMMA AdvanceType ==
    ASSUME StoreInv, NEW r \in Requests, NEW total \in Nat,
           NEW next \in Phase, req[r].k + 1 \in 1..total
    PROVE  /\ Advance(r, total, next) \in Request
           /\ \/ /\ req[r].k + 2 \in 1..total
                 /\ Advance(r, total, next)
                      = [req[r] EXCEPT !.k = req[r].k + 1]
              \/ /\ req[r].k + 1 = total
                 /\ Advance(r, total, next)
                      = [req[r] EXCEPT !.k = 0, !.pc = next]
<1>1. req[r] \in Request
  BY DEF StoreInv, TypeOK
<1>2. req[r].k \in Nat /\ req[r].k + 1 \in Nat
  BY <1>1 DEF Request
<1>3. CASE req[r].k + 1 < total
  <2>1. Advance(r, total, next) = [req[r] EXCEPT !.k = req[r].k + 1]
    BY <1>3 DEF Advance
  <2>2. [req[r] EXCEPT !.k = req[r].k + 1] \in Request
    BY <1>1, <1>2, RequestUpdate
  <2>3. req[r].k + 2 \in 1..total
    BY <1>2, <1>3
  <2> QED BY <2>1, <2>2, <2>3
<1>4. CASE ~(req[r].k + 1 < total)
  <2>1. Advance(r, total, next) = [req[r] EXCEPT !.k = 0, !.pc = next]
    BY <1>4 DEF Advance
  <2>2. [req[r] EXCEPT !.k = 0, !.pc = next] \in Request
    BY <1>1, RequestUpdate
  <2>3. req[r].k + 1 = total
    BY <1>2, <1>4
  <2> QED BY <2>1, <2>2, <2>3
<1> QED BY <1>3, <1>4

(* A list of paths is a non-empty sequence of names.                       *)
LEMMA PathListType ==
    ASSUME NEW names \in PathLists
    PROVE  names \in Seq(Names) /\ 1 \in 1..Len(names)
<1>1. PICK m \in 1..MaxPaths : names \in [1..m -> Names]
  BY DEF PathLists
<1>2. m \in Nat /\ m >= 1
  BY <1>1, LimitsAssumption
<1>3. names \in Seq(Names) /\ Len(names) = m
  BY <1>1, <1>2
<1> QED BY <1>2, <1>3

-----------------------------------------------------------------------------
(* StoreInv is inductive: one lemma per group of actions.                  *)

(* StoreInv holds when TuxBridge starts.                                   *)
LEMMA InitStore == Init => StoreInv
<1> SUFFICES ASSUME Init PROVE StoreInv
  OBVIOUS
<1>1. TypeOK
  <2>1. req \in [Requests -> Request]
    BY IdleType DEF Init
  <2>2. sessions \in Seq(SessionRecord)
    BY DEF Init
  <2>3. fresh \in [Requests -> SUBSET Files]
    BY DEF Init
  <2> QED BY <2>1, <2>2, <2>3 DEF Init, TypeOK
<1>2. \A r \in Requests : RequestOK(req[r], sessions)
  BY IdleType DEF Init
<1> QED BY <1>1, <1>2 DEF StoreInv

(* StoreInv survives the arrival of a request.                             *)
LEMMA ArriveStore ==
    ASSUME StoreInv, NEW r \in Requests, Arrive(r)
    PROVE  StoreInv'
<1> USE DEF StoreInv
<1>1. /\ sessions' = sessions /\ disk' = disk /\ fresh' = fresh
      /\ Grows(sessions, sessions')
  BY SameStoreGrows DEF Arrive, EditPlan, Checkpoint, Refresh, Rollback
<1>2. ASSUME NEW w \in Workspaces, NEW s \in 0..SessionBound,
             NEW names \in PathLists, EditPlan(r, w, s, names)
      PROVE  StoreInv'
  <2> DEFINE q == [Idle EXCEPT !.pc = "preflight", !.ws = w, !.sess = s,
                               !.names = names]
  <2>0. s \in Nat /\ names \in Seq(Names)
    BY PathListType, LimitsAssumption
  <2>1. q \in Request
    BY <2>0, IdleType DEF Request, Phase
  <2>2. RequestOK(q, sessions')
    BY PathListType DEF Idle, RequestOK, PhaseOK, WriteAhead
  <2>3. req' = [req EXCEPT ![r] = q]
    BY <1>2 DEF EditPlan
  <2> QED BY <1>1, <2>1, <2>2, <2>3, RequestMoves DEF TypeOK
<1>3. ASSUME NEW s \in DOMAIN sessions, NEW names \in PathLists,
             Checkpoint(r, s, names) \/ Refresh(r, s, names)
      PROVE  StoreInv'
  <2>1. PICK phase \in {"read", "refresh"} :
          req' = [req EXCEPT ![r] = [Idle EXCEPT !.pc = phase,
                                       !.ws = sessions[s].workspace,
                                       !.sess = s, !.names = names]]
    BY <1>3 DEF Checkpoint, Refresh
  <2> DEFINE q == [Idle EXCEPT !.pc = phase, !.ws = sessions[s].workspace,
                               !.sess = s, !.names = names]
  <2>2. s \in Nat /\ sessions[s].workspace \in Workspaces
    BY SessionType
  <2>3. q \in Request
    BY <2>2, IdleType, PathListType DEF Request, Phase
  <2>4. RequestOK(q, sessions')
    BY <1>1, <2>2, PathListType DEF Idle, RequestOK, PhaseOK, WriteAhead
  <2> QED BY <1>1, <2>1, <2>3, <2>4, RequestMoves DEF TypeOK
<1>4. ASSUME NEW s \in DOMAIN sessions, Rollback(r, s)
      PROVE  StoreInv'
  <2> DEFINE all == Tracked(sessions[s].files)
             phase == RollbackPhase(all, "verify", "commit")
             q == [Idle EXCEPT !.pc = phase, !.ws = sessions[s].workspace,
                               !.sess = s, !.snap = sessions[s].files,
                               !.left = all]
  <2>1. req' = [req EXCEPT ![r] = q]
    BY <1>4 DEF Rollback
  <2>2. /\ s \in Nat /\ sessions[s].workspace \in Workspaces
        /\ sessions[s].files \in [Names -> Entry \cup {NoEntry}]
    BY SessionType
  <2>3. phase \in {"verify", "commit"} /\ all \in SUBSET Names
    BY DEF RollbackPhase, Tracked
  <2>4. q \in Request
    BY <2>2, <2>3, IdleType DEF Request, Phase
  <2>5. RequestOK(q, sessions')
    BY <1>1, <2>2, <2>3 DEF Idle, RequestOK, PhaseOK, WriteAhead
  <2> QED BY <1>1, <2>1, <2>4, <2>5, RequestMoves DEF TypeOK
<1> QED BY <1>2, <1>3, <1>4 DEF Arrive

(* StoreInv survives the creation and the finalization of a session.       *)
LEMMA StoreActions ==
    ASSUME StoreInv,
           \/ \E w \in Workspaces : CreateSession(w)
           \/ \E s \in DOMAIN sessions : Finalize(s)
    PROVE  StoreInv'
<1> USE DEF StoreInv
<1>1. req' = req /\ disk' = disk /\ fresh' = fresh
  BY DEF CreateSession, Finalize
<1>2. sessions' \in Seq(SessionRecord) /\ Grows(sessions, sessions')
  <2>1. ASSUME NEW w \in Workspaces, CreateSession(w)
        PROVE  sessions' \in Seq(SessionRecord) /\ Grows(sessions, sessions')
    <3>1. sessions' = Append(sessions, NewSession(w))
      BY <2>1 DEF CreateSession
    <3> QED BY <3>1, NewSessionType DEF TypeOK, Grows
  <2>2. ASSUME NEW s \in DOMAIN sessions, Finalize(s)
        PROVE  sessions' \in Seq(SessionRecord) /\ Grows(sessions, sessions')
    <3> DEFINE record == [sessions[s] EXCEPT !.status = "Finalized"]
    <3>1. sessions' = [sessions EXCEPT ![s] = record]
      BY <2>2 DEF Finalize
    <3>2. /\ record \in SessionRecord
          /\ record.workspace = sessions[s].workspace
          /\ record.files = sessions[s].files
      BY SessionType DEF SessionRecord, Status
    <3> QED BY <3>1, <3>2, StoreUpdate DEF TypeOK
  <2> QED BY <2>1, <2>2
<1>3. ASSUME NEW p \in Requests PROVE RequestOK(req'[p], sessions')
  BY <1>1, <1>2, GrowsKeeps DEF TypeOK
<1> QED BY <1>1, <1>2, <1>3 DEF TypeOK

(* StoreInv survives a restart.                                            *)
LEMMA RestartStore ==
    ASSUME StoreInv, Restart PROVE StoreInv'
BY IdleType DEF StoreInv, TypeOK, Restart

(* StoreInv survives a write by somebody else.                             *)
LEMMA OutsideStore ==
    ASSUME StoreInv, OutsideNext PROVE StoreInv'
<1>0. PICK w \in Workspaces, f \in Files :
        \E c \in ContentsOf[w] \cup {Absent} : OutsideWrite(w, f, c)
  BY DEF OutsideNext
<1>1. PICK c \in ContentsOf[w] \cup {Absent} : OutsideWrite(w, f, c)
  BY <1>0
<1>2. c \in Contents \cup {Absent}
  BY ContentsAssumption
<1>3. disk' \in [Workspaces -> [Files -> Contents \cup {Absent}]]
  BY <1>1, <1>2 DEF StoreInv, TypeOK, OutsideWrite
<1>4. fresh' \in [Requests -> SUBSET Files]
  BY <1>1 DEF StoreInv, TypeOK, OutsideWrite
<1> QED BY <1>1, <1>3, <1>4 DEF StoreInv, TypeOK, OutsideWrite

(* What a phase gives the action that runs in it.                          *)
LEMMA PhaseFacts ==
    ASSUME StoreInv, NEW r \in Requests
    PROVE  /\ req[r] \in Request
           /\ req[r].k \in Nat
           /\ req[r].names \in Seq(Names) /\ Len(req[r].names) \in Nat
           /\ req[r].plan \in Seq(Item) /\ Len(req[r].plan) \in Nat
           /\ req[r].pc # "idle" => req[r].ws \in Workspaces
           /\ req[r].pc \in {"preflight", "read", "checkpoint", "refresh"} =>
                /\ req[r].k + 1 \in 1..Len(req[r].names)
                /\ req[r].names[req[r].k + 1] \in Names
           /\ req[r].pc \in {"capture", "write"} =>
                /\ req[r].k + 1 \in 1..Len(req[r].plan)
                /\ req[r].plan[req[r].k + 1] \in Item
           /\ req[r].snap \in [Names -> Entry \cup {NoEntry}]
           /\ req[r].left \in SUBSET Names
<1>1. req[r] \in Request /\ PhaseOK(req[r], sessions)
  BY DEF StoreInv, TypeOK, RequestOK
<1>2. /\ req[r].k \in Nat
      /\ req[r].names \in Seq(Names)
      /\ req[r].plan \in Seq(Item)
      /\ req[r].snap \in [Names -> Entry \cup {NoEntry}]
      /\ req[r].left \in SUBSET Names
  BY <1>1 DEF Request
<1>3. ASSUME req[r].pc \in {"preflight", "read", "checkpoint", "refresh"}
      PROVE  /\ req[r].k + 1 \in 1..Len(req[r].names)
             /\ req[r].names[req[r].k + 1] \in Names
  <2>1. req[r].k + 1 \in 1..Len(req[r].names)
    BY <1>1, <1>3 DEF PhaseOK
  <2> QED BY <1>2, <2>1
<1>4. ASSUME req[r].pc \in {"capture", "write"}
      PROVE  /\ req[r].k + 1 \in 1..Len(req[r].plan)
             /\ req[r].plan[req[r].k + 1] \in Item
  <2>1. req[r].k + 1 \in 1..Len(req[r].plan)
    BY <1>1, <1>4 DEF PhaseOK
  <2> QED BY <1>2, <2>1
<1>5. req[r].pc # "idle" => req[r].ws \in Workspaces
  BY <1>1 DEF PhaseOK
<1>6. Len(req[r].names) \in Nat /\ Len(req[r].plan) \in Nat
  BY <1>2
<1> QED BY <1>1, <1>2, <1>3, <1>4, <1>5, <1>6

(* StoreInv survives the preflight of one file of an edit plan.            *)
LEMMA PreflightStore ==
    ASSUME StoreInv, NEW r \in Requests,
           PreflightItem(r) \/ PreflightRefused(r)
    PROVE  StoreInv'
<1>1. sessions' = sessions /\ disk' = disk /\ Grows(sessions, sessions')
  BY SameStoreGrows DEF PreflightItem, PreflightRefused
<1>2. CASE PreflightRefused(r)
  BY <1>1, <1>2, FinishKeeps DEF PreflightRefused, StoreInv, TypeOK
<1>3. CASE PreflightItem(r)
  <2> DEFINE w == req[r].ws
             f == FileOf[req[r].names[req[r].k + 1]]
             after == IF req[r].sess = NoSession THEN "write" ELSE "capture"
             total == Len(req[r].names)
             next == Advance(r, total, after)
  <2>1. /\ req[r].pc = "preflight" /\ disk[w][f] # Absent
        /\ \E expected, updated \in ContentsOf[w] :
             /\ HashMatches(expected, disk[w][f])
             /\ req' = [req EXCEPT ![r] =
                  [next EXCEPT !.plan = Append(@, [name |-> f,
                                                   expected |-> expected,
                                                   original |-> disk[w][f],
                                                   updated |-> updated])]]
        /\ fresh' = [fresh EXCEPT ![r] = @ \cup {f}]
    BY <1>3 DEF PreflightItem
  <2>2. PICK expected \in ContentsOf[w], updated \in ContentsOf[w] :
             req' = [req EXCEPT ![r] =
                  [next EXCEPT !.plan = Append(@, [name |-> f,
                                                   expected |-> expected,
                                                   original |-> disk[w][f],
                                                   updated |-> updated])]]
    BY <2>1
  <2> DEFINE item == [name |-> f, expected |-> expected,
                      original |-> disk[w][f], updated |-> updated]
             q == [next EXCEPT !.plan = Append(@, item)]
  <2>3. w \in Workspaces /\ f \in Files
    BY <2>1, PhaseFacts, NamesAssumption
  <2>4. disk[w][f] \in Contents
    <3> HIDE DEF w, f
    <3>1. disk[w] \in [Files -> Contents \cup {Absent}]
      BY <2>3 DEF StoreInv, TypeOK
    <3> QED BY <2>1, <2>3, <3>1
  <2>5. item \in Item
    BY <2>3, <2>4, ContentsAssumption DEF Item
  <2>6. after \in {"write", "capture"} /\ after \in Phase
    BY DEF Phase
  <2>7. /\ next \in Request
        /\ \/ /\ req[r].k + 2 \in 1..total
              /\ next = [req[r] EXCEPT !.k = req[r].k + 1]
           \/ /\ req[r].k + 1 = total
              /\ next = [req[r] EXCEPT !.k = 0, !.pc = after]
    <3>1. total \in Nat /\ req[r].k + 1 \in 1..total
      BY <2>1, PhaseFacts
    <3>2. after \in Phase
      BY <2>6
    <3> HIDE DEF after, total, w, f, item, q
    <3>3. next \in Request
      BY <3>1, <3>2, AdvanceType
    <3>4. \/ /\ req[r].k + 2 \in 1..total
             /\ next = [req[r] EXCEPT !.k = req[r].k + 1]
          \/ /\ req[r].k + 1 = total
             /\ next = [req[r] EXCEPT !.k = 0, !.pc = after]
      <4>1. req[r].k \in Nat
        BY PhaseFacts
      <4> QED BY <3>1, <4>1 DEF Advance
    <3> QED BY <3>3, <3>4
  <2> HIDE DEF item, w, f, after, next
  <2>8. next.plan \in Seq(Item)
    BY <2>7 DEF Request
  <2>9. Append(next.plan, item) \in Seq(Item) /\ 1 \in 1..Len(Append(next.plan, item))
    BY <2>5, <2>8
  <2>10. q \in Request
    BY <2>7, <2>9 DEF Request
  <2>11. /\ q.plan = Append(next.plan, item) /\ q.ws = req[r].ws
         /\ q.names = req[r].names /\ q.sess = req[r].sess
         /\ \/ /\ q.pc = "preflight" /\ q.k = req[r].k + 1
               /\ req[r].k + 2 \in 1..Len(req[r].names)
            \/ q.k = 0 /\ q.pc = after
    BY <2>1, <2>7 DEF Request
  <2>12. q.pc = "write" => q.sess = NoSession
    BY <2>11 DEF after
  <2>13. req' = [req EXCEPT ![r] = q]
    BY <2>2 DEF item
  <2> HIDE DEF q
  <2>14. RequestOK(q, sessions')
    <3>1. req[r].k \in Nat /\ q.ws \in Workspaces
      BY <2>3, <2>11, PhaseFacts DEF w
    <3>2. q.pc = "preflight" => q.k + 1 \in 1..Len(q.names)
      BY <2>6, <2>11, <3>1
    <3>3. q.pc # "preflight" => /\ q.pc \in {"write", "capture"}
                                /\ q.k + 1 \in 1..Len(q.plan)
      BY <2>6, <2>9, <2>11
    <3>4. PhaseOK(q, sessions')
      <4> QED BY <3>1, <3>2, <3>3 DEF PhaseOK
    <3>5. WriteAhead(q, sessions')
      BY <2>6, <2>11, <2>12 DEF WriteAhead, ItemsTracked
    <3> QED BY <3>4, <3>5 DEF RequestOK
  <2>15. fresh' \in [Requests -> SUBSET Files]
    BY <2>1, <2>3 DEF StoreInv, TypeOK
  <2> QED BY <1>1, <2>10, <2>13, <2>14, <2>15, RequestMoves DEF StoreInv, TypeOK
<1> QED BY <1>2, <1>3

(* StoreInv survives the capture of one file, accepted or refused.         *)
LEMMA CaptureStore ==
    ASSUME StoreInv, NEW r \in Requests, CaptureItem(r) \/ CaptureRefused(r)
    PROVE  StoreInv'
<1>1. CASE CaptureRefused(r)
  BY <1>1, FinishKeeps, SameStoreGrows DEF CaptureRefused, StoreInv, TypeOK
<1>2. CASE CaptureItem(r)
  <2> DEFINE item == req[r].plan[req[r].k + 1]
             s == req[r].sess
             session == sessions[s]
             n == item.name
             before == item.original
             after == item.updated
             record == Captured(session, n, before, after)
             q == Advance(r, Len(req[r].plan), "write")
  <2>1. /\ req[r].pc = "capture"
        /\ CanCapture(s, req[r].ws, item.name, item.original)
        /\ sessions' = [sessions EXCEPT ![s] = record]
        /\ req' = [req EXCEPT ![r] = q]
        /\ disk' = disk /\ fresh' = fresh
    BY <1>2 DEF CaptureItem
  <2>2. item \in Item
    BY <2>1, PhaseFacts
  <2>3. /\ item.name \in Names /\ item.original \in Contents
        /\ item.updated \in Contents
    BY <2>2, NamesAssumption DEF Item
  <2>4. s \in DOMAIN sessions /\ sessions[s].workspace = req[r].ws
    BY <2>1 DEF CanCapture, ValidSession
  <2>5. sessions \in Seq(SessionRecord) /\ sessions[s] \in SessionRecord
    BY <2>4, SessionType DEF StoreInv, TypeOK
  <2>6. /\ record \in SessionRecord
        /\ record.workspace = session.workspace
        /\ Tracked(record.files) = Tracked(session.files) \cup {n}
    <3>1. /\ session \in SessionRecord /\ n \in Names
          /\ before \in Contents /\ after \in Contents
      BY <2>3, <2>5
    <3> HIDE DEF session, n, before, after, s, item, q
    <3>2. record \in SessionRecord
      BY <3>1, CapturedType
    <3>3. record.workspace = session.workspace
      BY <3>1, CapturedType
    <3>4. Tracked(record.files) = Tracked(session.files) \cup {n}
      BY <3>1, CapturedType
    <3> QED BY <3>2, <3>3, <3>4
  <2> HIDE DEF record
  <2>7. /\ sessions' \in Seq(SessionRecord)
        /\ Grows(sessions, sessions')
    BY <2>1, <2>4, <2>5, <2>6, StoreUpdate
  <2>8. /\ q \in Request
        /\ \/ /\ req[r].k + 2 \in 1..Len(req[r].plan)
              /\ q = [req[r] EXCEPT !.k = req[r].k + 1]
           \/ /\ req[r].k + 1 = Len(req[r].plan)
              /\ q = [req[r] EXCEPT !.k = 0, !.pc = "write"]
    BY <2>1, PhaseFacts, AdvanceType DEF Phase
  <2> HIDE DEF q
  <2>9. /\ q.plan = req[r].plan /\ q.ws = req[r].ws /\ q.sess = req[r].sess
        /\ \/ /\ q.pc = "capture" /\ q.k = req[r].k + 1
              /\ q.k + 1 \in 1..Len(q.plan)
           \/ /\ q.pc = "write" /\ q.k = 0
              /\ Len(q.plan) = req[r].k + 1
    <3>1. req[r] \in Request /\ req[r].k \in Nat
      BY PhaseFacts
    <3>2. q.plan = req[r].plan /\ q.ws = req[r].ws /\ q.sess = req[r].sess
      BY <2>8, <3>1 DEF Request
    <3>3. CASE /\ req[r].k + 2 \in 1..Len(req[r].plan)
               /\ q = [req[r] EXCEPT !.k = req[r].k + 1]
      <4>1. q.pc = "capture" /\ q.k = req[r].k + 1
        BY <2>1, <3>1, <3>3 DEF Request
      <4>2. q.k + 1 = req[r].k + 2
        BY <3>1, <4>1
      <4> QED BY <3>2, <3>3, <4>1, <4>2
    <3>4. CASE /\ req[r].k + 1 = Len(req[r].plan)
               /\ q = [req[r] EXCEPT !.k = 0, !.pc = "write"]
      <4>1. q.pc = "write" /\ q.k = 0
        BY <2>1, <3>1, <3>4 DEF Request
      <4> QED BY <3>2, <3>4, <4>1
    <3> QED BY <2>8, <3>2, <3>3, <3>4
  <2>10. ItemsTracked(q, req[r].k + 1, sessions')
    <3>1. ItemsTracked(req[r], req[r].k, sessions)
      BY <2>1 DEF StoreInv, RequestOK, WriteAhead
    <3>2. s \in DOMAIN sessions' /\ sessions'[s].workspace = q.ws
      BY <2>4, <2>7, <2>9 DEF Grows
    <3>3. ASSUME NEW j \in 1..(req[r].k + 1)
          PROVE  req[r].plan[j].name \in Tracked(sessions'[s].files)
      <4>1. CASE j = req[r].k + 1
        BY <2>1, <2>4, <2>5, <2>6, <4>1
      <4>2. CASE j # req[r].k + 1
        <5>1. j \in 1..req[r].k
          BY <4>2, PhaseFacts
        <5>2. req[r].plan[j].name \in Tracked(sessions[s].files)
          BY <3>1, <5>1 DEF ItemsTracked
        <5> QED BY <2>4, <2>7, <5>2 DEF Grows
      <4> QED BY <4>1, <4>2
    <3> QED BY <2>9, <3>2, <3>3 DEF ItemsTracked
  <2>11. RequestOK(q, sessions')
    <3>1. PhaseOK(q, sessions')
      BY <2>1, <2>9, PhaseFacts DEF PhaseOK
    <3>2. WriteAhead(q, sessions')
      BY <2>9, <2>10 DEF WriteAhead
    <3> QED BY <3>1, <3>2 DEF RequestOK
  <2> QED BY <2>1, <2>7, <2>8, <2>11, RequestMoves DEF StoreInv, TypeOK
<1> QED BY <1>1, <1>2

(* The history keeps its type when a file is written.                      *)
LEMMA OverwrittenType ==
    ASSUME TypeOK, NEW r, NEW w, NEW f
    PROVE  Overwritten(r, w, f) \in [Requests -> SUBSET Files]
BY DEF TypeOK, Overwritten

(* The files keep their type when one of them is written.                  *)
LEMMA DiskUpdate ==
    ASSUME TypeOK, NEW w \in Workspaces, NEW f \in Files, NEW c \in Contents
    PROVE  [disk EXCEPT ![w][f] = c]
              \in [Workspaces -> [Files -> Contents \cup {Absent}]]
BY DEF TypeOK

(* StoreInv survives one write of an edit plan.                            *)
LEMMA WriteStore ==
    ASSUME StoreInv, NEW r \in Requests, WriteItem(r)
    PROVE  StoreInv'
<1> DEFINE item == req[r].plan[req[r].k + 1]
           total == Len(req[r].plan)
           next == Advance(r, total, "idle")
           spread == Overwritten(r, req[r].ws, item.name)
<1>1. /\ req[r].pc = "write"
      /\ disk' = [disk EXCEPT ![req[r].ws][item.name] = item.updated]
      /\ sessions' = sessions
      /\ \/ /\ next.pc = "idle"
            /\ req' = [req EXCEPT ![r] = Idle]
            /\ fresh' = [spread EXCEPT ![r] = {}]
         \/ /\ next.pc # "idle"
            /\ req' = [req EXCEPT ![r] = next]
            /\ fresh' = spread
  BY DEF WriteItem
<1>2. /\ item \in Item /\ req[r].ws \in Workspaces
      /\ total \in Nat /\ req[r].k + 1 \in 1..total
      /\ req[r] \in Request
  BY <1>1, PhaseFacts
<1>3. TypeOK /\ sessions \in Seq(SessionRecord) /\ Grows(sessions, sessions')
  BY <1>1, SameStoreGrows DEF StoreInv, TypeOK
<1>4. disk' \in [Workspaces -> [Files -> Contents \cup {Absent}]]
  <2>1. item.name \in Files /\ item.updated \in Contents
    BY <1>2 DEF Item
  <2> HIDE DEF item
  <2> QED BY <1>1, <1>2, <1>3, <2>1, DiskUpdate
<1>5. fresh' \in [Requests -> SUBSET Files]
  <2>1. spread \in [Requests -> SUBSET Files]
    BY <1>3, OverwrittenType
  <2> HIDE DEF spread, next
  <2> QED BY <1>1, <2>1
<1>6. CASE next.pc = "idle"
  <2>1. Idle \in Request /\ RequestOK(Idle, sessions')
    BY IdleType
  <2>2. req' = [req EXCEPT ![r] = Idle]
    BY <1>1, <1>6
  <2> QED BY <1>1, <1>3, <1>4, <1>5, <2>1, <2>2, RequestMoves
          DEF StoreInv, TypeOK
<1>7. CASE next.pc # "idle"
  <2>1. /\ next \in Request
        /\ \/ /\ req[r].k + 2 \in 1..total
              /\ next = [req[r] EXCEPT !.k = req[r].k + 1]
           \/ /\ req[r].k + 1 = total
              /\ next = [req[r] EXCEPT !.k = 0, !.pc = "idle"]
    <3> HIDE DEF total
    <3> QED BY <1>2, AdvanceType DEF Phase
  <2> HIDE DEF next
  <2>2. /\ req[r].k + 2 \in 1..total
        /\ next.pc = "write" /\ next.k = req[r].k + 1
        /\ next.plan = req[r].plan /\ next.ws = req[r].ws
        /\ next.sess = req[r].sess
    BY <1>1, <1>2, <1>7, <2>1 DEF Request
  <2>3. next.k + 1 \in 1..Len(next.plan)
    <3>1. req[r].k \in Nat
      BY PhaseFacts
    <3> QED BY <2>2, <3>1
  <2>4. RequestOK(next, sessions')
    <3>1. PhaseOK(next, sessions')
      BY <1>2, <2>2, <2>3 DEF PhaseOK
    <3>2. WriteAhead(req[r], sessions)
      BY DEF StoreInv, RequestOK
    <3>3. WriteAhead(next, sessions')
      BY <1>1, <2>2, <3>2 DEF WriteAhead, ItemsTracked
    <3> QED BY <3>1, <3>3 DEF RequestOK
  <2>5. req' = [req EXCEPT ![r] = next]
    BY <1>1, <1>7
  <2> QED BY <1>1, <1>3, <1>4, <1>5, <2>1, <2>4, <2>5, RequestMoves
          DEF StoreInv, TypeOK
<1> QED BY <1>6, <1>7

(* StoreInv survives every early end of a request.                         *)
LEMMA EndStore ==
    ASSUME StoreInv, NEW r \in Requests,
           WriteFails(r) \/ RollbackRefused(r) \/ Disconnect(r)
    PROVE  StoreInv'
<1>1. Finish(r) /\ disk' = disk /\ sessions' = sessions
  BY DEF WriteFails, RollbackRefused, Disconnect
<1> QED BY <1>1, FinishKeeps, SameStoreGrows DEF StoreInv, TypeOK

(* StoreInv survives the read of one file of a checkpoint.                 *)
LEMMA CheckpointReadStore ==
    ASSUME StoreInv, NEW r \in Requests, CheckpointRead(r)
    PROVE  StoreInv'
<1> DEFINE f == FileOf[req[r].names[req[r].k + 1]]
           current == disk[req[r].ws][f]
<1>1. /\ req[r].pc = "read" /\ disk' = disk /\ sessions' = sessions
      /\ \/ Finish(r)
         \/ /\ current # Absent
            /\ req' = [req EXCEPT ![r].pc = "checkpoint", ![r].seen = current]
            /\ fresh' = [fresh EXCEPT ![r] = @ \cup {f}]
  BY DEF CheckpointRead
<1>2. f \in Files /\ req[r].ws \in Workspaces /\ req[r] \in Request
  BY <1>1, PhaseFacts, NamesAssumption
<1>3. TypeOK /\ Grows(sessions, sessions')
  BY <1>1, SameStoreGrows DEF StoreInv
<1>4. CASE Finish(r)
  BY <1>1, <1>3, <1>4, FinishKeeps DEF StoreInv, TypeOK
<1>5. CASE /\ current # Absent
           /\ req' = [req EXCEPT ![r].pc = "checkpoint", ![r].seen = current]
           /\ fresh' = [fresh EXCEPT ![r] = @ \cup {f}]
  <2> DEFINE q == [req[r] EXCEPT !.pc = "checkpoint", !.seen = current]
  <2>1. current \in Contents
    <3> HIDE DEF f
    <3>1. disk[req[r].ws] \in [Files -> Contents \cup {Absent}]
      BY <1>2, <1>3 DEF TypeOK
    <3> QED BY <1>2, <1>5, <3>1
  <2>2. fresh' \in [Requests -> SUBSET Files]
    BY <1>2, <1>3, <1>5 DEF TypeOK
  <2> HIDE DEF current
  <2>3. q \in Request
    BY <1>2, <2>1 DEF Request, Phase
  <2>4. RequestOK(q, sessions')
    <3>1. PhaseOK(req[r], sessions)
      BY DEF StoreInv, RequestOK
    <3>2. /\ q.pc = "checkpoint" /\ q.seen = current /\ q.k = req[r].k
          /\ q.ws = req[r].ws /\ q.sess = req[r].sess
          /\ q.names = req[r].names
      BY <1>2 DEF Request
    <3> QED BY <1>1, <1>2, <2>1, <3>1, <3>2
            DEF RequestOK, PhaseOK, WriteAhead
  <2>5. req' = [req EXCEPT ![r] = q]
    BY <1>3, <1>5 DEF TypeOK
  <2> HIDE DEF q
  <2> QED BY <1>1, <1>3, <2>2, <2>3, <2>4, <2>5, RequestMoves
          DEF StoreInv, TypeOK
<1> QED BY <1>1, <1>4, <1>5

(* StoreInv survives the capture of one file of a checkpoint.              *)
LEMMA CheckpointCaptureStore ==
    ASSUME StoreInv, NEW r \in Requests, CheckpointCapture(r)
    PROVE  StoreInv'
<1> DEFINE n == req[r].names[req[r].k + 1]
           c == req[r].seen
           s == req[r].sess
           session == sessions[s]
           record == Captured(session, n, c, c)
           total == Len(req[r].names)
           next == Advance(r, total, "idle")
           q == [next EXCEPT !.pc = "read", !.seen = Absent]
<1>1. /\ req[r].pc = "checkpoint" /\ disk' = disk
      /\ \/ /\ CanCapture(s, req[r].ws, n, c)
            /\ sessions' = [sessions EXCEPT ![s] = record]
            /\ \/ Finish(r)
               \/ /\ next.pc # "idle" /\ fresh' = fresh
                  /\ req' = [req EXCEPT ![r] = q]
         \/ Finish(r) /\ sessions' = sessions
  BY DEF CheckpointCapture
<1>2. /\ n \in Names /\ c \in Contents /\ req[r] \in Request
      /\ total \in Nat /\ req[r].k + 1 \in 1..total
      /\ req[r].ws \in Workspaces
  BY <1>1, PhaseFacts DEF StoreInv, RequestOK, PhaseOK
<1>3. TypeOK /\ sessions \in Seq(SessionRecord)
  BY DEF StoreInv, TypeOK
<1>4. CASE Finish(r) /\ sessions' = sessions
  BY <1>1, <1>3, <1>4, FinishKeeps, SameStoreGrows DEF StoreInv, TypeOK
<1>5. CASE /\ CanCapture(s, req[r].ws, n, c)
           /\ sessions' = [sessions EXCEPT ![s] = record]
           /\ \/ Finish(r)
              \/ /\ next.pc # "idle" /\ fresh' = fresh
                 /\ req' = [req EXCEPT ![r] = q]
  <2>1. s \in DOMAIN sessions /\ session.workspace = req[r].ws
    BY <1>5 DEF CanCapture, ValidSession
  <2>2. session \in SessionRecord
    BY <1>3, <2>1, SessionType
  <2>3. /\ record \in SessionRecord
        /\ record.workspace = session.workspace
        /\ Tracked(record.files) = Tracked(session.files) \cup {n}
    <3> HIDE DEF session, n, c
    <3>1. record \in SessionRecord
      BY <1>2, <2>2, CapturedType
    <3>2. record.workspace = session.workspace
      BY <1>2, <2>2, CapturedType
    <3>3. Tracked(record.files) = Tracked(session.files) \cup {n}
      BY <1>2, <2>2, CapturedType
    <3> QED BY <3>1, <3>2, <3>3
  <2> HIDE DEF record
  <2>4. sessions' \in Seq(SessionRecord) /\ Grows(sessions, sessions')
    BY <1>3, <1>5, <2>1, <2>3, StoreUpdate
  <2>5. CASE Finish(r)
    BY <1>1, <1>3, <2>4, <2>5, FinishKeeps DEF StoreInv, TypeOK
  <2>6. CASE /\ next.pc # "idle" /\ fresh' = fresh
             /\ req' = [req EXCEPT ![r] = q]
    <3>1. /\ next \in Request
          /\ \/ /\ req[r].k + 2 \in 1..total
                /\ next = [req[r] EXCEPT !.k = req[r].k + 1]
             \/ /\ req[r].k + 1 = total
                /\ next = [req[r] EXCEPT !.k = 0, !.pc = "idle"]
      <4> HIDE DEF total
      <4> QED BY <1>2, AdvanceType DEF Phase
    <3> HIDE DEF next
    <3>2. /\ req[r].k + 2 \in 1..total
          /\ q.k = req[r].k + 1 /\ q.names = req[r].names
          /\ q.ws = req[r].ws /\ q.sess = s /\ q.pc = "read"
          /\ q \in Request
      BY <1>2, <2>6, <3>1 DEF Request, Phase
    <3>3. q.k + 1 \in 1..Len(q.names)
      <4>1. req[r].k \in Nat
        BY PhaseFacts
      <4> QED BY <3>2, <4>1
    <3> HIDE DEF q
    <3>4. s \in DOMAIN sessions' /\ sessions'[s].workspace = q.ws
      BY <2>1, <2>4, <3>2 DEF Grows
    <3>5. RequestOK(q, sessions')
      BY <1>2, <3>2, <3>3, <3>4 DEF RequestOK, PhaseOK, WriteAhead
    <3> QED BY <1>1, <1>3, <2>4, <2>6, <3>2, <3>5, RequestMoves
            DEF StoreInv, TypeOK
  <2> QED BY <1>5, <2>5, <2>6
<1> QED BY <1>1, <1>4, <1>5

(* StoreInv survives one path of a refresh.                                *)
LEMMA RefreshStore ==
    ASSUME StoreInv, NEW r \in Requests, RefreshPath(r)
    PROVE  StoreInv'
<1> DEFINE n == req[r].names[req[r].k + 1]
           s == req[r].sess
           session == sessions[s]
           current == disk[req[r].ws][FileOf[n]]
           entry == [session.files[n] EXCEPT !.after = current]
           record == [session EXCEPT
                        !.files = [session.files EXCEPT ![n] = entry]]
           total == Len(req[r].names)
           next == Advance(r, total, "idle")
<1>1. /\ req[r].pc = "refresh" /\ disk' = disk /\ fresh' = fresh
      /\ \/ /\ n \in Tracked(session.files) /\ current # Absent
            /\ sessions' = [sessions EXCEPT ![s].files[n].after = current]
            /\ \/ next.pc = "idle" /\ req' = [req EXCEPT ![r] = Idle]
               \/ next.pc # "idle" /\ req' = [req EXCEPT ![r] = next]
         \/ req' = [req EXCEPT ![r] = Idle] /\ sessions' = sessions
  BY DEF RefreshPath
<1>2. /\ n \in Names /\ req[r] \in Request
      /\ total \in Nat /\ req[r].k + 1 \in 1..total
      /\ req[r].ws \in Workspaces
      /\ s \in DOMAIN sessions /\ session.workspace = req[r].ws
  BY <1>1, PhaseFacts DEF StoreInv, RequestOK, PhaseOK
<1>3. TypeOK /\ sessions \in Seq(SessionRecord) /\ session \in SessionRecord
  BY <1>2, SessionType DEF StoreInv, TypeOK
<1>4. Idle \in Request /\ RequestOK(Idle, sessions')
  BY IdleType
<1>5. CASE req' = [req EXCEPT ![r] = Idle] /\ sessions' = sessions
  BY <1>1, <1>3, <1>4, <1>5, RequestMoves, SameStoreGrows DEF StoreInv, TypeOK
<1>6. CASE /\ n \in Tracked(session.files) /\ current # Absent
           /\ sessions' = [sessions EXCEPT ![s].files[n].after = current]
           /\ \/ next.pc = "idle" /\ req' = [req EXCEPT ![r] = Idle]
              \/ next.pc # "idle" /\ req' = [req EXCEPT ![r] = next]
  <2>1. sessions' = [sessions EXCEPT ![s] = record]
    BY <1>6
  <2>2. current \in Contents
    <3>1. FileOf[n] \in Files
      BY <1>2, NamesAssumption
    <3> DEFINE f == FileOf[n]
    <3>2. f \in Files
      BY <3>1
    <3> HIDE DEF f, n
    <3>3. disk[req[r].ws] \in [Files -> Contents \cup {Absent}]
      BY <1>2, <1>3 DEF TypeOK
    <3>4. disk[req[r].ws][f] # Absent
      BY <1>6 DEF f
    <3>5. disk[req[r].ws][f] \in Contents
      BY <3>2, <3>3, <3>4
    <3> QED BY <3>5 DEF f
  <2> HIDE DEF current
  <2>3. session.files[n] \in Entry
    BY <1>2, <1>3, <1>6 DEF SessionRecord, Tracked
  <2>4. entry \in Entry /\ entry # NoEntry
    BY <2>2, <2>3, ContentsAssumption DEF Entry
  <2> HIDE DEF entry, session, n
  <2>5. /\ record \in SessionRecord
        /\ record.workspace = session.workspace
        /\ record.files = [session.files EXCEPT ![n] = entry]
    BY <1>2, <1>3, <2>4 DEF SessionRecord
  <2>6. Tracked(session.files) \subseteq Tracked(record.files)
    BY <1>2, <1>3, <2>4, <2>5 DEF Tracked, SessionRecord
  <2> HIDE DEF record
  <2>7. sessions' \in Seq(SessionRecord) /\ Grows(sessions, sessions')
    BY <1>2, <1>3, <2>1, <2>5, <2>6, StoreUpdate DEF session
  <2>8. CASE next.pc = "idle" /\ req' = [req EXCEPT ![r] = Idle]
    BY <1>1, <1>3, <1>4, <2>7, <2>8, RequestMoves DEF StoreInv, TypeOK
  <2>9. CASE next.pc # "idle" /\ req' = [req EXCEPT ![r] = next]
    <3>1. /\ next \in Request
          /\ \/ /\ req[r].k + 2 \in 1..total
                /\ next = [req[r] EXCEPT !.k = req[r].k + 1]
             \/ /\ req[r].k + 1 = total
                /\ next = [req[r] EXCEPT !.k = 0, !.pc = "idle"]
      <4> HIDE DEF total
      <4> QED BY <1>2, AdvanceType DEF Phase
    <3> HIDE DEF next
    <3>2. /\ req[r].k + 2 \in 1..total
          /\ next.k = req[r].k + 1 /\ next.names = req[r].names
          /\ next.ws = req[r].ws /\ next.sess = s /\ next.pc = "refresh"
      BY <1>1, <1>2, <2>9, <3>1 DEF Request
    <3>3. next.k + 1 \in 1..Len(next.names)
      <4>1. req[r].k \in Nat
        BY PhaseFacts
      <4> QED BY <3>2, <4>1
    <3>4. s \in DOMAIN sessions' /\ sessions'[s].workspace = next.ws
      BY <1>2, <2>7, <3>2 DEF Grows, session
    <3>5. RequestOK(next, sessions')
      BY <1>2, <3>2, <3>3, <3>4 DEF RequestOK, PhaseOK, WriteAhead
    <3> QED BY <1>1, <1>3, <2>7, <2>9, <3>1, <3>5, RequestMoves
            DEF StoreInv, TypeOK
  <2> QED BY <1>6, <2>8, <2>9
<1> QED BY <1>1, <1>5, <1>6

(* StoreInv survives one verified file of a rollback.                      *)
LEMMA RollbackVerifyStore ==
    ASSUME StoreInv, NEW r \in Requests, RollbackVerify(r)
    PROVE  StoreInv'
<1>1. PICK n \in req[r].left :
        /\ req' = [req EXCEPT
             ![r].pc = RollbackPhase(req[r].left \ {n}, "verify", "restore"),
             ![r].left = IF req[r].left \ {n} = {}
                         THEN Tracked(req[r].snap) ELSE req[r].left \ {n}]
        /\ fresh' = [fresh EXCEPT ![r] = @ \cup {FileOf[n]}]
  BY DEF RollbackVerify
<1> DEFINE rest == req[r].left \ {n}
           phase == RollbackPhase(rest, "verify", "restore")
           left == IF rest = {} THEN Tracked(req[r].snap) ELSE rest
           q == [req[r] EXCEPT !.pc = phase, !.left = left]
<1>2. req[r].pc = "verify" /\ disk' = disk /\ sessions' = sessions
  BY DEF RollbackVerify
<1>3. TypeOK /\ req[r] \in Request /\ PhaseOK(req[r], sessions)
  BY PhaseFacts DEF StoreInv, RequestOK
<1>4. n \in Names /\ FileOf[n] \in Files
  BY PhaseFacts, NamesAssumption
<1>5. fresh' \in [Requests -> SUBSET Files]
  <2> DEFINE f == FileOf[n]
  <2>1. f \in Files /\ fresh' = [fresh EXCEPT ![r] = @ \cup {f}]
    BY <1>1, <1>4
  <2> HIDE DEF f
  <2> QED BY <1>3, <2>1 DEF TypeOK
<1>6. phase \in {"verify", "restore"}
  BY DEF RollbackPhase
<1>7. left \subseteq Tracked(req[r].snap) /\ left \in SUBSET Names
  BY <1>2, <1>3 DEF PhaseOK, Tracked
<1>8. req' = [req EXCEPT ![r] = q]
  BY <1>1, <1>3 DEF TypeOK
<1> HIDE DEF phase, left
<1>9. q \in Request
  BY <1>3, <1>6, <1>7 DEF Request, Phase
<1>10. /\ q.pc = phase /\ q.left = left /\ q.snap = req[r].snap
       /\ q.ws = req[r].ws /\ q.sess = req[r].sess
  BY <1>3 DEF Request
<1> HIDE DEF q
<1>11. RequestOK(q, sessions')
  BY <1>2, <1>3, <1>6, <1>7, <1>10 DEF RequestOK, PhaseOK, WriteAhead
<1>12. Grows(sessions, sessions')
  BY <1>2, SameStoreGrows
<1> QED BY <1>2, <1>3, <1>5, <1>8, <1>9, <1>11, <1>12, RequestMoves
        DEF StoreInv, TypeOK

(* StoreInv survives one restored file of a rollback.                      *)
LEMMA RollbackWriteStore ==
    ASSUME StoreInv, NEW r \in Requests, RollbackWrite(r)
    PROVE  StoreInv'
<1>1. PICK n \in req[r].left :
        /\ disk' = [disk EXCEPT ![req[r].ws][FileOf[n]] =
                                  req[r].snap[n].before]
        /\ req' = [req EXCEPT
             ![r].pc = RollbackPhase(req[r].left \ {n}, "restore", "commit"),
             ![r].left = req[r].left \ {n}]
        /\ fresh' = Overwritten(r, req[r].ws, FileOf[n])
  BY DEF RollbackWrite
<1> DEFINE rest == req[r].left \ {n}
           phase == RollbackPhase(rest, "restore", "commit")
           q == [req[r] EXCEPT !.pc = phase, !.left = rest]
           f == FileOf[n]
           before == req[r].snap[n].before
<1>2. req[r].pc = "restore" /\ sessions' = sessions
  BY DEF RollbackWrite
<1>3. /\ TypeOK /\ req[r] \in Request /\ PhaseOK(req[r], sessions)
      /\ req[r].ws \in Workspaces
  BY <1>2, PhaseFacts DEF StoreInv, RequestOK
<1>4. n \in Names /\ f \in Files /\ n \in Tracked(req[r].snap)
  BY <1>2, <1>3, PhaseFacts, NamesAssumption DEF PhaseOK
<1>5. before \in Contents
  BY <1>4, PhaseFacts DEF Tracked, Entry
<1>6. phase \in {"restore", "commit"}
  BY DEF RollbackPhase
<1>7. rest \subseteq Tracked(req[r].snap) /\ rest \in SUBSET Names
  BY <1>2, <1>3 DEF PhaseOK, Tracked
<1>8. req' = [req EXCEPT ![r] = q]
  BY <1>1, <1>3 DEF TypeOK
<1> HIDE DEF phase, rest, f, before
<1>9. disk' \in [Workspaces -> [Files -> Contents \cup {Absent}]]
  BY <1>1, <1>3, <1>4, <1>5, DiskUpdate DEF f, before
<1>10. fresh' \in [Requests -> SUBSET Files]
  BY <1>1, <1>3, OverwrittenType
<1>11. q \in Request
  BY <1>3, <1>6, <1>7 DEF Request, Phase
<1>12. /\ q.pc = phase /\ q.left = rest /\ q.snap = req[r].snap
       /\ q.ws = req[r].ws /\ q.sess = req[r].sess
  BY <1>3 DEF Request
<1> HIDE DEF q
<1>13. RequestOK(q, sessions')
  BY <1>2, <1>3, <1>6, <1>7, <1>12 DEF RequestOK, PhaseOK, WriteAhead
<1>14. Grows(sessions, sessions')
  BY <1>2, SameStoreGrows
<1> QED BY <1>2, <1>3, <1>8, <1>9, <1>10, <1>11, <1>13, <1>14, RequestMoves
        DEF StoreInv, TypeOK

(* StoreInv survives the end of a rollback.                                *)
LEMMA RollbackCommitStore ==
    ASSUME StoreInv, NEW r \in Requests, RollbackCommit(r)
    PROVE  StoreInv'
<1> DEFINE s == req[r].sess
           record == [sessions[s] EXCEPT !.status = "RolledBack"]
<1>1. /\ req[r].pc = "commit" /\ Finish(r) /\ disk' = disk
      /\ sessions' = [sessions EXCEPT ![s].status = "RolledBack"]
  BY DEF RollbackCommit
<1>2. s \in DOMAIN sessions
  BY <1>1 DEF StoreInv, RequestOK, PhaseOK
<1>3. TypeOK /\ sessions \in Seq(SessionRecord)
  BY DEF StoreInv, TypeOK
<1>4. sessions[s] \in SessionRecord
  BY <1>2, <1>3, SessionType
<1> HIDE DEF s
<1>5. /\ record \in SessionRecord
      /\ record.workspace = sessions[s].workspace
      /\ record.files = sessions[s].files
  BY <1>4 DEF SessionRecord, Status
<1>6. sessions' = [sessions EXCEPT ![s] = record]
  BY <1>1
<1> HIDE DEF record
<1>7. sessions' \in Seq(SessionRecord) /\ Grows(sessions, sessions')
  BY <1>2, <1>3, <1>5, <1>6, StoreUpdate
<1> QED BY <1>1, <1>3, <1>7, FinishKeeps DEF StoreInv, TypeOK

-----------------------------------------------------------------------------
(* Every step of the specification preserves StoreInv.                     *)
LEMMA StepStore == StoreInv /\ [Next]_vars => StoreInv'
<1> SUFFICES ASSUME StoreInv, [Next]_vars PROVE StoreInv'
  OBVIOUS
<1>1. CASE UNCHANGED vars
  BY <1>1 DEF StoreInv, TypeOK, vars
<1>2. ASSUME NEW r \in Requests, Arrive(r) PROVE StoreInv'
  BY <1>2, ArriveStore
<1>3. ASSUME NEW r \in Requests, Step(r) PROVE StoreInv'
  BY <1>3, PreflightStore, CaptureStore, WriteStore, EndStore,
     CheckpointReadStore, CheckpointCaptureStore, RefreshStore,
     RollbackVerifyStore, RollbackWriteStore, RollbackCommitStore
     DEF Step
<1>4. ASSUME NEW r \in Requests, Disconnect(r) PROVE StoreInv'
  BY <1>4, EndStore
<1>5. CASE \/ \E w \in Workspaces : CreateSession(w)
           \/ \E s \in DOMAIN sessions : Finalize(s)
  BY <1>5, StoreActions
<1>6. CASE Restart
  BY <1>6, RestartStore
<1>7. CASE OutsideNext
  BY <1>7, OutsideStore
<1> QED BY <1>1, <1>2, <1>3, <1>4, <1>5, <1>6, <1>7 DEF Next, TuxBridgeNext

(* The inductive invariant holds in every reachable state.                 *)
THEOREM StoreInvariant == Spec => []StoreInv
BY InitStore, StepStore, PTL DEF Spec

(* The store, the requests and the files keep their types, whatever the    *)
(* workspaces, the number of requests in flight and the limits are.        *)
THEOREM TypeCorrect == Spec => []TypeOK
<1>1. StoreInv => TypeOK
  BY DEF StoreInv
<1> QED BY <1>1, StoreInvariant, PTL

(* Undo information is always written ahead: no edit plan of a session     *)
(* replaces a file before that session holds the file's before-image.      *)
THEOREM UndoWrittenAhead == Spec => []WritesAreTracked
<1>1. StoreInv => WritesAreTracked
  <2> SUFFICES ASSUME StoreInv, NEW r \in Requests,
                      req[r].pc = "write", req[r].sess # NoSession
               PROVE  /\ req[r].sess \in DOMAIN sessions
                      /\ sessions[req[r].sess].workspace = req[r].ws
                      /\ \A i \in 1..Len(req[r].plan) :
                           req[r].plan[i].name
                             \in Tracked(sessions[req[r].sess].files)
    BY DEF WritesAreTracked
  <2>1. ItemsTracked(req[r], Len(req[r].plan), sessions)
    BY DEF StoreInv, RequestOK, WriteAhead
  <2>2. Len(req[r].plan) > 0
    BY PhaseFacts
  <2> QED BY <2>1, <2>2 DEF ItemsTracked
<1> QED BY <1>1, StoreInvariant, PTL

-----------------------------------------------------------------------------
(* Files that nobody else has written since a request verified them.       *)

(* Files are planned once.  Those that are still to be replaced hold the   *)
(* version the client named, unless somebody else has written them.        *)
PlanHeld(q, unwritten, files) ==
    /\ q.pc \notin {"preflight", "capture", "write"} => Len(q.plan) = 0
    /\ \A i, j \in 1..Len(q.plan) : q.plan[i].name = q.plan[j].name => i = j
    /\ \A i \in 1..Len(q.plan) : q.plan[i].original = q.plan[i].expected
    /\ \A i \in 1..Len(q.plan) :
         (/\ q.pc # "write" \/ i > q.k
          /\ q.plan[i].name \in unwritten)
         => files[q.ws][q.plan[i].name] = q.plan[i].expected

(* The names a rollback has verified, or has still to restore, and those   *)
(* it has restored.                                                        *)
Verified(q) == CASE q.pc = "verify" -> Tracked(q.snap) \ q.left
                 [] q.pc = "restore" -> q.left
                 [] OTHER -> {}

Restored(q) == CASE q.pc = "restore" -> Tracked(q.snap) \ q.left
                 [] q.pc = "commit" -> Tracked(q.snap)
                 [] OTHER -> {}

RollbackHeld(q, unwritten, files) ==
    NoAlias(q.snap) =>
      /\ \A n \in Verified(q) : FileOf[n] \in unwritten =>
           files[q.ws][FileOf[n]] = q.snap[n].after
      /\ \A n \in Restored(q) : FileOf[n] \in unwritten =>
           files[q.ws][FileOf[n]] = q.snap[n].before

(* What a checkpoint has read is what the file holds.                      *)
ReadHeld(q, unwritten, files) ==
    q.pc = "checkpoint" =>
      LET f == FileOf[q.names[q.k + 1]]
      IN  f \in unwritten => files[q.ws][f] = q.seen

Held(q, unwritten, files) ==
    /\ PlanHeld(q, unwritten, files)
    /\ RollbackHeld(q, unwritten, files)
    /\ ReadHeld(q, unwritten, files)

VersionInv == \A r \in Requests : Held(req[r], fresh[r], disk)

(* What is left of a request's own knowledge after others have written.    *)
Calm(r) ==
    /\ fresh'[r] \subseteq fresh[r]
    /\ \A f \in fresh'[r] : disk'[req[r].ws][f] = disk[req[r].ws][f]

LEMMA CalmHolds ==
    ASSUME NEW q, NEW before, NEW after, NEW old, NEW new,
           Held(q, before, old), after \subseteq before,
           \A f \in after : new[q.ws][f] = old[q.ws][f]
    PROVE  Held(q, after, new)
<1>1. PlanHeld(q, after, new)
  BY DEF Held, PlanHeld
<1>2. RollbackHeld(q, after, new)
  BY DEF Held, RollbackHeld
<1>3. ReadHeld(q, after, new)
  BY DEF Held, ReadHeld
<1> QED BY <1>1, <1>2, <1>3 DEF Held

LEMMA IdleHolds ==
    ASSUME NEW unwritten, NEW files
    PROVE  Held(Idle, unwritten, files)
BY DEF Held, PlanHeld, RollbackHeld, ReadHeld, Verified, Restored, Idle

(* A request that has prepared and verified nothing.                       *)
LEMMA NewHolds ==
    ASSUME NEW q, NEW unwritten, NEW files, q.plan = <<>>,
           q.pc \notin {"checkpoint", "verify", "restore", "commit"}
    PROVE  Held(q, unwritten, files)
BY DEF Held, PlanHeld, RollbackHeld, ReadHeld, Verified, Restored

(* One request moves, and the others lose what was written under them.     *)
LEMMA OneHolds ==
    ASSUME StoreInv, VersionInv, NEW r \in Requests, NEW q,
           req' = [req EXCEPT ![r] = q], Held(q, fresh'[r], disk'),
           \A p \in Requests \ {r} : Calm(p)
    PROVE  VersionInv'
<1>1. req \in [Requests -> Request]
  BY DEF StoreInv, TypeOK
<1>2. ASSUME NEW p \in Requests
      PROVE  Held(req'[p], fresh'[p], disk')
  <2>1. CASE p = r
    BY <1>1, <2>1
  <2>2. CASE p # r
    <3>1. req'[p] = req[p] /\ Calm(p) /\ Held(req[p], fresh[p], disk)
      BY <1>1, <2>2 DEF VersionInv
    <3> QED BY <3>1, CalmHolds DEF Calm
  <2> QED BY <2>1, <2>2
<1> QED BY <1>2 DEF VersionInv

(* Nobody is disturbed by a step that writes no file.                      *)
LEMMA QuietCalm ==
    ASSUME StoreInv, NEW r \in Requests, disk' = disk, NEW unwritten,
           fresh' = [fresh EXCEPT ![r] = unwritten]
    PROVE  \A p \in Requests \ {r} : Calm(p)
BY DEF StoreInv, TypeOK, Calm

LEMMA SameCalm ==
    ASSUME disk' = disk, fresh' = fresh
    PROVE  \A p \in Requests : Calm(p)
BY DEF Calm

(* Who writes a file makes the others forget it.                           *)
LEMMA WriteCalm ==
    ASSUME StoreInv, NEW r \in Requests, NEW w \in Workspaces,
           NEW f \in Files, NEW c, disk' = [disk EXCEPT ![w][f] = c],
           NEW p \in Requests \ {r}, fresh'[p] = Overwritten(r, w, f)[p]
    PROVE  Calm(p)
<1>1. disk \in [Workspaces -> [Files -> Contents \cup {Absent}]]
      /\ fresh \in [Requests -> SUBSET Files]
  BY DEF StoreInv, TypeOK
<1>2. fresh'[p] = IF req[p].ws = w THEN fresh[p] \ {f} ELSE fresh[p]
  BY DEF Overwritten
<1>3. ASSUME NEW g \in fresh'[p]
      PROVE  disk'[req[p].ws][g] = disk[req[p].ws][g]
  <2>1. CASE req[p].ws = w
    <3>1. g # f /\ g \in Files
      BY <1>1, <1>2, <1>3, <2>1
    <3> QED BY <1>1, <2>1, <3>1
  <2>2. CASE req[p].ws # w
    BY <1>1, <2>2
  <2> QED BY <2>1, <2>2
<1> QED BY <1>2, <1>3 DEF Calm

LEMMA FinishHolds ==
    ASSUME StoreInv, VersionInv, NEW r \in Requests, Finish(r), disk' = disk
    PROVE  VersionInv'
BY IdleHolds, OneHolds, QuietCalm DEF Finish

LEMMA ArriveHolds ==
    ASSUME StoreInv, VersionInv, NEW r \in Requests, Arrive(r)
    PROVE  VersionInv'
<1>1. /\ disk' = disk /\ fresh' = fresh
      /\ \A p \in Requests \ {r} : Calm(p)
  BY SameCalm DEF Arrive, EditPlan, Checkpoint, Refresh, Rollback
<1>2. ASSUME NEW w \in Workspaces, NEW s \in 0..SessionBound,
             NEW names \in PathLists, EditPlan(r, w, s, names)
      PROVE  VersionInv'
  <2> DEFINE q == [Idle EXCEPT !.pc = "preflight", !.ws = w, !.sess = s,
                               !.names = names]
  <2>1. req' = [req EXCEPT ![r] = q]
    BY <1>2 DEF EditPlan
  <2>2. Held(q, fresh'[r], disk')
    BY NewHolds DEF Idle
  <2> QED BY <1>1, <2>1, <2>2, OneHolds
<1>3. ASSUME NEW s \in DOMAIN sessions, NEW names \in PathLists,
             Checkpoint(r, s, names) \/ Refresh(r, s, names)
      PROVE  VersionInv'
  <2>1. PICK phase \in {"read", "refresh"} :
          req' = [req EXCEPT ![r] = [Idle EXCEPT !.pc = phase,
                                       !.ws = sessions[s].workspace,
                                       !.sess = s, !.names = names]]
    BY <1>3 DEF Checkpoint, Refresh
  <2> DEFINE q == [Idle EXCEPT !.pc = phase, !.ws = sessions[s].workspace,
                               !.sess = s, !.names = names]
  <2>2. Held(q, fresh'[r], disk')
    BY NewHolds DEF Idle
  <2> QED BY <1>1, <2>1, <2>2, OneHolds
<1>4. ASSUME NEW s \in DOMAIN sessions, Rollback(r, s)
      PROVE  VersionInv'
  <2> DEFINE all == Tracked(sessions[s].files)
             phase == RollbackPhase(all, "verify", "commit")
             q == [Idle EXCEPT !.pc = phase, !.ws = sessions[s].workspace,
                               !.sess = s, !.snap = sessions[s].files,
                               !.left = all]
  <2>1. req' = [req EXCEPT ![r] = q]
    BY <1>4 DEF Rollback
  <2>2. /\ phase = "verify" \/ (phase = "commit" /\ all = {})
        /\ q.pc = phase /\ q.plan = <<>> /\ q.left = all
        /\ Tracked(q.snap) = all
    BY DEF RollbackPhase, Idle
  <2> HIDE DEF q, phase, all
  <2>3. Verified(q) = {} /\ Restored(q) = {}
    BY <2>2 DEF Verified, Restored
  <2>4. Held(q, fresh'[r], disk')
    BY <2>2, <2>3 DEF Held, PlanHeld, RollbackHeld, ReadHeld
  <2> QED BY <1>1, <2>1, <2>4, OneHolds
<1> QED BY <1>2, <1>3, <1>4 DEF Arrive

(* A preflight adds an item for a file that has none yet, whose content is *)
(* the one expected.                                                       *)
LEMMA PreflightHolds ==
    ASSUME StoreInv, VersionInv, NEW r \in Requests, PreflightItem(r)
    PROVE  VersionInv'
<1> DEFINE w == req[r].ws
           f == FileOf[req[r].names[req[r].k + 1]]
           after == IF req[r].sess = NoSession THEN "write" ELSE "capture"
           total == Len(req[r].names)
           next == Advance(r, total, after)
<1>1. /\ req[r].pc = "preflight" /\ NotYetPlanned(r, f) /\ disk' = disk
      /\ fresh' = [fresh EXCEPT ![r] = @ \cup {f}]
  BY DEF PreflightItem
<1>2. PICK expected \in ContentsOf[w], updated \in ContentsOf[w] :
        /\ HashMatches(expected, disk[w][f])
        /\ req' = [req EXCEPT ![r] =
             [next EXCEPT !.plan = Append(@, [name |-> f,
                                              expected |-> expected,
                                              original |-> disk[w][f],
                                              updated |-> updated])]]
  BY DEF PreflightItem
<1> DEFINE item == [name |-> f, expected |-> expected,
                    original |-> disk[w][f], updated |-> updated]
           q == [next EXCEPT !.plan = Append(@, item)]
<1>3. /\ req' = [req EXCEPT ![r] = q]
      /\ item.name = f /\ item.expected = disk[w][f]
      /\ item.original = disk[w][f]
  BY <1>2 DEF HashMatches
<1>4. /\ req[r] \in Request /\ req[r].plan \in Seq(Item)
      /\ total \in Nat /\ req[r].k + 1 \in 1..total
  BY <1>1, PhaseFacts
<1>5. after \in {"write", "capture"} /\ after \in Phase
  BY DEF Phase
<1>6. fresh'[r] = fresh[r] \cup {f}
  BY <1>1 DEF StoreInv, TypeOK
<1> HIDE DEF item, w, f, after, total
<1>7. /\ next \in Request
      /\ \/ next = [req[r] EXCEPT !.k = req[r].k + 1]
         \/ next = [req[r] EXCEPT !.k = 0, !.pc = after]
  <2>1. next \in Request
    BY <1>4, <1>5, AdvanceType
  <2>2. \/ next = [req[r] EXCEPT !.k = req[r].k + 1]
        \/ next = [req[r] EXCEPT !.k = 0, !.pc = after]
    BY DEF Advance
  <2> QED BY <2>1, <2>2
<1> HIDE DEF next
<1>8. /\ q.plan = Append(req[r].plan, item) /\ q.ws = req[r].ws
      /\ q.pc = "preflight" \/ (q.pc \in {"write", "capture"} /\ q.k = 0)
  BY <1>1, <1>4, <1>5, <1>7 DEF Request
<1> HIDE DEF q
<1> DEFINE m == Len(req[r].plan)
<1>9. m \in Nat /\ Len(q.plan) = m + 1 /\ q.plan[m + 1] = item
      /\ \A i \in 1..m : q.plan[i] = req[r].plan[i]
  BY <1>4, <1>8
<1>10. PlanHeld(req[r], fresh[r], disk)
  BY DEF VersionInv, Held
<1>11. \A i \in 1..m : req[r].plan[i].name # f
  BY <1>1 DEF NotYetPlanned
<1> HIDE DEF m
<1>12. \A i \in 1..(m + 1) : i \in 1..m \/ i = m + 1
  BY <1>9
<1>13. PlanHeld(q, fresh'[r], disk')
  <2>1. ASSUME NEW i \in 1..(m + 1), NEW j \in 1..(m + 1),
               q.plan[i].name = q.plan[j].name
        PROVE  i = j
    <3>1. q.plan[m + 1].name = f /\ \A h \in 1..m : q.plan[h].name # f
      BY <1>3, <1>9, <1>11
    <3>2. CASE i \in 1..m /\ j \in 1..m
      <4>1. req[r].plan[i].name = req[r].plan[j].name
        BY <1>9, <2>1, <3>2
      <4> QED BY <1>10, <3>2, <4>1 DEF PlanHeld, m
    <3>3. CASE i = m + 1 /\ j = m + 1
      BY <3>3
    <3> QED BY <1>12, <2>1, <3>1, <3>2, <3>3
  <2>2. ASSUME NEW i \in 1..(m + 1), q.plan[i].name \in fresh'[r]
        PROVE  disk'[q.ws][q.plan[i].name] = q.plan[i].expected
    <3>1. CASE i = m + 1
      BY <1>1, <1>3, <1>8, <1>9, <3>1 DEF w
    <3>2. CASE i \in 1..m
      <4>1. q.plan[i] = req[r].plan[i] /\ q.plan[i].name \in fresh[r]
        BY <1>6, <1>9, <1>11, <2>2, <3>2
      <4> QED BY <1>1, <1>8, <1>10, <3>2, <4>1 DEF PlanHeld, m
    <3> QED BY <1>12, <3>1, <3>2
  <2>3. ASSUME NEW i \in 1..(m + 1)
        PROVE  q.plan[i].original = q.plan[i].expected
    <3>1. CASE i = m + 1
      BY <1>3, <1>9, <3>1
    <3>2. CASE i \in 1..m
      BY <1>9, <1>10, <3>2 DEF PlanHeld, m
    <3> QED BY <1>12, <3>1, <3>2
  <2> QED BY <1>8, <1>9, <2>1, <2>2, <2>3 DEF PlanHeld
<1>14. Held(q, fresh'[r], disk')
  <2>1. Verified(q) = {} /\ Restored(q) = {}
    BY <1>8 DEF Verified, Restored
  <2> QED BY <1>8, <1>13, <2>1 DEF Held, RollbackHeld, ReadHeld
<1>15. \A p \in Requests \ {r} : Calm(p)
  BY <1>1, QuietCalm
<1> QED BY <1>3, <1>14, <1>15, OneHolds

(* A capture changes the phase at most, and writes nothing.                *)
LEMMA CaptureHolds ==
    ASSUME StoreInv, VersionInv, NEW r \in Requests, CaptureItem(r)
    PROVE  VersionInv'
<1> DEFINE q == Advance(r, Len(req[r].plan), "write")
<1>1. /\ req[r].pc = "capture" /\ req' = [req EXCEPT ![r] = q]
      /\ disk' = disk /\ fresh' = fresh
  BY DEF CaptureItem
<1>2. /\ q \in Request
      /\ \/ q = [req[r] EXCEPT !.k = req[r].k + 1]
         \/ q = [req[r] EXCEPT !.k = 0, !.pc = "write"]
  BY <1>1, PhaseFacts, AdvanceType DEF Phase
<1> HIDE DEF q
<1>3. req[r] \in Request
  BY PhaseFacts
<1>4. /\ q.plan = req[r].plan /\ q.ws = req[r].ws
      /\ q.pc = "capture" \/ (q.pc = "write" /\ q.k = 0)
  BY <1>1, <1>2, <1>3 DEF Request
<1>5. PlanHeld(req[r], fresh[r], disk)
  BY DEF VersionInv, Held
<1>6. Held(q, fresh'[r], disk')
  <2>1. Verified(q) = {} /\ Restored(q) = {}
    BY <1>4 DEF Verified, Restored
  <2>2. PlanHeld(q, fresh'[r], disk')
    BY <1>1, <1>4, <1>5 DEF PlanHeld
  <2> QED BY <1>4, <2>1, <2>2 DEF Held, RollbackHeld, ReadHeld
<1> QED BY <1>1, <1>6, SameCalm, OneHolds

(* A write replaces a file that no other item of its plan names.           *)
LEMMA WriteHolds ==
    ASSUME StoreInv, VersionInv, NEW r \in Requests, WriteItem(r)
    PROVE  VersionInv'
<1> DEFINE i == req[r].k + 1
           item == req[r].plan[i]
           total == Len(req[r].plan)
           w == req[r].ws
           next == Advance(r, total, "idle")
           spread == Overwritten(r, w, item.name)
<1>1. /\ req[r].pc = "write"
      /\ disk' = [disk EXCEPT ![w][item.name] = item.updated]
      /\ \/ /\ next.pc = "idle"
            /\ req' = [req EXCEPT ![r] = Idle]
            /\ fresh' = [spread EXCEPT ![r] = {}]
         \/ /\ next.pc # "idle"
            /\ req' = [req EXCEPT ![r] = next]
            /\ fresh' = spread
  BY DEF WriteItem
<1>2. /\ item \in Item /\ w \in Workspaces /\ item.name \in Files
      /\ total \in Nat /\ req[r].k \in Nat /\ i \in 1..total
      /\ req[r] \in Request
  BY <1>1, PhaseFacts DEF Item
<1>3. ASSUME NEW p \in Requests \ {r}
      PROVE  Calm(p)
  <2>1. fresh'[p] = spread[p]
    BY <1>1 DEF Overwritten
  <2> HIDE DEF item, w, next
  <2> QED BY <1>1, <1>2, <2>1, WriteCalm
<1>4. CASE req' = [req EXCEPT ![r] = Idle]
  BY <1>3, <1>4, IdleHolds, OneHolds
<1>5. CASE next.pc # "idle" /\ req' = [req EXCEPT ![r] = next]
  <2>1. /\ next \in Request
        /\ \/ /\ i + 1 \in 1..total
              /\ next = [req[r] EXCEPT !.k = i]
           \/ next = [req[r] EXCEPT !.k = 0, !.pc = "idle"]
    <3>1. /\ next \in Request
          /\ \/ /\ req[r].k + 2 \in 1..total
                /\ next = [req[r] EXCEPT !.k = req[r].k + 1]
             \/ next = [req[r] EXCEPT !.k = 0, !.pc = "idle"]
      <4> HIDE DEF total
      <4> QED BY <1>2, AdvanceType DEF Phase
    <3> QED BY <1>2, <3>1
  <2> HIDE DEF next
  <2>2. /\ next.pc = "write" /\ next.k = i
        /\ next.plan = req[r].plan /\ next.ws = w
    BY <1>1, <1>2, <1>5, <2>1 DEF Request
  <2>3. fresh'[r] = fresh[r]
    BY <1>1, <1>5 DEF Overwritten, StoreInv, TypeOK, Idle
  <2>4. PlanHeld(req[r], fresh[r], disk)
    BY DEF VersionInv, Held
  <2>5. ASSUME NEW j \in 1..total, j > i, req[r].plan[j].name \in fresh[r]
        PROVE  disk'[w][req[r].plan[j].name] = req[r].plan[j].expected
    <3>1. req[r].plan[j].name # item.name
      BY <1>2, <2>4, <2>5 DEF PlanHeld
    <3>2. disk[w][req[r].plan[j].name] = req[r].plan[j].expected
      <4>1. j > req[r].k
        BY <1>2, <2>5
      <4> HIDE DEF i
      <4> QED BY <2>4, <2>5, <4>1 DEF PlanHeld
    <3>3. disk \in [Workspaces -> [Files -> Contents \cup {Absent}]]
      BY DEF StoreInv, TypeOK
    <3> HIDE DEF item, w
    <3> QED BY <1>1, <1>2, <3>1, <3>2, <3>3
  <2>6. PlanHeld(next, fresh'[r], disk')
    BY <2>2, <2>3, <2>4, <2>5 DEF PlanHeld
  <2>7. Held(next, fresh'[r], disk')
    <3>1. Verified(next) = {} /\ Restored(next) = {}
      BY <2>2 DEF Verified, Restored
    <3> QED BY <2>2, <2>6, <3>1 DEF Held, RollbackHeld, ReadHeld
  <2> QED BY <1>3, <1>5, <2>7, OneHolds
<1> QED BY <1>1, <1>4, <1>5

(* A request without a plan and outside of a rollback moves to another     *)
(* such state, and writes nothing.                                         *)
LEMMA AsideHolds ==
    ASSUME StoreInv, VersionInv, NEW r \in Requests, NEW q, disk' = disk,
           req' = [req EXCEPT ![r] = q], NEW unwritten,
           fresh' = [fresh EXCEPT ![r] = unwritten] \/ fresh' = fresh,
           q.plan = <<>>, q.pc \notin {"checkpoint", "verify", "restore", "commit"}
    PROVE  VersionInv'
<1>1. \A p \in Requests \ {r} : Calm(p)
  BY QuietCalm, SameCalm
<1>2. Held(q, fresh'[r], disk')
  BY NewHolds
<1> QED BY <1>1, <1>2, OneHolds

LEMMA NoPlan ==
    ASSUME StoreInv, VersionInv, NEW r \in Requests,
           req[r].pc \notin {"preflight", "capture", "write"}
    PROVE  req[r].plan = <<>>
<1>1. Len(req[r].plan) = 0
  BY DEF VersionInv, Held, PlanHeld
<1> QED BY <1>1, PhaseFacts

LEMMA CheckpointReadHolds ==
    ASSUME StoreInv, VersionInv, NEW r \in Requests, CheckpointRead(r)
    PROVE  VersionInv'
<1> DEFINE f == FileOf[req[r].names[req[r].k + 1]]
           current == disk[req[r].ws][f]
           q == [req[r] EXCEPT !.pc = "checkpoint", !.seen = current]
<1>1. /\ req[r].pc = "read" /\ disk' = disk
      /\ \/ Finish(r)
         \/ /\ req' = [req EXCEPT ![r] = q]
            /\ fresh' = [fresh EXCEPT ![r] = fresh[r] \cup {f}]
  <2>1. req \in [Requests -> Request]
    BY DEF StoreInv, TypeOK
  <2> QED BY <2>1 DEF CheckpointRead
<1>2. /\ q.plan = <<>> /\ q.pc = "checkpoint" /\ q.seen = current
      /\ q.names = req[r].names /\ q.k = req[r].k /\ q.ws = req[r].ws
  BY <1>1, NoPlan, PhaseFacts DEF Request
<1>3. Held(q, fresh'[r], disk')
  <2>1. disk'[q.ws][FileOf[q.names[q.k + 1]]] = q.seen
    BY <1>1, <1>2
  <2> HIDE DEF q, f
  <2> QED BY <1>2, <2>1
          DEF Held, PlanHeld, RollbackHeld, ReadHeld, Verified, Restored
<1> HIDE DEF q, f
<1> QED BY <1>1, <1>3, FinishHolds, QuietCalm, OneHolds

LEMMA CheckpointCaptureHolds ==
    ASSUME StoreInv, VersionInv, NEW r \in Requests, CheckpointCapture(r)
    PROVE  VersionInv'
<1> DEFINE total == Len(req[r].names)
           next == Advance(r, total, "idle")
           q == [next EXCEPT !.pc = "read", !.seen = Absent]
<1>1. /\ req[r].pc = "checkpoint" /\ disk' = disk
      /\ Finish(r) \/ (req' = [req EXCEPT ![r] = q] /\ fresh' = fresh)
  BY DEF CheckpointCapture
<1>2. next \in Request /\ next.plan = <<>>
  <2>1. /\ req[r] \in Request /\ total \in Nat /\ req[r].k + 1 \in 1..total
        /\ req[r].plan = <<>>
    BY <1>1, PhaseFacts, NoPlan
  <2> HIDE DEF total
  <2>2. /\ next \in Request
        /\ \/ next = [req[r] EXCEPT !.k = req[r].k + 1]
           \/ next = [req[r] EXCEPT !.k = 0, !.pc = "idle"]
    BY <2>1, AdvanceType DEF Phase
  <2> HIDE DEF next
  <2> QED BY <2>1, <2>2 DEF Request
<1> HIDE DEF next
<1>3. q.plan = <<>> /\ q.pc = "read"
  BY <1>2 DEF Request
<1> HIDE DEF q
<1> QED BY <1>1, <1>3, FinishHolds, AsideHolds

LEMMA RefreshHolds ==
    ASSUME StoreInv, VersionInv, NEW r \in Requests, RefreshPath(r)
    PROVE  VersionInv'
<1> DEFINE total == Len(req[r].names)
           next == Advance(r, total, "idle")
<1>1. /\ req[r].pc = "refresh" /\ disk' = disk /\ fresh' = fresh
      /\ \/ req' = [req EXCEPT ![r] = Idle]
         \/ req' = [req EXCEPT ![r] = next]
  BY DEF RefreshPath
<1>2. next.plan = <<>> /\ next.pc \in {"refresh", "idle"}
  <2>1. /\ req[r] \in Request /\ total \in Nat /\ req[r].k + 1 \in 1..total
        /\ req[r].plan = <<>>
    BY <1>1, PhaseFacts, NoPlan
  <2> HIDE DEF total
  <2>2. \/ next = [req[r] EXCEPT !.k = req[r].k + 1]
        \/ next = [req[r] EXCEPT !.k = 0, !.pc = "idle"]
    BY <2>1, AdvanceType DEF Phase
  <2> HIDE DEF next
  <2> QED BY <1>1, <2>1, <2>2 DEF Request
<1>3. Idle.plan = <<>> /\ Idle.pc = "idle"
  BY DEF Idle
<1> HIDE DEF next
<1> QED BY <1>1, <1>2, <1>3, AsideHolds

(* A name is verified.  If it was the last, all of them are.               *)
LEMMA RollbackVerifyHolds ==
    ASSUME StoreInv, VersionInv, NEW r \in Requests, RollbackVerify(r)
    PROVE  VersionInv'
<1>1. PICK n \in req[r].left :
        /\ disk[req[r].ws][FileOf[n]] = req[r].snap[n].after
        /\ req' = [req EXCEPT
             ![r].pc = RollbackPhase(req[r].left \ {n}, "verify", "restore"),
             ![r].left = IF req[r].left \ {n} = {}
                         THEN Tracked(req[r].snap) ELSE req[r].left \ {n}]
        /\ fresh' = [fresh EXCEPT ![r] = @ \cup {FileOf[n]}]
  BY DEF RollbackVerify
<1> DEFINE rest == req[r].left \ {n}
           phase == RollbackPhase(rest, "verify", "restore")
           left == IF rest = {} THEN Tracked(req[r].snap) ELSE rest
           q == [req[r] EXCEPT !.pc = phase, !.left = left]
           all == Tracked(req[r].snap)
<1>2. req[r].pc = "verify" /\ disk' = disk /\ req[r].plan = <<>>
  BY NoPlan DEF RollbackVerify
<1>3. /\ req[r] \in Request /\ req \in [Requests -> Request]
      /\ fresh \in [Requests -> SUBSET Files]
      /\ req[r].left \subseteq all
  BY <1>2, PhaseFacts DEF StoreInv, TypeOK, RequestOK, PhaseOK
<1>4. req' = [req EXCEPT ![r] = q]
  BY <1>1, <1>3
<1>5. fresh'[r] = fresh[r] \cup {FileOf[n]}
  BY <1>1, <1>3
<1>6. \/ rest = {} /\ phase = "restore" /\ left = all
      \/ rest # {} /\ phase = "verify" /\ left = rest
  BY DEF RollbackPhase
<1> HIDE DEF phase, left
<1>7. /\ q.pc = phase /\ q.left = left /\ q.snap = req[r].snap
      /\ q.ws = req[r].ws /\ q.plan = <<>>
  BY <1>2, <1>3 DEF Request
<1> HIDE DEF q
<1>8. Verified(q) \subseteq Verified(req[r]) \cup {n} /\ Restored(q) = {}
      /\ Verified(q) \subseteq all /\ Verified(req[r]) \subseteq all
      /\ n \in all
  BY <1>2, <1>3, <1>6, <1>7 DEF Verified, Restored
<1>9. ASSUME NoAlias(q.snap), NEW m \in Verified(q), FileOf[m] \in fresh'[r]
      PROVE  disk'[q.ws][FileOf[m]] = q.snap[m].after
  <2>1. CASE m = n
    BY <1>1, <1>2, <1>7, <2>1
  <2>2. CASE m # n
    <3>1. m \in Verified(req[r]) /\ FileOf[m] # FileOf[n]
      BY <1>7, <1>8, <1>9, <2>2 DEF NoAlias
    <3>2. FileOf[m] \in fresh[r]
      BY <1>5, <1>9, <3>1
    <3>3. RollbackHeld(req[r], fresh[r], disk)
      BY DEF VersionInv, Held
    <3> QED BY <1>2, <1>7, <1>9, <3>1, <3>2, <3>3 DEF RollbackHeld
  <2> QED BY <2>1, <2>2
<1>10. Held(q, fresh'[r], disk')
  BY <1>6, <1>7, <1>8, <1>9 DEF Held, RollbackHeld, PlanHeld, ReadHeld
<1>11. \A p \in Requests \ {r} : Calm(p)
  BY <1>1, <1>2, QuietCalm
<1> QED BY <1>4, <1>10, <1>11, OneHolds

(* A name is restored.  No other name of the rollback is of its file.      *)
LEMMA RollbackWriteHolds ==
    ASSUME StoreInv, VersionInv, NEW r \in Requests, RollbackWrite(r)
    PROVE  VersionInv'
<1>1. PICK n \in req[r].left :
        /\ disk' = [disk EXCEPT ![req[r].ws][FileOf[n]] =
                                  req[r].snap[n].before]
        /\ req' = [req EXCEPT
             ![r].pc = RollbackPhase(req[r].left \ {n}, "restore", "commit"),
             ![r].left = req[r].left \ {n}]
        /\ fresh' = Overwritten(r, req[r].ws, FileOf[n])
  BY DEF RollbackWrite
<1> DEFINE rest == req[r].left \ {n}
           phase == RollbackPhase(rest, "restore", "commit")
           q == [req[r] EXCEPT !.pc = phase, !.left = rest]
           all == Tracked(req[r].snap)
           w == req[r].ws
           f == FileOf[n]
           before == req[r].snap[n].before
<1>2. req[r].pc = "restore" /\ req[r].plan = <<>>
  BY NoPlan DEF RollbackWrite
<1>3. /\ req[r] \in Request /\ req \in [Requests -> Request]
      /\ disk \in [Workspaces -> [Files -> Contents \cup {Absent}]]
      /\ req[r].left \subseteq all
      /\ w \in Workspaces /\ n \in Names /\ f \in Files
  BY <1>2, PhaseFacts, NamesAssumption
  DEF StoreInv, TypeOK, RequestOK, PhaseOK, Tracked
<1>4. req' = [req EXCEPT ![r] = q]
  BY <1>1, <1>3
<1>5. fresh'[r] = fresh[r]
  BY <1>1 DEF Overwritten
<1>6. \/ rest = {} /\ phase = "commit"
      \/ rest # {} /\ phase = "restore"
  BY DEF RollbackPhase
<1> HIDE DEF phase
<1>7. /\ q.pc = phase /\ q.left = rest /\ q.snap = req[r].snap
      /\ q.ws = w /\ q.plan = <<>>
  BY <1>2, <1>3 DEF Request
<1> HIDE DEF q
<1>8. /\ Verified(q) \subseteq Verified(req[r]) \ {n}
      /\ Restored(q) \subseteq Restored(req[r]) \cup {n}
      /\ n \in all /\ Verified(q) \subseteq all /\ Restored(q) \subseteq all
  BY <1>2, <1>3, <1>6, <1>7 DEF Verified, Restored
<1>9. disk'[w][f] = before
  <2> HIDE DEF w, f, before
  <2>1. disk' = [disk EXCEPT ![w][f] = before]
    BY <1>1 DEF w, f, before
  <2> QED BY <1>3, <2>1
<1>10. ASSUME NEW m \in all, m # n, NoAlias(q.snap)
       PROVE  disk'[w][FileOf[m]] = disk[w][FileOf[m]]
  <2>1. FileOf[m] # f
    BY <1>7, <1>8, <1>10 DEF NoAlias
  <2> HIDE DEF w, f, before
  <2>2. disk' = [disk EXCEPT ![w][f] = before]
    BY <1>1 DEF w, f, before
  <2> QED BY <1>3, <2>1, <2>2
<1>11. RollbackHeld(req[r], fresh[r], disk)
  BY DEF VersionInv, Held
<1>12. ASSUME NoAlias(q.snap), NEW m \in Verified(q), FileOf[m] \in fresh'[r]
       PROVE  disk'[w][FileOf[m]] = req[r].snap[m].after
  BY <1>5, <1>7, <1>8, <1>10, <1>11, <1>12 DEF RollbackHeld
<1>13. ASSUME NoAlias(q.snap), NEW m \in Restored(q), FileOf[m] \in fresh'[r]
       PROVE  disk'[w][FileOf[m]] = req[r].snap[m].before
  <2>1. CASE m = n
    BY <1>9, <2>1
  <2>2. CASE m # n
    BY <1>5, <1>7, <1>8, <1>10, <1>11, <1>13, <2>2 DEF RollbackHeld
  <2> QED BY <2>1, <2>2
<1>14. Held(q, fresh'[r], disk')
  BY <1>6, <1>7, <1>12, <1>13 DEF Held, RollbackHeld, PlanHeld, ReadHeld
<1>15. \A p \in Requests \ {r} : Calm(p)
  <2> HIDE DEF w, f, before
  <2>1. disk' = [disk EXCEPT ![w][f] = before]
        /\ fresh' = Overwritten(r, w, f)
    BY <1>1 DEF w, f, before
  <2> QED BY <1>3, <2>1, WriteCalm
<1> QED BY <1>4, <1>14, <1>15, OneHolds

LEMMA OutsideHolds ==
    ASSUME StoreInv, VersionInv, NEW w \in Workspaces, NEW f \in Files, NEW c,
           OutsideWrite(w, f, c)
    PROVE  VersionInv'
<1>1. /\ disk' = [disk EXCEPT ![w][f] = c] /\ req' = req
      /\ fresh' = [q \in Requests |-> IF req[q].ws = w THEN fresh[q] \ {f}
                                                       ELSE fresh[q]]
  BY DEF OutsideWrite
<1>2. disk \in [Workspaces -> [Files -> Contents \cup {Absent}]]
      /\ fresh \in [Requests -> SUBSET Files]
  BY DEF StoreInv, TypeOK
<1>3. ASSUME NEW p \in Requests
      PROVE  Held(req'[p], fresh'[p], disk')
  <2>1. fresh'[p] = IF req[p].ws = w THEN fresh[p] \ {f} ELSE fresh[p]
    BY <1>1
  <2>2. ASSUME NEW g \in fresh'[p]
        PROVE  disk'[req[p].ws][g] = disk[req[p].ws][g]
    <3>1. CASE req[p].ws = w
      BY <1>1, <1>2, <2>1, <2>2, <3>1
    <3>2. CASE req[p].ws # w
      BY <1>1, <1>2, <3>2
    <3> QED BY <3>1, <3>2
  <2>3. fresh'[p] \subseteq fresh[p] /\ Held(req[p], fresh[p], disk)
    BY <2>1 DEF VersionInv
  <2> DEFINE unwritten == fresh'[p]
  <2>4. Held(req[p], unwritten, disk')
    <3>1. unwritten \subseteq fresh[p]
          /\ \A g \in unwritten : disk'[req[p].ws][g] = disk[req[p].ws][g]
      BY <2>2, <2>3
    <3> HIDE DEF unwritten
    <3> QED BY <2>3, <3>1, CalmHolds
  <2> QED BY <1>1, <2>4
<1> QED BY <1>3 DEF VersionInv

LEMMA NextHolds == StoreInv /\ VersionInv /\ [Next]_vars => VersionInv'
<1> SUFFICES ASSUME StoreInv, VersionInv, [Next]_vars PROVE VersionInv'
  OBVIOUS
<1>1. CASE UNCHANGED vars
  BY <1>1 DEF VersionInv, vars
<1>2. ASSUME NEW r \in Requests, Arrive(r) PROVE VersionInv'
  BY <1>2, ArriveHolds
<1>3. ASSUME NEW r \in Requests, Step(r) \/ Disconnect(r) PROVE VersionInv'
  <2>1. CASE PreflightRefused(r) \/ CaptureRefused(r) \/ WriteFails(r)
               \/ RollbackRefused(r) \/ RollbackCommit(r) \/ Disconnect(r)
    BY <2>1, FinishHolds DEF PreflightRefused, CaptureRefused, WriteFails,
       RollbackRefused, RollbackCommit, Disconnect
  <2> QED BY <1>3, <2>1, PreflightHolds, CaptureHolds, WriteHolds,
             CheckpointReadHolds, CheckpointCaptureHolds, RefreshHolds,
             RollbackVerifyHolds, RollbackWriteHolds DEF Step
<1>4. ASSUME NEW w \in Workspaces, CreateSession(w) PROVE VersionInv'
  BY <1>4 DEF CreateSession, VersionInv
<1>5. ASSUME NEW s \in DOMAIN sessions, Finalize(s) PROVE VersionInv'
  BY <1>5 DEF Finalize, VersionInv
<1>6. CASE Restart
  BY <1>6, IdleHolds DEF Restart, VersionInv
<1>7. CASE OutsideNext
  BY <1>7, OutsideHolds DEF OutsideNext
<1> QED BY <1>1, <1>2, <1>3, <1>4, <1>5, <1>6, <1>7 DEF Next, TuxBridgeNext

(* Wherever nobody else has written, files hold what the requests rely on: *)
(* VersionInv holds in every reachable state.                              *)
THEOREM VersionInvariant == Spec => []VersionInv
<1>1. Init => VersionInv
  BY IdleHolds DEF Init, VersionInv
<1> QED BY <1>1, StoreInvariant, NextHolds, PTL DEF Spec

(* An edit replaces the version its client named, unless somebody wrote    *)
(* the file after the preflight, for every number of files and requests.   *)
THEOREM EditsReplaceNamedVersion == Spec => []EditsHitNamedVersion
<1>1. VersionInv => EditsHitNamedVersion
  BY DEF VersionInv, Held, PlanHeld, EditsHitNamedVersion
<1> QED BY <1>1, VersionInvariant, PTL

(* A rollback replaces what it verified, unless somebody wrote the file    *)
(* after that.                                                             *)
THEOREM RollbacksReplaceVerified == Spec => []RollbackHitsRecordedVersion
<1>1. VersionInv => RollbackHitsRecordedVersion
  BY DEF VersionInv, Held, RollbackHeld, Verified, RollbackHitsRecordedVersion
<1> QED BY <1>1, VersionInvariant, PTL

(* A rollback that reports success has restored every file that nobody     *)
(* else has written since.                                                 *)
THEOREM RollbacksRestoreAll == Spec => []RollbackRestoresAll
<1>1. VersionInv => RollbackRestoresAll
  BY DEF VersionInv, Held, RollbackHeld, Restored, RollbackRestoresAll
<1> QED BY <1>1, VersionInvariant, PTL

(* capture_change makes no name tracked but its own, with the image it was *)
(* given.                                                                  *)
LEMMA CapturedImage ==
    ASSUME NEW session \in SessionRecord, NEW n \in Names,
           NEW before \in Contents, NEW after \in Contents, NEW m \in Names,
           m \in Tracked(Captured(session, n, before, after).files),
           m \notin Tracked(session.files)
    PROVE  m = n /\ Captured(session, n, before, after).files[m].before = before
<1>1. m = n /\ n \notin Tracked(session.files)
  BY CapturedType
<1> DEFINE entry == [before |-> before, after |-> after]
<1>2. Captured(session, n, before, after).files = [session.files EXCEPT ![n] = entry]
  BY <1>1 DEF Captured, SessionRecord
<1>3. [session.files EXCEPT ![n] = entry][n] = entry
  BY DEF SessionRecord
<1> QED BY <1>1, <1>2, <1>3

(* The first image of a file is what the file holds when it is recorded,   *)
(* unless somebody wrote the file after the request read it.               *)
THEOREM FirstImagesAreCurrent == Spec => FirstImageIsCurrent
<1> DEFINE Current(r, n) ==
             LET s == req[r].sess
                 f == FileOf[n]
             IN  (/\ s \in DOMAIN sessions
                  /\ n \in Tracked(sessions'[s].files)
                  /\ n \notin Tracked(sessions[s].files)
                  /\ f \in fresh[r])
                 => sessions'[s].files[n].before = disk[req[r].ws][f]
<1>1. ASSUME StoreInv, VersionInv, NEW r \in Requests, NEW n \in Names,
             CaptureItem(r)
      PROVE  Current(r, n)
  <2> DEFINE i == req[r].k + 1
             item == req[r].plan[i]
             s == req[r].sess
             record == Captured(sessions[s], item.name, item.original,
                                item.updated)
  <2> SUFFICES ASSUME s \in DOMAIN sessions,
                      n \in Tracked(sessions'[s].files),
                      n \notin Tracked(sessions[s].files),
                      FileOf[n] \in fresh[r]
               PROVE  sessions'[s].files[n].before = disk[req[r].ws][FileOf[n]]
    OBVIOUS
  <2>1. /\ req[r].pc = "capture" /\ sessions' = [sessions EXCEPT ![s] = record]
    BY <1>1 DEF CaptureItem
  <2>2. item \in Item /\ i \in 1..Len(req[r].plan)
    BY <1>1, <2>1, PhaseFacts
  <2>3. /\ item.name \in Names /\ item.original \in Contents
        /\ item.updated \in Contents /\ FileOf[item.name] = item.name
    BY <2>2, NamesAssumption DEF Item
  <2>4. sessions[s] \in SessionRecord /\ sessions'[s] = record
    BY <1>1, <2>1, SessionType DEF StoreInv, TypeOK
  <2>5. n = item.name /\ record.files[n].before = item.original
    <3> HIDE DEF item, s
    <3> QED BY <2>3, <2>4, CapturedImage
  <2>6. item.name \in fresh[r]
    BY <2>3, <2>5
  <2>7. item.original = item.expected
        /\ disk[req[r].ws][item.name] = item.expected
    BY <1>1, <2>1, <2>2, <2>6 DEF VersionInv, Held, PlanHeld
  <2> QED BY <2>3, <2>4, <2>5, <2>7
<1>2. ASSUME StoreInv, VersionInv, NEW r \in Requests, NEW n \in Names,
             CheckpointCapture(r)
      PROVE  Current(r, n)
  <2> DEFINE name == req[r].names[req[r].k + 1]
             c == req[r].seen
             s == req[r].sess
             record == Captured(sessions[s], name, c, c)
  <2> SUFFICES ASSUME s \in DOMAIN sessions,
                      n \in Tracked(sessions'[s].files),
                      n \notin Tracked(sessions[s].files),
                      FileOf[n] \in fresh[r]
               PROVE  sessions'[s].files[n].before = disk[req[r].ws][FileOf[n]]
    OBVIOUS
  <2>1. /\ req[r].pc = "checkpoint"
        /\ \/ sessions' = sessions
           \/ sessions' = [sessions EXCEPT ![s] = record]
    BY <1>2 DEF CheckpointCapture
  <2>2. sessions' = [sessions EXCEPT ![s] = record]
    BY <2>1
  <2>3. name \in Names /\ c \in Contents
    BY <1>2, <2>1, PhaseFacts DEF StoreInv, RequestOK, PhaseOK
  <2>4. sessions[s] \in SessionRecord /\ sessions'[s] = record
    BY <1>2, <2>2, SessionType DEF StoreInv, TypeOK
  <2>5. n = name /\ record.files[n].before = c
    <3> HIDE DEF name, c, s
    <3> QED BY <2>3, <2>4, CapturedImage
  <2>6. FileOf[name] \in fresh[r]
    BY <2>5
  <2>7. disk[req[r].ws][FileOf[name]] = c
    BY <1>2, <2>1, <2>6 DEF VersionInv, Held, ReadHeld
  <2> QED BY <2>4, <2>5, <2>7
<1>3. StoreInv /\ VersionInv =>
        \A r \in Requests : (CaptureItem(r) \/ CheckpointCapture(r)) =>
          \A n \in Names : Current(r, n)
  BY <1>1, <1>2
<1> QED BY <1>3, StoreInvariant, VersionInvariant, PTL DEF FirstImageIsCurrent

-----------------------------------------------------------------------------
(* Bytes stay in their workspace.                                          *)

ImagesOf(files, w) ==
    \A n \in Tracked(files) :
      files[n].before \in ContentsOf[w] /\ files[n].after \in ContentsOf[w]

FilesOwn == \A w \in Workspaces, f \in Files :
              disk[w][f] \in ContentsOf[w] \cup {Absent}

StoreOwn == \A s \in DOMAIN sessions :
              ImagesOf(sessions[s].files, sessions[s].workspace)

(* What a request carries is of its own workspace.                         *)
RequestOwn(q) ==
    /\ \A i \in 1..Len(q.plan) : /\ q.plan[i].original \in ContentsOf[q.ws]
                                 /\ q.plan[i].updated \in ContentsOf[q.ws]
    /\ q.pc = "checkpoint" => q.seen \in ContentsOf[q.ws]
    /\ q.pc \in {"verify", "restore"} => ImagesOf(q.snap, q.ws)

OwnInv == FilesOwn /\ StoreOwn /\ \A r \in Requests : RequestOwn(req[r])

LEMMA IdleOwn == RequestOwn(Idle)
BY DEF RequestOwn, Idle

LEMMA OneOwn ==
    ASSUME StoreInv, OwnInv, NEW r \in Requests, NEW q,
           req' = [req EXCEPT ![r] = q], RequestOwn(q)
    PROVE  \A p \in Requests : RequestOwn(req'[p])
BY DEF StoreInv, TypeOK, OwnInv

LEMMA SameOwn ==
    ASSUME OwnInv
    PROVE  /\ disk' = disk => FilesOwn'
           /\ sessions' = sessions => StoreOwn'
           /\ req' = req => \A p \in Requests : RequestOwn(req'[p])
<1>1. disk' = disk => FilesOwn'
  BY DEF OwnInv, FilesOwn
<1>2. sessions' = sessions => StoreOwn'
  BY DEF OwnInv, StoreOwn
<1>3. req' = req => \A p \in Requests : RequestOwn(req'[p])
  BY DEF OwnInv
<1> QED BY <1>1, <1>2, <1>3

LEMMA FinishOwn ==
    ASSUME StoreInv, OwnInv, NEW r \in Requests, Finish(r)
    PROVE  \A p \in Requests : RequestOwn(req'[p])
BY IdleOwn, OneOwn DEF Finish

(* A file is written with content of its workspace.                        *)
LEMMA WrittenOwn ==
    ASSUME StoreInv, OwnInv, NEW w \in Workspaces, NEW f \in Files,
           NEW c \in ContentsOf[w] \cup {Absent},
           disk' = [disk EXCEPT ![w][f] = c]
    PROVE  FilesOwn'
<1>1. disk \in [Workspaces -> [Files -> Contents \cup {Absent}]]
  BY DEF StoreInv, TypeOK
<1>2. ASSUME NEW v \in Workspaces, NEW g \in Files
      PROVE  disk'[v][g] \in ContentsOf[v] \cup {Absent}
  <2>1. CASE v = w /\ g = f
    BY <1>1, <2>1
  <2>2. CASE ~(v = w /\ g = f)
    <3>1. disk'[v][g] = disk[v][g]
      BY <1>1, <2>2
    <3> QED BY <3>1 DEF OwnInv, FilesOwn
  <2> QED BY <2>1, <2>2
<1> QED BY <1>2 DEF FilesOwn

(* A record of the store is replaced by one with images of its workspace.  *)
LEMMA RecordedOwn ==
    ASSUME StoreInv, OwnInv, NEW s \in DOMAIN sessions, NEW record,
           sessions' = [sessions EXCEPT ![s] = record],
           ImagesOf(record.files, record.workspace)
    PROVE  StoreOwn'
<1>1. sessions \in Seq(SessionRecord)
  BY DEF StoreInv, TypeOK
<1>2. DOMAIN sessions' = DOMAIN sessions
  BY <1>1
<1>3. ASSUME NEW t \in DOMAIN sessions
      PROVE  ImagesOf(sessions'[t].files, sessions'[t].workspace)
  <2>1. CASE t = s
    BY <1>1, <2>1
  <2>2. CASE t # s
    <3>1. sessions'[t] = sessions[t]
      BY <1>1, <2>2
    <3> QED BY <3>1 DEF OwnInv, StoreOwn
  <2> QED BY <2>1, <2>2
<1> QED BY <1>2, <1>3 DEF StoreOwn

LEMMA CapturedOwn ==
    ASSUME NEW session \in SessionRecord, NEW n \in Names,
           NEW w, NEW before \in ContentsOf[w], NEW after \in ContentsOf[w],
           before \in Contents, after \in Contents,
           ImagesOf(session.files, w)
    PROVE  ImagesOf(Captured(session, n, before, after).files, w)
<1> DEFINE record == Captured(session, n, before, after)
           entry == [before |-> before, after |-> after]
           moved == [session.files[n] EXCEPT !.after = after]
<1>1. Tracked(record.files) = Tracked(session.files) \cup {n}
  BY CapturedType
<1>2. CASE n \in Tracked(session.files)
  <2>1. record.files = [session.files EXCEPT ![n] = moved]
    BY <1>2 DEF Captured, SessionRecord
  <2>2. session.files[n] \in Entry
    BY <1>2 DEF Tracked, SessionRecord
  <2>3. moved.before = session.files[n].before /\ moved.after = after
    BY <2>2 DEF Entry
  <2> HIDE DEF record, moved
  <2>4. \A m \in Names : record.files[m] = IF m = n THEN moved
                                                    ELSE session.files[m]
    BY <2>1 DEF SessionRecord
  <2> QED BY <1>1, <1>2, <2>3, <2>4 DEF ImagesOf, Tracked, record
<1>3. CASE n \notin Tracked(session.files)
  <2>1. record.files = [session.files EXCEPT ![n] = entry]
    BY <1>3 DEF Captured, SessionRecord
  <2>2. entry.before = before /\ entry.after = after
    OBVIOUS
  <2> HIDE DEF record, entry
  <2>3. \A m \in Names : record.files[m] = IF m = n THEN entry
                                                    ELSE session.files[m]
    BY <2>1 DEF SessionRecord
  <2> QED BY <1>1, <2>2, <2>3 DEF ImagesOf, Tracked, record
<1> QED BY <1>2, <1>3

LEMMA ArriveOwn ==
    ASSUME StoreInv, OwnInv, NEW r \in Requests, Arrive(r)
    PROVE  OwnInv'
<1>1. FilesOwn' /\ StoreOwn'
  BY SameOwn DEF Arrive, EditPlan, Checkpoint, Refresh, Rollback
<1>2. ASSUME NEW q, req' = [req EXCEPT ![r] = q], RequestOwn(q)
      PROVE  OwnInv'
  BY <1>1, <1>2, OneOwn DEF OwnInv
<1>3. ASSUME NEW w \in Workspaces, NEW s \in 0..SessionBound,
             NEW names \in PathLists, EditPlan(r, w, s, names)
      PROVE  OwnInv'
  <2> DEFINE q == [Idle EXCEPT !.pc = "preflight", !.ws = w, !.sess = s,
                               !.names = names]
  <2>1. req' = [req EXCEPT ![r] = q]
    BY <1>3 DEF EditPlan
  <2>2. RequestOwn(q)
    BY DEF Idle, RequestOwn
  <2> QED BY <1>2, <2>1, <2>2
<1>4. ASSUME NEW s \in DOMAIN sessions, NEW names \in PathLists,
             Checkpoint(r, s, names) \/ Refresh(r, s, names)
      PROVE  OwnInv'
  <2>1. PICK phase \in {"read", "refresh"} :
          req' = [req EXCEPT ![r] = [Idle EXCEPT !.pc = phase,
                                       !.ws = sessions[s].workspace,
                                       !.sess = s, !.names = names]]
    BY <1>4 DEF Checkpoint, Refresh
  <2> DEFINE q == [Idle EXCEPT !.pc = phase, !.ws = sessions[s].workspace,
                               !.sess = s, !.names = names]
  <2>2. RequestOwn(q)
    BY DEF Idle, RequestOwn
  <2> QED BY <1>2, <2>1, <2>2
<1>5. ASSUME NEW s \in DOMAIN sessions, Rollback(r, s)
      PROVE  OwnInv'
  <2> DEFINE all == Tracked(sessions[s].files)
             phase == RollbackPhase(all, "verify", "commit")
             q == [Idle EXCEPT !.pc = phase, !.ws = sessions[s].workspace,
                               !.sess = s, !.snap = sessions[s].files,
                               !.left = all]
  <2>1. req' = [req EXCEPT ![r] = q]
    BY <1>5 DEF Rollback
  <2>2. /\ q.plan = <<>> /\ q.pc \in {"verify", "commit"}
        /\ q.ws = sessions[s].workspace /\ q.snap = sessions[s].files
    BY DEF Idle, RollbackPhase
  <2> HIDE DEF q
  <2>3. RequestOwn(q)
    BY <2>2 DEF RequestOwn, OwnInv, StoreOwn
  <2> QED BY <1>2, <2>1, <2>3
<1> QED BY <1>3, <1>4, <1>5 DEF Arrive

LEMMA PreflightOwn ==
    ASSUME StoreInv, OwnInv, NEW r \in Requests, PreflightItem(r)
    PROVE  OwnInv'
<1> DEFINE w == req[r].ws
           f == FileOf[req[r].names[req[r].k + 1]]
           after == IF req[r].sess = NoSession THEN "write" ELSE "capture"
           total == Len(req[r].names)
           next == Advance(r, total, after)
<1>1. req[r].pc = "preflight" /\ disk[w][f] # Absent
      /\ disk' = disk /\ sessions' = sessions
  BY DEF PreflightItem
<1>2. PICK expected \in ContentsOf[w], updated \in ContentsOf[w] :
        req' = [req EXCEPT ![r] =
             [next EXCEPT !.plan = Append(@, [name |-> f,
                                              expected |-> expected,
                                              original |-> disk[w][f],
                                              updated |-> updated])]]
  BY DEF PreflightItem
<1> DEFINE item == [name |-> f, expected |-> expected,
                    original |-> disk[w][f], updated |-> updated]
           q == [next EXCEPT !.plan = Append(@, item)]
<1>3. req' = [req EXCEPT ![r] = q]
  BY <1>2
<1>4. /\ req[r] \in Request /\ req[r].plan \in Seq(Item)
      /\ total \in Nat /\ req[r].k + 1 \in 1..total
      /\ w \in Workspaces /\ f \in Files
  BY <1>1, PhaseFacts, NamesAssumption
<1>5. disk[w][f] \in ContentsOf[w]
  BY <1>1, <1>4 DEF OwnInv, FilesOwn
<1>6. item.original \in ContentsOf[w] /\ item.updated \in ContentsOf[w]
  BY <1>5
<1>7. after \in {"write", "capture"} /\ after \in Phase
  BY DEF Phase
<1> HIDE DEF item, w, f, after, total
<1>8. /\ next \in Request
      /\ \/ next = [req[r] EXCEPT !.k = req[r].k + 1]
         \/ next = [req[r] EXCEPT !.k = 0, !.pc = after]
  <2>1. next \in Request
    BY <1>4, <1>7, AdvanceType
  <2>2. \/ next = [req[r] EXCEPT !.k = req[r].k + 1]
        \/ next = [req[r] EXCEPT !.k = 0, !.pc = after]
    BY DEF Advance
  <2> QED BY <2>1, <2>2
<1> HIDE DEF next
<1>9. /\ q.plan = Append(req[r].plan, item) /\ q.ws = req[r].ws
      /\ q.pc \in {"preflight", "write", "capture"}
  BY <1>1, <1>4, <1>7, <1>8 DEF Request
<1> HIDE DEF q
<1>10. ASSUME NEW i \in 1..Len(q.plan)
       PROVE  /\ q.plan[i].original \in ContentsOf[q.ws]
              /\ q.plan[i].updated \in ContentsOf[q.ws]
  <2>1. \/ i \in 1..Len(req[r].plan) /\ q.plan[i] = req[r].plan[i]
        \/ q.plan[i] = item
    BY <1>4, <1>9
  <2>2. RequestOwn(req[r])
    BY DEF OwnInv
  <2> QED BY <1>6, <1>9, <2>1, <2>2 DEF RequestOwn, w
<1>11. RequestOwn(q)
  BY <1>9, <1>10 DEF RequestOwn
<1> QED BY <1>1, <1>3, <1>11, OneOwn, SameOwn DEF OwnInv

(* A session takes images only from a request of its own workspace.        *)
LEMMA CaptureOwn ==
    ASSUME StoreInv, OwnInv, NEW r \in Requests, CaptureItem(r)
    PROVE  OwnInv'
<1> DEFINE i == req[r].k + 1
           item == req[r].plan[i]
           s == req[r].sess
           record == Captured(sessions[s], item.name, item.original,
                              item.updated)
           q == Advance(r, Len(req[r].plan), "write")
<1>1. /\ req[r].pc = "capture" /\ CanCapture(s, req[r].ws, item.name, item.original)
      /\ sessions' = [sessions EXCEPT ![s] = record]
      /\ req' = [req EXCEPT ![r] = q] /\ disk' = disk
  BY DEF CaptureItem
<1>2. /\ item \in Item /\ i \in 1..Len(req[r].plan) /\ req[r] \in Request
      /\ Len(req[r].plan) \in Nat
  BY <1>1, PhaseFacts
<1>3. /\ item.name \in Names /\ item.original \in Contents
      /\ item.updated \in Contents
  BY <1>2, NamesAssumption DEF Item
<1>4. RequestOwn(req[r])
  BY DEF OwnInv
<1>5. item.original \in ContentsOf[req[r].ws]
      /\ item.updated \in ContentsOf[req[r].ws]
  BY <1>2, <1>4 DEF RequestOwn
<1>6. s \in DOMAIN sessions /\ sessions[s].workspace = req[r].ws
  BY <1>1 DEF CanCapture, ValidSession
<1>7. sessions[s] \in SessionRecord /\ ImagesOf(sessions[s].files, req[r].ws)
  BY <1>6, SessionType DEF StoreInv, OwnInv, StoreOwn
<1>8. ImagesOf(record.files, record.workspace)
  <2> HIDE DEF item, s
  <2>1. record.workspace = req[r].ws
    BY <1>3, <1>6, <1>7, CapturedType
  <2>2. ImagesOf(record.files, req[r].ws)
    BY <1>3, <1>5, <1>7, CapturedOwn
  <2> QED BY <2>1, <2>2
<1> HIDE DEF record, item, s
<1>9. StoreOwn'
  BY <1>1, <1>6, <1>8, RecordedOwn
<1>10. \/ q = [req[r] EXCEPT !.k = req[r].k + 1]
       \/ q = [req[r] EXCEPT !.k = 0, !.pc = "write"]
  BY DEF Advance
<1> HIDE DEF q
<1>11. q.plan = req[r].plan /\ q.ws = req[r].ws /\ q.pc \in {"capture", "write"}
  BY <1>1, <1>2, <1>10 DEF Request
<1>12. RequestOwn(q)
  BY <1>4, <1>11 DEF RequestOwn
<1> QED BY <1>1, <1>9, <1>12, OneOwn, SameOwn DEF OwnInv

LEMMA WriteOwn ==
    ASSUME StoreInv, OwnInv, NEW r \in Requests, WriteItem(r)
    PROVE  OwnInv'
<1> DEFINE i == req[r].k + 1
           item == req[r].plan[i]
           q == Advance(r, Len(req[r].plan), "idle")
           w == req[r].ws
<1>1. /\ req[r].pc = "write" /\ sessions' = sessions
      /\ disk' = [disk EXCEPT ![w][item.name] = item.updated]
      /\ \/ req' = [req EXCEPT ![r] = Idle]
         \/ req' = [req EXCEPT ![r] = q]
  BY DEF WriteItem
<1>2. /\ item.name \in Files /\ i \in 1..Len(req[r].plan)
      /\ req[r] \in Request /\ w \in Workspaces
  BY <1>1, PhaseFacts DEF Item
<1>3. RequestOwn(req[r])
  BY DEF OwnInv
<1>4. item.updated \in ContentsOf[w]
  BY <1>2, <1>3 DEF RequestOwn
<1>5. FilesOwn'
  <2> HIDE DEF item, w
  <2> QED BY <1>1, <1>2, <1>4, WrittenOwn
<1>6. \/ q = [req[r] EXCEPT !.k = req[r].k + 1]
      \/ q = [req[r] EXCEPT !.k = 0, !.pc = "idle"]
  BY DEF Advance
<1> HIDE DEF q
<1>7. q.plan = req[r].plan /\ q.ws = req[r].ws /\ q.pc \in {"write", "idle"}
  BY <1>1, <1>2, <1>6 DEF Request
<1>8. RequestOwn(q)
  BY <1>3, <1>7 DEF RequestOwn
<1> QED BY <1>1, <1>5, <1>8, IdleOwn, OneOwn, SameOwn DEF OwnInv

LEMMA CheckpointOwn ==
    ASSUME StoreInv, OwnInv, VersionInv, NEW r \in Requests,
           CheckpointRead(r) \/ CheckpointCapture(r)
    PROVE  OwnInv'
<1>1. CASE CheckpointRead(r)
  <2> DEFINE f == FileOf[req[r].names[req[r].k + 1]]
             current == disk[req[r].ws][f]
             q == [req[r] EXCEPT !.pc = "checkpoint", !.seen = current]
  <2>1. /\ req[r].pc = "read" /\ disk' = disk /\ sessions' = sessions
        /\ \/ Finish(r)
           \/ current # Absent /\ req' = [req EXCEPT ![r] = q]
    <3>1. req \in [Requests -> Request]
      BY DEF StoreInv, TypeOK
    <3> QED BY <1>1, <3>1 DEF CheckpointRead
  <2>2. f \in Files /\ req[r].ws \in Workspaces /\ req[r] \in Request
    BY <2>1, PhaseFacts, NamesAssumption
  <2>3. current # Absent => current \in ContentsOf[req[r].ws]
    BY <2>2 DEF OwnInv, FilesOwn
  <2> HIDE DEF f, current
  <2>4. /\ q.plan = <<>> /\ q.pc = "checkpoint" /\ q.seen = current
        /\ q.ws = req[r].ws
    BY <2>1, <2>2, NoPlan DEF Request
  <2> HIDE DEF q
  <2>5. current # Absent => RequestOwn(q)
    BY <2>3, <2>4 DEF RequestOwn
  <2> QED BY <2>1, <2>5, FinishOwn, OneOwn, SameOwn DEF OwnInv
<1>2. CASE CheckpointCapture(r)
  <2> DEFINE n == req[r].names[req[r].k + 1]
             c == req[r].seen
             s == req[r].sess
             record == Captured(sessions[s], n, c, c)
             total == Len(req[r].names)
             next == Advance(r, total, "idle")
             q == [next EXCEPT !.pc = "read", !.seen = Absent]
  <2>1. /\ req[r].pc = "checkpoint" /\ disk' = disk
        /\ sessions' = sessions
           \/ (/\ CanCapture(s, req[r].ws, n, c)
               /\ sessions' = [sessions EXCEPT ![s] = record])
        /\ Finish(r) \/ req' = [req EXCEPT ![r] = q]
    BY <1>2 DEF CheckpointCapture
  <2>2. /\ n \in Names /\ c \in Contents /\ c \in ContentsOf[req[r].ws]
        /\ req[r] \in Request /\ total \in Nat /\ req[r].k + 1 \in 1..total
    BY <2>1, PhaseFacts DEF StoreInv, RequestOK, PhaseOK, OwnInv, RequestOwn
  <2>3. ASSUME CanCapture(s, req[r].ws, n, c),
               sessions' = [sessions EXCEPT ![s] = record]
        PROVE  StoreOwn'
    <3>1. s \in DOMAIN sessions /\ sessions[s].workspace = req[r].ws
      BY <2>3 DEF CanCapture, ValidSession
    <3>2. /\ sessions[s] \in SessionRecord
          /\ ImagesOf(sessions[s].files, req[r].ws)
      BY <3>1, SessionType DEF StoreInv, OwnInv, StoreOwn
    <3>3. ImagesOf(record.files, record.workspace)
      <4> HIDE DEF n, c, s
      <4>1. record.workspace = req[r].ws
        BY <2>2, <3>1, <3>2, CapturedType
      <4>2. ImagesOf(record.files, req[r].ws)
        BY <2>2, <3>2, CapturedOwn
      <4> QED BY <4>1, <4>2
    <3> HIDE DEF record, s
    <3> QED BY <2>3, <3>1, <3>3, RecordedOwn
  <2>4. RequestOwn(q)
    <3>1. req[r].plan = <<>>
      BY <2>1, NoPlan
    <3>2. next \in Request /\ next.plan = <<>>
      <4>1. /\ next \in Request
            /\ \/ next = [req[r] EXCEPT !.k = req[r].k + 1]
               \/ next = [req[r] EXCEPT !.k = 0, !.pc = "idle"]
        <5> HIDE DEF total
        <5> QED BY <2>2, AdvanceType DEF Phase
      <4> HIDE DEF next
      <4> QED BY <2>2, <3>1, <4>1 DEF Request
    <3> HIDE DEF next
    <3>3. q.plan = <<>> /\ q.pc = "read"
      BY <3>2 DEF Request
    <3> QED BY <3>3 DEF RequestOwn
  <2> HIDE DEF q, record, s, c, n
  <2> QED BY <2>1, <2>3, <2>4, FinishOwn, OneOwn, SameOwn DEF OwnInv
<1> QED BY <1>1, <1>2

(* A refresh records what the session's own workspace holds.               *)
LEMMA RefreshOwn ==
    ASSUME StoreInv, OwnInv, VersionInv, NEW r \in Requests, RefreshPath(r)
    PROVE  OwnInv'
<1> DEFINE n == req[r].names[req[r].k + 1]
           s == req[r].sess
           session == sessions[s]
           current == disk[req[r].ws][FileOf[n]]
           entry == [session.files[n] EXCEPT !.after = current]
           record == [session EXCEPT
                        !.files = [session.files EXCEPT ![n] = entry]]
           total == Len(req[r].names)
           next == Advance(r, total, "idle")
<1>1. /\ req[r].pc = "refresh" /\ disk' = disk
      /\ \/ /\ n \in Tracked(session.files) /\ current # Absent
            /\ sessions' = [sessions EXCEPT ![s].files[n].after = current]
         \/ sessions' = sessions
      /\ \/ req' = [req EXCEPT ![r] = Idle]
         \/ req' = [req EXCEPT ![r] = next]
  BY DEF RefreshPath
<1>2. /\ n \in Names /\ req[r] \in Request /\ FileOf[n] \in Files
      /\ req[r].ws \in Workspaces
      /\ s \in DOMAIN sessions /\ session.workspace = req[r].ws
  BY <1>1, PhaseFacts, NamesAssumption DEF StoreInv, RequestOK, PhaseOK
<1>3. session \in SessionRecord /\ ImagesOf(session.files, session.workspace)
  BY <1>2, SessionType DEF StoreInv, OwnInv, StoreOwn
<1>4. ASSUME n \in Tracked(session.files), current # Absent,
             sessions' = [sessions EXCEPT ![s].files[n].after = current]
      PROVE  StoreOwn'
  <2>1. sessions' = [sessions EXCEPT ![s] = record]
    BY <1>4
  <2>2. current \in ContentsOf[req[r].ws]
    <3> DEFINE f == FileOf[n]
    <3>1. f \in Files /\ disk[req[r].ws][f] # Absent
      BY <1>2, <1>4
    <3> HIDE DEF f
    <3>2. disk[req[r].ws][f] \in ContentsOf[req[r].ws]
      BY <1>2, <3>1 DEF OwnInv, FilesOwn
    <3> QED BY <3>2 DEF f
  <2> HIDE DEF current
  <2>3. session.files[n] \in Entry
    BY <1>2, <1>3, <1>4 DEF SessionRecord, Tracked
  <2>4. entry.before = session.files[n].before /\ entry.after = current
    BY <2>3 DEF Entry
  <2> HIDE DEF entry, session, n
  <2>5. record.workspace = session.workspace
        /\ record.files = [session.files EXCEPT ![n] = entry]
    BY <1>3 DEF SessionRecord
  <2>6. \A m \in Names : record.files[m] = IF m = n THEN entry
                                                    ELSE session.files[m]
    BY <1>3, <2>5 DEF SessionRecord
  <2> HIDE DEF record
  <2>7. ImagesOf(record.files, record.workspace)
    BY <1>2, <1>3, <1>4, <2>2, <2>4, <2>5, <2>6 DEF ImagesOf, Tracked
  <2> QED BY <1>2, <2>1, <2>7, RecordedOwn
<1>5. RequestOwn(next)
  <2>1. req[r].plan = <<>>
    BY <1>1, NoPlan
  <2>2. \/ next = [req[r] EXCEPT !.k = req[r].k + 1]
        \/ next = [req[r] EXCEPT !.k = 0, !.pc = "idle"]
    BY DEF Advance
  <2> HIDE DEF next
  <2>3. next.plan = <<>> /\ next.pc \in {"refresh", "idle"}
    BY <1>1, <1>2, <2>1, <2>2 DEF Request
  <2> QED BY <2>3 DEF RequestOwn
<1> HIDE DEF next, session, current, n
<1> QED BY <1>1, <1>4, <1>5, IdleOwn, OneOwn, SameOwn DEF OwnInv

LEMMA RollbackOwn ==
    ASSUME StoreInv, OwnInv, VersionInv, NEW r \in Requests,
           RollbackVerify(r) \/ RollbackWrite(r) \/ RollbackCommit(r)
    PROVE  OwnInv'
<1>1. RequestOwn(req[r])
  BY DEF OwnInv
<1>2. CASE RollbackVerify(r)
  <2>1. PICK n \in req[r].left :
          req' = [req EXCEPT
             ![r].pc = RollbackPhase(req[r].left \ {n}, "verify", "restore"),
             ![r].left = IF req[r].left \ {n} = {}
                         THEN Tracked(req[r].snap) ELSE req[r].left \ {n}]
    BY <1>2 DEF RollbackVerify
  <2> DEFINE rest == req[r].left \ {n}
             phase == RollbackPhase(rest, "verify", "restore")
             left == IF rest = {} THEN Tracked(req[r].snap) ELSE rest
             q == [req[r] EXCEPT !.pc = phase, !.left = left]
  <2>2. /\ req[r].pc = "verify" /\ disk' = disk /\ sessions' = sessions
        /\ req[r].plan = <<>> /\ req[r] \in Request
        /\ req \in [Requests -> Request]
    BY <1>2, NoPlan, PhaseFacts DEF RollbackVerify, StoreInv, TypeOK
  <2>3. req' = [req EXCEPT ![r] = q]
    BY <2>1, <2>2
  <2>4. phase \in {"verify", "restore"}
    BY DEF RollbackPhase
  <2> HIDE DEF phase, left
  <2>5. q.plan = <<>> /\ q.pc = phase /\ q.snap = req[r].snap
        /\ q.ws = req[r].ws
    BY <2>2 DEF Request
  <2> HIDE DEF q
  <2>6. RequestOwn(q)
    BY <1>1, <2>2, <2>4, <2>5 DEF RequestOwn
  <2> QED BY <2>2, <2>3, <2>6, OneOwn, SameOwn DEF OwnInv
<1>3. CASE RollbackWrite(r)
  <2>1. PICK n \in req[r].left :
        /\ disk' = [disk EXCEPT ![req[r].ws][FileOf[n]] =
                                  req[r].snap[n].before]
        /\ req' = [req EXCEPT
             ![r].pc = RollbackPhase(req[r].left \ {n}, "restore", "commit"),
             ![r].left = req[r].left \ {n}]
    BY <1>3 DEF RollbackWrite
  <2> DEFINE rest == req[r].left \ {n}
             phase == RollbackPhase(rest, "restore", "commit")
             q == [req[r] EXCEPT !.pc = phase, !.left = rest]
             w == req[r].ws
             f == FileOf[n]
             before == req[r].snap[n].before
  <2>2. /\ req[r].pc = "restore" /\ sessions' = sessions
        /\ req[r].plan = <<>> /\ req[r] \in Request
        /\ req \in [Requests -> Request]
        /\ w \in Workspaces /\ f \in Files /\ n \in Tracked(req[r].snap)
    BY <1>3, NoPlan, PhaseFacts, NamesAssumption
    DEF RollbackWrite, StoreInv, TypeOK, RequestOK, PhaseOK
  <2>3. req' = [req EXCEPT ![r] = q]
    BY <2>1, <2>2
  <2>4. phase \in {"restore", "commit"}
    BY DEF RollbackPhase
  <2> HIDE DEF phase, rest
  <2>5. q.plan = <<>> /\ q.pc = phase /\ q.snap = req[r].snap
        /\ q.ws = req[r].ws
    BY <2>2 DEF Request
  <2> HIDE DEF q
  <2>6. RequestOwn(q)
    BY <1>1, <2>2, <2>4, <2>5 DEF RequestOwn
  <2>7. before \in ContentsOf[w]
    BY <1>1, <2>2 DEF RequestOwn, ImagesOf
  <2>8. FilesOwn'
    <3> HIDE DEF w, f, before
    <3>1. disk' = [disk EXCEPT ![w][f] = before]
      BY <2>1 DEF w, f, before
    <3> QED BY <2>2, <2>7, <3>1, WrittenOwn
  <2> QED BY <2>2, <2>3, <2>6, <2>8, OneOwn, SameOwn DEF OwnInv
<1>4. CASE RollbackCommit(r)
  <2> DEFINE s == req[r].sess
             record == [sessions[s] EXCEPT !.status = "RolledBack"]
  <2>1. /\ req[r].pc = "commit" /\ Finish(r) /\ disk' = disk
        /\ sessions' = [sessions EXCEPT ![s] = record]
    BY <1>4 DEF RollbackCommit
  <2>2. s \in DOMAIN sessions
    BY <2>1 DEF StoreInv, RequestOK, PhaseOK
  <2>3. /\ sessions[s] \in SessionRecord
        /\ ImagesOf(sessions[s].files, sessions[s].workspace)
    BY <2>2, SessionType DEF StoreInv, OwnInv, StoreOwn
  <2>4. record.files = sessions[s].files
        /\ record.workspace = sessions[s].workspace
    BY <2>3 DEF SessionRecord
  <2> HIDE DEF record, s
  <2>5. StoreOwn'
    BY <2>1, <2>2, <2>3, <2>4, RecordedOwn
  <2> QED BY <2>1, <2>5, FinishOwn, SameOwn DEF OwnInv
<1> QED BY <1>2, <1>3, <1>4

LEMMA NextOwn == StoreInv /\ VersionInv /\ OwnInv /\ [Next]_vars => OwnInv'
<1> SUFFICES ASSUME StoreInv, VersionInv, OwnInv, [Next]_vars PROVE OwnInv'
  OBVIOUS
<1>1. CASE UNCHANGED vars
  BY <1>1, SameOwn DEF vars, OwnInv
<1>2. ASSUME NEW r \in Requests, Arrive(r) PROVE OwnInv'
  BY <1>2, ArriveOwn
<1>3. ASSUME NEW r \in Requests, Step(r) \/ Disconnect(r) PROVE OwnInv'
  <2>1. CASE PreflightRefused(r) \/ CaptureRefused(r) \/ WriteFails(r)
               \/ RollbackRefused(r) \/ Disconnect(r)
    <3>1. Finish(r) /\ UNCHANGED <<disk, sessions>>
      BY <2>1 DEF PreflightRefused, CaptureRefused, WriteFails,
         RollbackRefused, Disconnect
    <3> QED BY <3>1, FinishOwn, SameOwn DEF OwnInv
  <2> QED BY <1>3, <2>1, PreflightOwn, CaptureOwn, WriteOwn, CheckpointOwn,
             RefreshOwn, RollbackOwn DEF Step
<1>4. ASSUME NEW w \in Workspaces, CreateSession(w) PROVE OwnInv'
  <2>1. /\ sessions' = Append(sessions, NewSession(w)) /\ disk' = disk
        /\ req' = req /\ sessions \in Seq(SessionRecord)
    BY <1>4 DEF CreateSession, StoreInv, TypeOK
  <2>2. NewSession(w) \in SessionRecord /\ Tracked(NewSession(w).files) = {}
    BY NewSessionType DEF NewSession, Tracked
  <2>3. ImagesOf(NewSession(w).files, NewSession(w).workspace)
    BY <2>2 DEF ImagesOf
  <2>4. ASSUME NEW s \in DOMAIN sessions'
        PROVE  ImagesOf(sessions'[s].files, sessions'[s].workspace)
    <3> DEFINE new == NewSession(w)
    <3>1. new \in SessionRecord /\ sessions' = Append(sessions, new)
      BY <2>1, <2>2
    <3> HIDE DEF new
    <3>2. \/ s \in DOMAIN sessions /\ sessions'[s] = sessions[s]
          \/ sessions'[s] = new
      BY <2>1, <3>1
    <3> QED BY <2>3, <3>2 DEF OwnInv, StoreOwn, new
  <2> QED BY <2>1, <2>4, SameOwn DEF OwnInv, StoreOwn
<1>5. ASSUME NEW s \in DOMAIN sessions, Finalize(s) PROVE OwnInv'
  <2> DEFINE record == [sessions[s] EXCEPT !.status = "Finalized"]
  <2>1. /\ sessions' = [sessions EXCEPT ![s] = record] /\ disk' = disk
        /\ req' = req
    BY <1>5 DEF Finalize
  <2>2. /\ sessions[s] \in SessionRecord
        /\ ImagesOf(sessions[s].files, sessions[s].workspace)
    BY SessionType DEF StoreInv, OwnInv, StoreOwn
  <2>3. record.files = sessions[s].files
        /\ record.workspace = sessions[s].workspace
    BY <2>2 DEF SessionRecord
  <2> HIDE DEF record
  <2>4. StoreOwn'
    BY <2>1, <2>2, <2>3, RecordedOwn
  <2> QED BY <2>1, <2>4, SameOwn DEF OwnInv
<1>6. CASE Restart
  <2>1. disk' = disk /\ sessions' = <<>> /\ req' = [r \in Requests |-> Idle]
    BY <1>6 DEF Restart
  <2>2. StoreOwn' /\ \A r \in Requests : RequestOwn(req'[r])
    BY <2>1, IdleOwn DEF StoreOwn
  <2> QED BY <2>1, <2>2, SameOwn DEF OwnInv
<1>7. CASE OutsideNext
  <2>1. PICK w \in Workspaces, f \in Files :
          \E c \in ContentsOf[w] \cup {Absent} : OutsideWrite(w, f, c)
    BY <1>7 DEF OutsideNext
  <2>2. PICK c \in ContentsOf[w] \cup {Absent} : OutsideWrite(w, f, c)
    BY <2>1
  <2> QED BY <2>2, WrittenOwn, SameOwn DEF OutsideWrite, OwnInv
<1> QED BY <1>1, <1>2, <1>3, <1>4, <1>5, <1>6, <1>7 DEF Next, TuxBridgeNext

(* No file and no snapshot ever holds content of another workspace, for    *)
(* every set of workspaces and whatever session ids clients pass.          *)
THEOREM BytesStayInWorkspaces == Spec => []WorkspacesIsolated
<1>1. Init => OwnInv
  BY IdleOwn DEF Init, OwnInv, FilesOwn, StoreOwn
<1>2. OwnInv => WorkspacesIsolated
  BY DEF OwnInv, FilesOwn, StoreOwn, ImagesOf, WorkspacesIsolated
<1> QED BY <1>1, <1>2, NextOwn, StoreInvariant, VersionInvariant, PTL DEF Spec

-----------------------------------------------------------------------------
(* The store implements the log of before-images.                          *)

(* A session as a record of the log, and the store as a log.               *)
Images(files) == [n \in Names |-> IF n \in Tracked(files) THEN files[n].before
                                                          ELSE NoEntry]

Seen(session) == [workspace |-> session.workspace, status |-> session.status,
                  images |-> Images(session.files)]

LogOf(ss) == [s \in DOMAIN ss |-> Seen(ss[s])]

SeenRecord == [workspace : Workspaces, status : Status,
               images : [Names -> Contents \cup {NoEntry}]]

(* The cardinality of the log's module is the one of this module.          *)
LEMMA UndoCardinality ==
    ASSUME NEW S
    PROVE  Undo!Cardinality(S) = Cardinality(S)
BY DEF Undo!Cardinality, Cardinality

LEMMA SeenType ==
    ASSUME NEW session \in SessionRecord
    PROVE  /\ Seen(session) \in SeenRecord
           /\ Undo!Tracked(Seen(session).images) = Tracked(session.files)
<1>1. session.files \in [Names -> Entry \cup {NoEntry}]
  BY DEF SessionRecord
<1>2. \A n \in Tracked(session.files) :
        session.files[n].before \in Contents /\ session.files[n].before # NoEntry
  BY <1>1, ContentsAssumption DEF Tracked, Entry
<1>3. Images(session.files) \in [Names -> Contents \cup {NoEntry}]
  BY <1>2 DEF Images
<1>4. Undo!Tracked(Images(session.files)) = Tracked(session.files)
  BY <1>2 DEF Undo!Tracked, Images, Tracked
<1> QED BY <1>3, <1>4 DEF Seen, SeenRecord, SessionRecord

(* Replacing a session replaces its record in the log.                     *)
LEMMA LogUpdate ==
    ASSUME NEW ss \in Seq(SessionRecord), NEW s \in DOMAIN ss,
           NEW record \in SessionRecord
    PROVE  LogOf([ss EXCEPT ![s] = record])
             = [LogOf(ss) EXCEPT ![s] = Seen(record)]
BY DEF LogOf

LEMMA LogType ==
    ASSUME NEW ss \in Seq(SessionRecord)
    PROVE  /\ LogOf(ss) \in Seq(SeenRecord)
           /\ Len(LogOf(ss)) = Len(ss)
           /\ DOMAIN LogOf(ss) = DOMAIN ss
<1>1. DOMAIN ss = 1..Len(ss) /\ Len(ss) \in Nat
  BY DEF Seq
<1>2. \A s \in 1..Len(ss) : ss[s] \in SessionRecord
  OBVIOUS
<1>3. LogOf(ss) \in [1..Len(ss) -> SeenRecord]
  BY <1>1, <1>2, SeenType DEF LogOf
<1> QED BY <1>1, <1>3

LEMMA LogAppend ==
    ASSUME NEW ss \in Seq(SessionRecord), NEW record \in SessionRecord
    PROVE  LogOf(Append(ss, record)) = Append(LogOf(ss), Seen(record))
<1> DEFINE tt == Append(ss, record)
           m == Len(ss)
<1>1. /\ m \in Nat /\ DOMAIN ss = 1..m /\ DOMAIN tt = 1..(m + 1)
      /\ tt \in Seq(SessionRecord) /\ Len(tt) = m + 1
      /\ \A s \in 1..m : tt[s] = ss[s]
      /\ tt[m + 1] = record
  OBVIOUS
<1> HIDE DEF tt
<1>2. /\ LogOf(tt) \in Seq(SeenRecord) /\ Len(LogOf(tt)) = m + 1
      /\ LogOf(ss) \in Seq(SeenRecord) /\ Len(LogOf(ss)) = m
  BY <1>1, LogType
<1>3. /\ \A s \in 1..m : LogOf(tt)[s] = LogOf(ss)[s]
      /\ LogOf(tt)[m + 1] = Seen(record)
  BY <1>1 DEF LogOf
<1>4. Seen(record) \in SeenRecord
  BY SeenType
<1> HIDE DEF m
<1>5. LogOf(tt) = Append(LogOf(ss), Seen(record))
  <2> DEFINE a == LogOf(tt)
             b == LogOf(ss)
             x == Seen(record)
  <2>1. /\ a \in Seq(SeenRecord) /\ Len(a) = m + 1 /\ x \in SeenRecord
        /\ b \in Seq(SeenRecord) /\ Len(b) = m /\ m \in Nat
        /\ a[m + 1] = x /\ \A s \in 1..m : a[s] = b[s]
    BY <1>1, <1>2, <1>3, <1>4
  <2> HIDE DEF a, b, x
  <2>2. a = Append(b, x)
    BY <2>1
  <2> QED BY <2>2 DEF a, b, x
<1> QED BY <1>5 DEF tt

(* A capture records the image of a new name below the limit, or changes   *)
(* nothing that the log shows.                                             *)
LEMMA CapturedSeen ==
    ASSUME StoreInv, NEW s, NEW w, NEW n \in Names, NEW before \in Contents,
           NEW after \in Contents, CanCapture(s, w, n, before),
           sessions' = [sessions EXCEPT ![s] =
                          Captured(sessions[s], n, before, after)]
    PROVE  Undo!Record(s, n, before) \/ LogOf(sessions') = LogOf(sessions)
<1> DEFINE session == sessions[s]
           record == Captured(session, n, before, after)
           entry == [before |-> before, after |-> after]
           moved == [session.files[n] EXCEPT !.after = after]
<1>1. s \in DOMAIN sessions /\ session.status = "Active"
  BY DEF CanCapture, ValidSession
<1>2. /\ sessions \in Seq(SessionRecord) /\ session \in SessionRecord
      /\ session.files \in [Names -> Entry \cup {NoEntry}]
  BY <1>1, SessionType DEF StoreInv, TypeOK
<1>3. /\ record \in SessionRecord /\ record.workspace = session.workspace
      /\ record.status = session.status
      /\ Tracked(record.files) = Tracked(session.files) \cup {n}
  <2> HIDE DEF session
  <2>1. record \in SessionRecord
    BY <1>2, CapturedType
  <2>2. record.workspace = session.workspace
    BY <1>2, CapturedType
  <2>3. record.status = session.status
    BY <1>2, CapturedType
  <2>4. Tracked(record.files) = Tracked(session.files) \cup {n}
    BY <1>2, CapturedType
  <2> QED BY <2>1, <2>2, <2>3, <2>4
<1>4. LogOf(sessions') = [LogOf(sessions) EXCEPT ![s] = Seen(record)]
      /\ LogOf(sessions)[s] = Seen(session)
      /\ LogOf(sessions) \in Seq(SeenRecord)
      /\ s \in DOMAIN LogOf(sessions)
  <2> HIDE DEF record
  <2>1. sessions' = [sessions EXCEPT ![s] = record]
    BY DEF record
  <2> QED BY <1>1, <1>2, <1>3, <2>1, LogUpdate, LogType DEF LogOf
<1>5. CASE n \in Tracked(session.files)
  <2>1. record.files = [session.files EXCEPT ![n] = moved]
    BY <1>2, <1>5 DEF Captured, SessionRecord
  <2>2. moved.before = session.files[n].before
    BY <1>2, <1>5 DEF Tracked, Entry
  <2> HIDE DEF record, moved
  <2>3. \A m \in Tracked(session.files) :
          record.files[m].before = session.files[m].before
    BY <1>2, <2>1, <2>2 DEF Tracked
  <2>4. Tracked(record.files) = Tracked(session.files)
    BY <1>3, <1>5
  <2>5. Images(record.files) = Images(session.files)
    BY <2>3, <2>4 DEF Images
  <2>6. Seen(record) = Seen(session)
    BY <1>3, <2>5 DEF Seen
  <2> QED BY <1>4, <2>6
<1>6. CASE n \notin Tracked(session.files)
  <2>1. record.files = [session.files EXCEPT ![n] = entry]
    BY <1>2, <1>6 DEF Captured, SessionRecord
  <2>2. entry.before = before
    OBVIOUS
  <2>3. Cardinality(Tracked(session.files)) < MaxFiles
    BY <1>6 DEF CanCapture
  <2> HIDE DEF record, entry
  <2>4. \A m \in Names : record.files[m] = IF m = n THEN entry
                                                    ELSE session.files[m]
    BY <1>2, <2>1
  <2>5. Images(record.files) = [Images(session.files) EXCEPT ![n] = before]
    BY <1>3, <2>2, <2>4 DEF Images
  <2>6. Seen(record) = [Seen(session) EXCEPT !.images[n] = before]
    BY <1>3, <2>5 DEF Seen
  <2>7. LogOf(sessions') = [LogOf(sessions) EXCEPT ![s].images[n] = before]
    BY <1>4, <2>6
  <2>8. /\ LogOf(sessions)[s].status = "Active"
        /\ Undo!Tracked(LogOf(sessions)[s].images) = Tracked(session.files)
    BY <1>1, <1>2, <1>4, SeenType DEF Seen
  <2>9. /\ LogOf(sessions)[s].status = "Active"
        /\ n \notin Undo!Tracked(LogOf(sessions)[s].images)
        /\ Undo!Cardinality(Undo!Tracked(LogOf(sessions)[s].images)) < MaxFiles
    BY <1>6, <2>3, <2>8, UndoCardinality
  <2> QED BY <2>7, <2>9 DEF Undo!Record, LogOf, Seen, Images
<1> QED BY <1>5, <1>6

(* A session is settled.                                                   *)
LEMMA SettledSeen ==
    ASSUME StoreInv, NEW s \in DOMAIN sessions,
           NEW outcome \in {"Finalized", "RolledBack"},
           outcome = "Finalized" => sessions[s].status = "Active",
           sessions' = [sessions EXCEPT ![s].status = outcome]
    PROVE  Undo!Settle(s, outcome)
<1> DEFINE session == sessions[s]
           record == [session EXCEPT !.status = outcome]
<1>1. sessions \in Seq(SessionRecord) /\ session \in SessionRecord
  BY SessionType DEF StoreInv, TypeOK
<1>2. /\ record \in SessionRecord /\ record.workspace = session.workspace
      /\ record.status = outcome /\ record.files = session.files
  BY <1>1 DEF SessionRecord, Status
<1>3. Seen(record) = [Seen(session) EXCEPT !.status = outcome]
  BY <1>2 DEF Seen
<1>4. sessions' = [sessions EXCEPT ![s] = record]
  OBVIOUS
<1> HIDE DEF record
<1>5. /\ LogOf(sessions') = [LogOf(sessions) EXCEPT ![s] = Seen(record)]
      /\ LogOf(sessions)[s] = Seen(session)
      /\ s \in DOMAIN LogOf(sessions)
  BY <1>1, <1>2, <1>4, LogUpdate, LogType DEF LogOf
<1>6. LogOf(sessions') = [LogOf(sessions) EXCEPT ![s].status = outcome]
  BY <1>3, <1>5
<1>7. LogOf(sessions)[s].status = session.status
  BY <1>5 DEF Seen
<1> QED BY <1>6, <1>7 DEF Undo!Settle, LogOf, Seen, Images

(* What a refresh moves is not in the log.                                 *)
LEMMA RefreshSeen ==
    ASSUME StoreInv, NEW r \in Requests, RefreshPath(r)
    PROVE  LogOf(sessions') = LogOf(sessions)
<1> DEFINE n == req[r].names[req[r].k + 1]
           s == req[r].sess
           session == sessions[s]
           current == disk[req[r].ws][FileOf[n]]
           entry == [session.files[n] EXCEPT !.after = current]
           record == [session EXCEPT
                        !.files = [session.files EXCEPT ![n] = entry]]
<1>1. /\ req[r].pc = "refresh"
      /\ \/ /\ n \in Tracked(session.files) /\ current # Absent
            /\ sessions' = [sessions EXCEPT ![s].files[n].after = current]
         \/ sessions' = sessions
  BY DEF RefreshPath
<1>2. n \in Names /\ s \in DOMAIN sessions
  BY <1>1, PhaseFacts DEF StoreInv, RequestOK, PhaseOK
<1>3. sessions \in Seq(SessionRecord) /\ session \in SessionRecord
  BY <1>2, SessionType DEF StoreInv, TypeOK
<1>4. CASE /\ n \in Tracked(session.files) /\ current # Absent
           /\ sessions' = [sessions EXCEPT ![s].files[n].after = current]
  <2>1. sessions' = [sessions EXCEPT ![s] = record]
    BY <1>4
  <2>2. session.files[n] \in Entry
    BY <1>2, <1>3, <1>4 DEF SessionRecord, Tracked
  <2>3. current \in Contents
    <3> DEFINE f == FileOf[n]
    <3>1. /\ f \in Files /\ req[r].ws \in Workspaces
          /\ disk \in [Workspaces -> [Files -> Contents \cup {Absent}]]
          /\ disk[req[r].ws][f] # Absent
      BY <1>1, <1>2, <1>4, PhaseFacts, NamesAssumption DEF StoreInv, TypeOK
    <3> HIDE DEF f
    <3>2. disk[req[r].ws][f] \in Contents
      BY <3>1
    <3> QED BY <3>2 DEF f
  <2> HIDE DEF current
  <2>4. /\ entry \in Entry /\ entry # NoEntry
        /\ entry.before = session.files[n].before
    BY <2>2, <2>3, ContentsAssumption DEF Entry
  <2> HIDE DEF entry, session, n, s
  <2>5. /\ record \in SessionRecord
        /\ record.workspace = session.workspace
        /\ record.status = session.status
        /\ record.files = [session.files EXCEPT ![n] = entry]
    BY <1>2, <1>3, <2>4 DEF SessionRecord
  <2>6. \A m \in Names : record.files[m] = IF m = n THEN entry
                                                    ELSE session.files[m]
    BY <1>3, <2>5 DEF SessionRecord
  <2> HIDE DEF record
  <2>7. Images(record.files) = Images(session.files)
    <3>1. session.files[n] # NoEntry
      BY <1>4 DEF Tracked
    <3>2. Tracked(record.files) = Tracked(session.files)
      BY <2>4, <2>6, <3>1 DEF Tracked
    <3> QED BY <2>4, <2>6, <3>2 DEF Images
  <2>8. Seen(record) = Seen(session)
    BY <2>5, <2>7 DEF Seen
  <2>9. LogOf([sessions EXCEPT ![s] = record])
          = [LogOf(sessions) EXCEPT ![s] = Seen(session)]
    BY <1>2, <1>3, <2>5, <2>8, LogUpdate
  <2>10. LogOf(sessions)[s] = Seen(session) /\ LogOf(sessions) \in Seq(SeenRecord)
    BY <1>2, <1>3, LogType DEF LogOf, session
  <2> QED BY <2>1, <2>9, <2>10
<1> QED BY <1>1, <1>4

LEMMA InitUndo == Init => Undo!Init
<1> SUFFICES ASSUME Init PROVE Undo!Init
  OBVIOUS
<1>1. LogOf(sessions) = <<>>
  <2>1. sessions \in Seq(SessionRecord) /\ Len(sessions) = 0
    BY DEF Init
  <2>2. LogOf(sessions) \in Seq(SeenRecord) /\ Len(LogOf(sessions)) = 0
    BY <2>1, LogType
  <2> QED BY <2>2
<1> QED BY <1>1 DEF Undo!Init, LogOf, Seen, Images

(* Every step is a step of the log, or one it does not show.               *)
LEMMA NextUndo == StoreInv /\ [Next]_vars => [Undo!Next]_(LogOf(sessions))
<1> SUFFICES ASSUME StoreInv, [Next]_vars
             PROVE  [Undo!Next]_(LogOf(sessions))
  OBVIOUS
<1> DEFINE Shown == Undo!Next \/ LogOf(sessions') = LogOf(sessions)
<1>1. CASE UNCHANGED vars
  BY <1>1 DEF vars
<1>2. ASSUME NEW r \in Requests, Arrive(r) PROVE sessions' = sessions
  BY <1>2 DEF Arrive, EditPlan, Checkpoint, Refresh, Rollback
<1>3. DOMAIN LogOf(sessions) = DOMAIN sessions
  BY LogType DEF StoreInv, TypeOK
<1>4. ASSUME NEW s \in DOMAIN sessions, NEW n \in Names, NEW c \in Contents,
             Undo!Record(s, n, c)
      PROVE  Undo!Next
  BY <1>3, <1>4 DEF Undo!Next, LogOf, Seen, Images
<1>5. ASSUME NEW s \in DOMAIN sessions,
             NEW outcome \in {"Finalized", "RolledBack"},
             Undo!Settle(s, outcome)
      PROVE  Undo!Next
  BY <1>3, <1>5 DEF Undo!Next, LogOf, Seen, Images
<1>6. ASSUME NEW r \in Requests, CaptureItem(r) PROVE Shown
  <2>0. PICK item, s : item = req[r].plan[req[r].k + 1] /\ s = req[r].sess
    OBVIOUS
  <2>1. /\ req[r].pc = "capture"
        /\ CanCapture(s, req[r].ws, item.name, item.original)
        /\ sessions' = [sessions EXCEPT ![s] =
                          Captured(sessions[s], item.name, item.original,
                                   item.updated)]
    BY <1>6, <2>0 DEF CaptureItem
  <2>2. item \in Item
    BY <2>0, <2>1, PhaseFacts
  <2>3. /\ item.name \in Names /\ item.original \in Contents
        /\ item.updated \in Contents
    BY <2>2, NamesAssumption DEF Item
  <2>4. s \in DOMAIN sessions
    BY <2>1 DEF CanCapture, ValidSession
  <2>5. PICK n, c, w : /\ n = item.name /\ c = item.original
                       /\ w = req[r].ws
    OBVIOUS
  <2>6. n \in Names /\ c \in Contents /\ CanCapture(s, w, n, c)
    BY <2>1, <2>3, <2>5
  <2>7. sessions' = [sessions EXCEPT ![s] =
                       Captured(sessions[s], n, c, item.updated)]
    BY <2>1, <2>5
  <2>8. Undo!Record(s, n, c) \/ LogOf(sessions') = LogOf(sessions)
    BY <2>3, <2>6, <2>7, CapturedSeen
  <2> QED BY <1>4, <2>4, <2>6, <2>8
<1>7. ASSUME NEW r \in Requests, CheckpointCapture(r) PROVE Shown
  <2>0. PICK n, c, s, w : /\ n = req[r].names[req[r].k + 1]
                          /\ c = req[r].seen /\ s = req[r].sess
                          /\ w = req[r].ws
    OBVIOUS
  <2>1. /\ req[r].pc = "checkpoint"
        /\ \/ /\ CanCapture(s, w, n, c)
              /\ sessions' = [sessions EXCEPT ![s] =
                                Captured(sessions[s], n, c, c)]
           \/ sessions' = sessions
    BY <1>7, <2>0 DEF CheckpointCapture
  <2>2. n \in Names /\ c \in Contents /\ s \in DOMAIN sessions
    BY <2>0, <2>1, PhaseFacts DEF StoreInv, RequestOK, PhaseOK
  <2>3. \/ Undo!Record(s, n, c)
        \/ LogOf(sessions') = LogOf(sessions)
    BY <2>1, <2>2, CapturedSeen
  <2> QED BY <1>4, <2>2, <2>3
<1>8. ASSUME NEW r \in Requests, RollbackCommit(r) PROVE Shown
  <2>0. PICK s : s = req[r].sess
    OBVIOUS
  <2>1. /\ req[r].pc = "commit"
        /\ sessions' = [sessions EXCEPT ![s].status = "RolledBack"]
    BY <1>8, <2>0 DEF RollbackCommit
  <2>2. s \in DOMAIN sessions
    BY <2>0, <2>1 DEF StoreInv, RequestOK, PhaseOK
  <2>3. Undo!Settle(s, "RolledBack")
    BY <2>1, <2>2, SettledSeen
  <2> QED BY <1>5, <2>2, <2>3
<1>9. ASSUME NEW s \in DOMAIN sessions, Finalize(s) PROVE Shown
  <2>1. Undo!Settle(s, "Finalized")
    BY <1>9, SettledSeen DEF Finalize
  <2> QED BY <1>5, <2>1
<1>10. ASSUME NEW w \in Workspaces, CreateSession(w) PROVE Shown
  <2>1. /\ sessions' = Append(sessions, NewSession(w))
        /\ sessions \in Seq(SessionRecord) /\ NewSession(w) \in SessionRecord
    BY <1>10, NewSessionType DEF CreateSession, StoreInv, TypeOK
  <2>2. Seen(NewSession(w)) = [workspace |-> w, status |-> "Active",
                               images |-> [n \in Names |-> NoEntry]]
    BY DEF Seen, NewSession, Images, Tracked
  <2>3. LogOf(sessions') = Append(LogOf(sessions), Seen(NewSession(w)))
    BY <2>1, LogAppend
  <2>4. LogOf(sessions') = Append(LogOf(sessions),
                             [workspace |-> w, status |-> "Active",
                              images |-> [n \in Names |-> NoEntry]])
    BY <2>2, <2>3
  <2>5. Undo!Open(w)
    BY <2>4 DEF Undo!Open, LogOf, Seen, Images
  <2> QED BY <2>5 DEF Undo!Next
<1>11. CASE Restart
  <2>1. sessions' = <<>> /\ sessions' \in Seq(SessionRecord)
    BY <1>11 DEF Restart
  <2> DEFINE ss == sessions'
  <2>2. ss \in Seq(SessionRecord) /\ Len(ss) = 0
    BY <2>1
  <2> HIDE DEF ss
  <2>3. LogOf(ss) \in Seq(SeenRecord) /\ Len(LogOf(ss)) = 0
    BY <2>2, LogType
  <2>4. LogOf(ss) = <<>>
    BY <2>3
  <2>5. LogOf(sessions') = <<>>
    BY <2>4 DEF ss
  <2>6. Undo!Forget
    BY <2>5 DEF Undo!Forget, LogOf, Seen, Images
  <2> QED BY <2>6 DEF Undo!Next
<1>12. ASSUME NEW r \in Requests, Step(r) \/ Disconnect(r) PROVE Shown
  <2>1. CASE PreflightItem(r) \/ PreflightRefused(r) \/ CaptureRefused(r)
             \/ WriteItem(r) \/ WriteFails(r) \/ CheckpointRead(r)
             \/ RollbackVerify(r) \/ RollbackRefused(r) \/ RollbackWrite(r)
             \/ Disconnect(r)
    <3>1. sessions' = sessions
      BY <2>1 DEF PreflightItem, PreflightRefused, CaptureRefused, WriteItem,
         WriteFails, CheckpointRead, RollbackVerify, RollbackRefused,
         RollbackWrite, Disconnect
    <3> QED BY <3>1
  <2> QED BY <1>6, <1>7, <1>8, <1>12, <2>1, RefreshSeen DEF Step
<1>13. CASE OutsideNext
  BY <1>13 DEF OutsideNext, OutsideWrite
<1>14. Undo!Next \/ LogOf(sessions)' = LogOf(sessions)
  <2>1. Shown \/ sessions' = sessions
    BY <1>1, <1>2, <1>9, <1>10, <1>11, <1>12, <1>13
    DEF Next, TuxBridgeNext, vars
  <2> QED BY <2>1
<1> QED BY <1>14

(* Sessions implement the bounded, append-only log of before-images, for   *)
(* every number of sessions, files and requests.                           *)
THEOREM SessionsAreUndoLogs == Spec => UndoRefinement
<1>1. StoreInv /\ [Next]_vars
        => [Undo!Next]_([s \in DOMAIN sessions |->
              [workspace |-> sessions[s].workspace,
               status |-> sessions[s].status,
               images |-> [n \in Names |->
                             IF n \in Tracked(sessions[s].files)
                             THEN sessions[s].files[n].before
                             ELSE NoEntry]]])
  BY NextUndo DEF LogOf, Seen, Images
<1> QED BY <1>1, InitUndo, StoreInvariant, PTL
        DEF Spec, UndoRefinement, Undo!Spec
-----------------------------------------------------------------------------
(* Sums over finite sets.                                                  *)

(* The least number of a set; what follows is induction with it.           *)
LEMMA LeastNumber ==
    ASSUME NEW T \in SUBSET Nat, T # {}
    PROVE  \E n \in T : \A m \in T : n <= m
<1>1. PICK n \in T : \A m \in T : ~(<<m, n>> \in OpToRel(<, Nat))
  BY NatLessThanWellFounded, WFMin
<1>2. \A m \in T : ~(m < n)
  BY <1>1 DEF OpToRel
<1> QED BY <1>2

(* A set with 0 and with the successor of each of its numbers has them all.*)
LEMMA Induction ==
    ASSUME NEW T, 0 \in T, \A n \in Nat : n \in T => n + 1 \in T
    PROVE  Nat \subseteq T
<1> SUFFICES ASSUME Nat \ T # {} PROVE FALSE
  OBVIOUS
<1>1. PICK n \in Nat \ T : \A m \in Nat \ T : n <= m
  BY LeastNumber
<1>2. n # 0 /\ n - 1 \in Nat
  BY <1>1
<1>3. n - 1 \in T
  BY <1>1, <1>2
<1> QED BY <1>1, <1>2, <1>3

(* The element that MapThenSumSet takes first.                             *)
Pick(s) == CHOOSE x \in s : TRUE

LEMMA Picked == ASSUME NEW s, s # {} PROVE Pick(s) \in s
BY DEF Pick

(* it adds the numbers f[x] over each subset of S, as MapThenSumSet does.  *)
IsSum(it, f, S) ==
    it = [s \in SUBSET S |-> IF s = {} THEN 0
                                       ELSE f[Pick(s)] + it[s \ {Pick(s)}]]

(* Taking the element that is picked away leaves a smaller set.            *)
LEMMA Smaller ==
    ASSUME NEW S, IsFiniteSet(S), NEW s \in SUBSET S, s # {}
    PROVE  /\ Pick(s) \in s /\ s \ {Pick(s)} \in SUBSET S
           /\ IsFiniteSet(s) /\ Cardinality(s) \in Nat
           /\ Cardinality(s \ {Pick(s)}) = Cardinality(s) - 1
<1>1. IsFiniteSet(s)
  BY FS_Subset
<1> QED
  BY <1>1, Picked, FS_RemoveElement, FS_CardinalityType

(* There is such a function, over every finite set.                       *)
LEMMA SumExists ==
    ASSUME NEW S, IsFiniteSet(S), NEW f, \A x \in S : f[x] \in Nat
    PROVE  \E it : IsSum(it, f, S)
<1> DEFINE Level(n) == {s \in SUBSET S : Cardinality(s) <= n}
           Part(it, n) ==
             /\ it \in [Level(n) -> Nat]
             /\ \A s \in Level(n) :
                  it[s] = IF s = {} THEN 0 ELSE f[Pick(s)] + it[s \ {Pick(s)}]
           T == {n \in Nat : \E it : Part(it, n)}
<1>1. 0 \in T
  <2> DEFINE it == [s \in Level(0) |-> 0]
  <2>1. \A s \in Level(0) : s = {}
    <3> SUFFICES ASSUME NEW s \in Level(0), s # {} PROVE FALSE
      OBVIOUS
    <3>1. Cardinality(s) \in Nat /\ Cardinality(s \ {Pick(s)}) \in Nat
          /\ Cardinality(s \ {Pick(s)}) = Cardinality(s) - 1
      BY Smaller, FS_Subset, FS_CardinalityType
    <3> QED BY <3>1
  <2>2. Part(it, 0)
    BY <2>1
  <2> QED BY <2>2
<1>2. ASSUME NEW n \in Nat, n \in T
      PROVE  n + 1 \in T
  <2>1. PICK it : Part(it, n)
    BY <1>2
  <2> DEFINE value(s) == IF s = {} THEN 0 ELSE f[Pick(s)] + it[s \ {Pick(s)}]
             jt == [s \in Level(n + 1) |-> value(s)]
  <2>2. ASSUME NEW s \in Level(n + 1), s # {}
        PROVE  s \ {Pick(s)} \in Level(n) /\ Pick(s) \in S
    BY <2>2, Smaller
  <2>3. \A s \in Level(n + 1) : value(s) \in Nat
    BY <2>1, <2>2
  <2>4. \A s \in Level(n) : s \in Level(n + 1) /\ it[s] = value(s)
    <3>1. \A s \in Level(n) : Cardinality(s) \in Nat
      BY FS_Subset, FS_CardinalityType
    <3> QED BY <2>1, <3>1
  <2>5. \A s \in Level(n) : jt[s] = it[s]
    BY <2>4
  <2>6. \A s \in Level(n + 1) :
           jt[s] = IF s = {} THEN 0 ELSE f[Pick(s)] + jt[s \ {Pick(s)}]
    BY <2>2, <2>5
  <2>7. Part(jt, n + 1)
    <3>1. jt \in [Level(n + 1) -> Nat]
      BY <2>3
    <3> HIDE DEF jt, Level
    <3> QED BY <2>6, <3>1
  <2> HIDE DEF Part
  <2> QED BY <2>7
<1> HIDE DEF T
<1>3. Cardinality(S) \in T
  BY <1>1, <1>2, Induction, FS_CardinalityType
<1>4. PICK it : Part(it, Cardinality(S))
  BY <1>3 DEF T
<1>5. Level(Cardinality(S)) = SUBSET S
  BY FS_Subset
<1>6. IsSum(it, f, S)
  BY <1>4, <1>5 DEF IsSum
<1> QED BY <1>6

(* Two sums agree wherever their numbers do.                               *)
LEMMA SumsAgree ==
    ASSUME NEW S, NEW U, NEW f, NEW g, NEW it, NEW jt,
           IsSum(it, f, S), IsSum(jt, g, U),
           NEW V, IsFiniteSet(V), V \subseteq S, V \subseteq U,
           \A x \in V : f[x] \in Nat /\ g[x] = f[x]
    PROVE  \A s \in SUBSET V : it[s] \in Nat /\ jt[s] = it[s]
<1> DEFINE T == {n \in Nat : \A s \in SUBSET V : Cardinality(s) = n =>
                                it[s] \in Nat /\ jt[s] = it[s]}
<1>0. \A s \in SUBSET V :
        /\ it[s] = IF s = {} THEN 0 ELSE f[Pick(s)] + it[s \ {Pick(s)}]
        /\ jt[s] = IF s = {} THEN 0 ELSE g[Pick(s)] + jt[s \ {Pick(s)}]
  <2>1. \A s \in SUBSET S :
          it[s] = IF s = {} THEN 0 ELSE f[Pick(s)] + it[s \ {Pick(s)}]
    BY DEF IsSum
  <2>2. \A s \in SUBSET U :
          jt[s] = IF s = {} THEN 0 ELSE g[Pick(s)] + jt[s \ {Pick(s)}]
    BY DEF IsSum
  <2> QED BY <2>1, <2>2
<1>1. \A s \in SUBSET V : s # {} =>
        /\ Pick(s) \in V /\ s \ {Pick(s)} \in SUBSET V
        /\ Cardinality(s) \in Nat /\ Cardinality(s \ {Pick(s)}) = Cardinality(s) - 1
        /\ Cardinality(s) # 0
  <2> SUFFICES ASSUME NEW s \in SUBSET V, s # {}
               PROVE  /\ Pick(s) \in V /\ s \ {Pick(s)} \in SUBSET V
                      /\ Cardinality(s) \in Nat
                      /\ Cardinality(s \ {Pick(s)}) = Cardinality(s) - 1
                      /\ Cardinality(s) # 0
    OBVIOUS
  <2>1. /\ Pick(s) \in s /\ s \ {Pick(s)} \in SUBSET V
        /\ Cardinality(s) \in Nat
        /\ Cardinality(s \ {Pick(s)}) = Cardinality(s) - 1
    BY Smaller
  <2>2. Cardinality(s \ {Pick(s)}) \in Nat
    BY <2>1, FS_Subset, FS_CardinalityType
  <2> QED BY <2>1, <2>2
<1>2. 0 \in T
  <2>1. \A s \in SUBSET V : Cardinality(s) = 0 => s = {}
    BY <1>1
  <2>2. it[{}] = 0 /\ jt[{}] = 0
    BY <1>0
  <2> QED BY <2>1, <2>2
<1>3. ASSUME NEW n \in Nat, n \in T
      PROVE  n + 1 \in T
  <2> SUFFICES ASSUME NEW s \in SUBSET V, Cardinality(s) = n + 1, s # {}
               PROVE  it[s] \in Nat /\ jt[s] = it[s]
    BY <1>0
  <2> DEFINE t == s \ {Pick(s)}
  <2>1. t \in SUBSET V /\ Cardinality(t) = n
    BY <1>1
  <2>2. it[t] \in Nat /\ jt[t] = it[t]
    BY <1>3, <2>1
  <2>3. /\ it[s] = f[Pick(s)] + it[t] /\ jt[s] = g[Pick(s)] + jt[t]
        /\ f[Pick(s)] \in Nat /\ g[Pick(s)] = f[Pick(s)]
    BY <1>0, <1>1
  <2> HIDE DEF t
  <2> QED BY <2>2, <2>3
<1> HIDE DEF T
<1>4. \A s \in SUBSET V : Cardinality(s) \in T
  BY <1>2, <1>3, Induction, FS_Subset, FS_CardinalityType
<1> QED BY <1>4 DEF T

(* Which element is picked does not matter: any other one adds its number. *)
LEMMA SumInsert ==
    ASSUME NEW S, IsFiniteSet(S), NEW f, \A x \in S : f[x] \in Nat,
           NEW it, IsSum(it, f, S)
    PROVE  \A s \in SUBSET S : \A x \in S \ s : it[s \cup {x}] = it[s] + f[x]
<1> DEFINE T == {n \in Nat : \A s \in SUBSET S : Cardinality(s) = n =>
                   \A x \in S \ s : it[s \cup {x}] = it[s] + f[x]}
<1>0. /\ \A s \in SUBSET S : it[s] \in Nat
      /\ \A s \in SUBSET S :
           it[s] = IF s = {} THEN 0 ELSE f[Pick(s)] + it[s \ {Pick(s)}]
  <2>1. \A s \in SUBSET S :
           it[s] = IF s = {} THEN 0 ELSE f[Pick(s)] + it[s \ {Pick(s)}]
    BY DEF IsSum
  <2>2. \A s \in SUBSET S : it[s] \in Nat
    BY SumsAgree
  <2> QED BY <2>1, <2>2
<1>2. ASSUME NEW n \in Nat, \A m \in 0..(n - 1) : m \in T
      PROVE  n \in T
  <2> SUFFICES ASSUME NEW s \in SUBSET S, Cardinality(s) = n, NEW x \in S \ s
               PROVE  it[s \cup {x}] = it[s] + f[x]
    OBVIOUS
  <2> DEFINE p == Pick(s \cup {x})
  <2>1. p \in s \cup {x} /\ s \cup {x} \in SUBSET S /\ s \cup {x} # {}
    BY Picked
  <2>2. it[s \cup {x}] = f[p] + it[(s \cup {x}) \ {p}]
    BY <1>0, <2>1
  <2> HIDE DEF p
  <2>3. CASE p = x
    <3>1. (s \cup {x}) \ {p} = s
      BY <2>3
    <3>2. it[s] \in Nat /\ f[x] \in Nat
      BY <1>0
    <3>3. it[s \cup {x}] = f[x] + it[s]
      BY <2>2, <2>3, <3>1
    <3> QED BY <3>2, <3>3
  <2>4. CASE p # x
    <3> DEFINE t == s \ {p}
    <3>1. /\ p \in s /\ t \in SUBSET S /\ p \in S \ t /\ x \in S \ t
          /\ (s \cup {x}) \ {p} = t \cup {x} /\ t \cup {p} = s
      BY <2>1, <2>4
    <3>2. IsFiniteSet(s) /\ IsFiniteSet(t)
      BY <3>1, FS_Subset
    <3>3. Cardinality(t) = n - 1 /\ Cardinality(t) \in Nat
      BY <3>1, <3>2, FS_RemoveElement, FS_CardinalityType
    <3> HIDE DEF t
    <3>4. n - 1 \in T
      BY <1>2, <3>3
    <3>5. it[t \cup {x}] = it[t] + f[x] /\ it[t \cup {p}] = it[t] + f[p]
      BY <3>1, <3>3, <3>4
    <3>6. it[t] \in Nat /\ f[x] \in Nat /\ f[p] \in Nat
      BY <1>0, <3>1
    <3> QED BY <2>2, <3>1, <3>5, <3>6
  <2> QED BY <2>3, <2>4
<1> HIDE DEF T
<1>3. \A n \in Nat : n \in T
  <2> DEFINE U == {n \in Nat : \A m \in 0..(n - 1) : m \in T}
  <2>1. 0 \in U
    OBVIOUS
  <2>2. ASSUME NEW n \in Nat, n \in U PROVE n + 1 \in U
    BY <1>2, <2>2
  <2> HIDE DEF U
  <2>3. Nat \subseteq U
    BY <2>1, <2>2, Induction
  <2> QED BY <1>2, <2>3 DEF U
<1>4. \A s \in SUBSET S : Cardinality(s) \in T
  BY <1>3, FS_Subset, FS_CardinalityType
<1> QED BY <1>4 DEF T
-----------------------------------------------------------------------------
(* The limits of the store.                                                *)

(* The sum that IsSum describes.                                           *)
Total(f, S) == (CHOOSE it : IsSum(it, f, S))[S]

LEMMA TotalIsSum ==
    ASSUME NEW S, IsFiniteSet(S), NEW f, \A x \in S : f[x] \in Nat
    PROVE  \E it : IsSum(it, f, S) /\ Total(f, S) = it[S]
<1>1. IsSum(CHOOSE it : IsSum(it, f, S), f, S)
  BY SumExists
<1> QED BY <1>1 DEF Total

(* It depends on the numbers of S alone.                                   *)
LEMMA TotalAgrees ==
    ASSUME NEW S, IsFiniteSet(S), NEW f, NEW g,
           \A x \in S : f[x] \in Nat /\ g[x] = f[x]
    PROVE  Total(f, S) \in Nat /\ Total(g, S) = Total(f, S)
<1>1. PICK it : IsSum(it, f, S) /\ Total(f, S) = it[S]
  BY TotalIsSum
<1>2. \A x \in S : g[x] \in Nat
  OBVIOUS
<1>3. PICK jt : IsSum(jt, g, S) /\ Total(g, S) = jt[S]
  BY <1>2, TotalIsSum
<1>4. \A s \in SUBSET S : it[s] \in Nat /\ jt[s] = it[s]
  BY <1>1, <1>3, SumsAgree
<1> QED BY <1>1, <1>3, <1>4

LEMMA TotalEmpty == ASSUME NEW f PROVE Total(f, {}) = 0
<1>1. PICK it : IsSum(it, f, {}) /\ Total(f, {}) = it[{}]
  BY TotalIsSum, FS_EmptySet
<1> QED BY <1>1 DEF IsSum

(* One more element adds its number.                                       *)
LEMMA TotalInsert ==
    ASSUME NEW S, IsFiniteSet(S), NEW f, NEW x, x \notin S,
           \A y \in S \cup {x} : f[y] \in Nat
    PROVE  Total(f, S \cup {x}) = Total(f, S) + f[x]
<1> DEFINE U == S \cup {x}
<1>1. IsFiniteSet(U) /\ \A y \in U : f[y] \in Nat
  BY FS_AddElement
<1>2. PICK it : IsSum(it, f, U) /\ Total(f, U) = it[U]
  <2> HIDE DEF U
  <2> QED BY <1>1, TotalIsSum
<1>3. PICK jt : IsSum(jt, f, S) /\ Total(f, S) = jt[S]
  BY TotalIsSum
<1>4. \A s \in SUBSET S : it[s] \in Nat /\ jt[s] = it[s]
  BY <1>2, <1>3, SumsAgree
<1>5. it[S \cup {x}] = it[S] + f[x]
  BY <1>1, <1>2, SumInsert
<1> QED BY <1>2, <1>3, <1>4, <1>5

(* The lengths of the before-images, by name.                              *)
Lengths(files) == [n \in Names |-> Size[files[n].before]]

(* What the type of a record says of its tracked names.                    *)
LEMMA TrackedType ==
    ASSUME NEW files \in [Names -> Entry \cup {NoEntry}]
    PROVE  /\ IsFiniteSet(Tracked(files)) /\ Tracked(files) \subseteq Names
           /\ Cardinality(Tracked(files)) \in Nat
           /\ \A n \in Tracked(files) :
                 /\ files[n] \in Entry
                 /\ Lengths(files)[n] = Size[files[n].before]
                 /\ Lengths(files)[n] \in Nat
<1>1. Tracked(files) \subseteq Names
  BY DEF Tracked
<1>2. IsFiniteSet(Tracked(files)) /\ Cardinality(Tracked(files)) \in Nat
  BY <1>1, FS_Subset, FS_CardinalityType, LimitsAssumption
<1>3. \A n \in Tracked(files) : files[n] \in Entry
  BY DEF Tracked
<1>4. \A n \in Tracked(files) : Size[files[n].before] \in Nat
  BY <1>3, ContentsAssumption DEF Entry
<1> QED BY <1>1, <1>2, <1>3, <1>4 DEF Lengths

(* SnapshotBytes is that sum.                                             *)
LEMMA SnapshotTotal ==
    ASSUME NEW files \in [Names -> Entry \cup {NoEntry}]
    PROVE  SnapshotBytes(files) = Total(Lengths(files), Tracked(files))
<1> DEFINE S == Tracked(files)
           P(it) == it = [s \in SUBSET S |->
                            IF s = {} THEN 0
                            ELSE Size[files[CHOOSE x \in s : TRUE].before]
                                   + it[s \ {CHOOSE x \in s : TRUE}]]
<1>1. SnapshotBytes(files) = (CHOOSE it : P(it))[S]
  BY DEF SnapshotBytes, MapThenSumSet, MapThenFoldSet
<1>2. ASSUME NEW it PROVE P(it) <=> IsSum(it, Lengths(files), S)
  <2>1. \A s \in SUBSET S : s # {} =>
           Lengths(files)[Pick(s)] = Size[files[Pick(s)].before]
    BY TrackedType, Picked
  <2> HIDE DEF S
  <2> QED BY <2>1 DEF IsSum, Pick
<1> HIDE DEF P
<1>3. IsFiniteSet(S) /\ \A x \in S : Lengths(files)[x] \in Nat
  BY TrackedType
<1> HIDE DEF S
<1>4. \E it : IsSum(it, Lengths(files), S)
  BY <1>3, SumExists
<1>5. PICK it : P(it) /\ SnapshotBytes(files) = it[S]
  BY <1>1, <1>2, <1>4
<1>6. PICK jt : IsSum(jt, Lengths(files), S) /\ Total(Lengths(files), S) = jt[S]
  BY <1>3, TotalIsSum
<1>7. \A s \in SUBSET S : jt[s] = it[s]
  BY <1>2, <1>3, <1>5, <1>6, SumsAgree
<1> QED BY <1>5, <1>6, <1>7 DEF S

(* The bytes counted are the before-images', whatever else changes.        *)
LEMMA SnapshotSame ==
    ASSUME NEW files \in [Names -> Entry \cup {NoEntry}],
           NEW moved \in [Names -> Entry \cup {NoEntry}],
           Tracked(moved) = Tracked(files),
           \A n \in Tracked(files) : moved[n].before = files[n].before
    PROVE  SnapshotBytes(moved) = SnapshotBytes(files)
<1>1. \A n \in Tracked(files) : /\ Lengths(files)[n] \in Nat
                                /\ Lengths(moved)[n] = Lengths(files)[n]
  <2>1. \A n \in Tracked(files) :
           /\ Lengths(files)[n] = Size[files[n].before]
           /\ Lengths(files)[n] \in Nat
           /\ Lengths(moved)[n] = Size[moved[n].before]
    BY TrackedType
  <2> QED BY <2>1
<1>2. Total(Lengths(moved), Tracked(files)) = Total(Lengths(files), Tracked(files))
  BY <1>1, TrackedType, TotalAgrees
<1> QED BY <1>2, SnapshotTotal

(* A name that becomes tracked adds its before-image.                     *)
LEMMA SnapshotMore ==
    ASSUME NEW files \in [Names -> Entry \cup {NoEntry}],
           NEW n \in Names \ Tracked(files), NEW entry \in Entry
    PROVE  /\ SnapshotBytes([files EXCEPT ![n] = entry])
                = SnapshotBytes(files) + Size[entry.before]
           /\ Cardinality(Tracked([files EXCEPT ![n] = entry]))
                = Cardinality(Tracked(files)) + 1
<1>1. PICK more : more = [files EXCEPT ![n] = entry]
  OBVIOUS
<1>2. entry # NoEntry
  BY ContentsAssumption DEF Entry
<1>3. /\ more \in [Names -> Entry \cup {NoEntry}]
      /\ Tracked(more) = Tracked(files) \cup {n}
      /\ more[n] = entry /\ \A m \in Tracked(files) : more[m] = files[m]
  BY <1>1, <1>2 DEF Tracked
<1>4. Cardinality(Tracked(more)) = Cardinality(Tracked(files)) + 1
  BY <1>3, TrackedType, FS_AddElement
<1>5. /\ \A m \in Tracked(files) \cup {n} : Lengths(more)[m] \in Nat
      /\ Lengths(more)[n] = Size[entry.before]
  BY <1>3, TrackedType
<1>6. Total(Lengths(more), Tracked(more))
        = Total(Lengths(more), Tracked(files)) + Size[entry.before]
  BY <1>3, <1>5, TrackedType, TotalInsert
<1>7. \A m \in Tracked(files) : /\ Lengths(files)[m] \in Nat
                                /\ Lengths(more)[m] = Lengths(files)[m]
  <2>1. \A m \in Tracked(files) :
           /\ Lengths(files)[m] = Size[files[m].before]
           /\ Lengths(files)[m] \in Nat
    BY TrackedType
  <2>2. \A m \in Tracked(files) : Lengths(more)[m] = Size[more[m].before]
    BY <1>3, TrackedType
  <2> QED BY <1>3, <2>1, <2>2
<1>8. Total(Lengths(more), Tracked(files)) = Total(Lengths(files), Tracked(files))
  BY <1>7, TrackedType, TotalAgrees
<1> QED BY <1>1, <1>3, <1>4, <1>6, <1>8, SnapshotTotal

(* What the limits ask of one session, and of a store.                     *)
Fits(session) ==
    /\ Cardinality(Tracked(session.files)) <= MaxFiles
    /\ session.bytes <= MaxBytes
    /\ session.bytes = SnapshotBytes(session.files)

ActiveIn(ss) == {s \in DOMAIN ss : ss[s].status = "Active"}

Bounded(ss) == /\ Cardinality(ActiveIn(ss)) <= MaxSessions
               /\ \A s \in DOMAIN ss : Fits(ss[s])

LEMMA BoundedIsLimits == WithinLimits <=> Bounded(sessions)
BY DEF WithinLimits, Bounded, Fits, ActiveIn, ActiveSessions

(* The active sessions of a store can be counted.                          *)
LEMMA ActiveCount ==
    ASSUME NEW ss \in Seq(SessionRecord)
    PROVE  IsFiniteSet(ActiveIn(ss)) /\ Cardinality(ActiveIn(ss)) \in Nat
<1>1. DOMAIN ss = 1..Len(ss) /\ Len(ss) \in Nat
  OBVIOUS
<1>2. IsFiniteSet(1..Len(ss))
  BY <1>1, FS_Interval
<1>3. ActiveIn(ss) \subseteq 1..Len(ss)
  BY <1>1 DEF ActiveIn
<1> QED BY <1>2, <1>3, FS_Subset, FS_CardinalityType

LEMMA EmptyBounded ==
    ASSUME NEW ss, DOMAIN ss = {}
    PROVE  Bounded(ss)
<1>1. ActiveIn(ss) = {}
  BY DEF ActiveIn
<1>2. Cardinality({}) = 0
  BY FS_EmptySet
<1> QED BY <1>1, <1>2, LimitsAssumption DEF Bounded

(* A new session tracks nothing and takes the last free place.             *)
LEMMA AppendBounded ==
    ASSUME NEW ss \in Seq(SessionRecord), Bounded(ss), NEW w \in Workspaces,
           Cardinality(ActiveIn(ss)) < MaxSessions
    PROVE  Bounded(Append(ss, NewSession(w)))
<1> DEFINE new == NewSession(w)
           tt == Append(ss, new)
<1>1. new.bytes = 0 /\ new.files \in [Names -> Entry \cup {NoEntry}]
      /\ Tracked(new.files) = {}
  BY DEF NewSession, Tracked
<1>2. SnapshotBytes(new.files) = 0 /\ Cardinality(Tracked(new.files)) = 0
  BY <1>1, SnapshotTotal, TotalEmpty, FS_EmptySet
<1>3. Fits(new)
  BY <1>1, <1>2, LimitsAssumption DEF Fits
<1> HIDE DEF new
<1>4. DOMAIN tt = DOMAIN ss \cup {Len(ss) + 1} /\ tt[Len(ss) + 1] = new
      /\ \A s \in DOMAIN ss : tt[s] = ss[s]
  OBVIOUS
<1> HIDE DEF tt
<1>5. ActiveIn(tt) \subseteq ActiveIn(ss) \cup {Len(ss) + 1}
  BY <1>4 DEF ActiveIn
<1>6. Cardinality(ActiveIn(tt)) <= MaxSessions
  <2>0. PICK A, x : A = ActiveIn(ss) /\ x = Len(ss) + 1
    OBVIOUS
  <2> DEFINE B == A \cup {x}
  <2>1. IsFiniteSet(A) /\ Cardinality(A) \in Nat
    BY <2>0, ActiveCount
  <2>2. IsFiniteSet(B) /\ Cardinality(B) \in Nat
        /\ Cardinality(B) <= Cardinality(A) + 1
    <3>1. IsFiniteSet(B) /\ Cardinality(B) = IF x \in A THEN Cardinality(A)
                                             ELSE Cardinality(A) + 1
      BY <2>1, FS_AddElement
    <3> HIDE DEF B
    <3> QED BY <2>1, <3>1
  <2>3. ActiveIn(tt) \subseteq B
    BY <1>5, <2>0
  <2> HIDE DEF B
  <2>4. Cardinality(ActiveIn(tt)) \in Nat
        /\ Cardinality(ActiveIn(tt)) <= Cardinality(B)
    BY <2>2, <2>3, FS_Subset, FS_CardinalityType
  <2>5. Cardinality(A) < MaxSessions
    BY <2>0
  <2> QED BY <2>1, <2>2, <2>4, <2>5, LimitsAssumption
<1>7. \A s \in DOMAIN tt : Fits(tt[s])
  BY <1>3, <1>4 DEF Bounded
<1> QED BY <1>6, <1>7 DEF Bounded, tt, new

(* One session changes and does not become active.                         *)
LEMMA UpdateBounded ==
    ASSUME NEW ss \in Seq(SessionRecord), Bounded(ss), NEW s \in DOMAIN ss,
           NEW record, Fits(record),
           record.status = "Active" => ss[s].status = "Active"
    PROVE  Bounded([ss EXCEPT ![s] = record])
<1> DEFINE tt == [ss EXCEPT ![s] = record]
<1>1. DOMAIN tt = DOMAIN ss /\ tt[s] = record
      /\ \A u \in DOMAIN ss : u # s => tt[u] = ss[u]
  OBVIOUS
<1> HIDE DEF tt
<1>2. ActiveIn(tt) \subseteq ActiveIn(ss)
  BY <1>1 DEF ActiveIn
<1>3. IsFiniteSet(ActiveIn(ss)) /\ Cardinality(ActiveIn(ss)) \in Nat
  BY ActiveCount
<1>4. Cardinality(ActiveIn(tt)) \in Nat
      /\ Cardinality(ActiveIn(tt)) <= Cardinality(ActiveIn(ss))
  BY <1>2, <1>3, FS_Subset, FS_CardinalityType
<1>5. Cardinality(ActiveIn(tt)) <= MaxSessions
  BY <1>3, <1>4, LimitsAssumption DEF Bounded
<1>6. \A u \in DOMAIN tt : Fits(tt[u])
  BY <1>1 DEF Bounded
<1> QED BY <1>5, <1>6 DEF Bounded, tt

(* A capture that CanCapture admits keeps its session within the limits.   *)
LEMMA CapturedFits ==
    ASSUME TypeOK, NEW s, NEW w, NEW n \in Names, NEW before \in Contents,
           NEW after \in Contents, CanCapture(s, w, n, before),
           Fits(sessions[s])
    PROVE  Fits(Captured(sessions[s], n, before, after))
<1> DEFINE session == sessions[s]
           record == Captured(session, n, before, after)
           entry == [before |-> before, after |-> after]
           moved == [session.files[n] EXCEPT !.after = after]
<1>1. /\ session \in SessionRecord /\ session.bytes \in Nat
      /\ session.files \in [Names -> Entry \cup {NoEntry}]
  BY SessionType DEF CanCapture, ValidSession, SessionRecord
<1>2. /\ record.files \in [Names -> Entry \cup {NoEntry}]
      /\ Tracked(record.files) = Tracked(session.files) \cup {n}
  <2> HIDE DEF session
  <2>1. record \in SessionRecord
    BY <1>1, CapturedType
  <2>2. Tracked(record.files) = Tracked(session.files) \cup {n}
    BY <1>1, CapturedType
  <2> QED BY <2>1, <2>2 DEF SessionRecord
<1>3. CASE n \in Tracked(session.files)
  <2>1. record.files = [session.files EXCEPT ![n] = moved]
        /\ record.bytes = session.bytes
    BY <1>1, <1>3 DEF Captured, SessionRecord
  <2>2. moved.before = session.files[n].before
    BY <1>1, <1>3 DEF Tracked, Entry
  <2>3. Tracked(record.files) = Tracked(session.files)
    BY <1>2, <1>3
  <2> HIDE DEF record, moved
  <2>4. \A m \in Tracked(session.files) :
          record.files[m].before = session.files[m].before
    BY <1>1, <2>1, <2>2 DEF Tracked
  <2>5. SnapshotBytes(record.files) = SnapshotBytes(session.files)
    BY <1>1, <1>2, <2>3, <2>4, SnapshotSame
  <2>6. Fits(session)
    OBVIOUS
  <2> QED BY <2>1, <2>3, <2>5, <2>6 DEF Fits, record
<1>4. CASE n \notin Tracked(session.files)
  <2>1. record.files = [session.files EXCEPT ![n] = entry]
        /\ record.bytes = session.bytes + Size[before]
    BY <1>1, <1>4 DEF Captured, SessionRecord
  <2>2. entry \in Entry /\ entry.before = before /\ Size[before] \in Nat
    BY ContentsAssumption DEF Entry
  <2>3. /\ Cardinality(Tracked(session.files)) < MaxFiles
        /\ session.bytes + Size[before] <= MaxBytes
    BY <1>4 DEF CanCapture
  <2> HIDE DEF record, entry
  <2>4. /\ SnapshotBytes(record.files)
             = SnapshotBytes(session.files) + Size[before]
        /\ Cardinality(Tracked(record.files))
             = Cardinality(Tracked(session.files)) + 1
    <3> HIDE DEF session
    <3> QED BY <1>1, <1>4, <2>1, <2>2, SnapshotMore
  <2>5. Cardinality(Tracked(session.files)) \in Nat
    BY <1>1, TrackedType
  <2>6. session.bytes = SnapshotBytes(session.files)
    BY DEF Fits
  <2>7. Fits(record)
    <3> HIDE DEF session
    <3> QED BY <2>1, <2>3, <2>4, <2>5, <2>6, LimitsAssumption DEF Fits
  <2> QED BY <2>7 DEF record
<1> QED BY <1>3, <1>4

LEMMA CaptureBounded ==
    ASSUME StoreInv, Bounded(sessions), NEW s, NEW w, NEW n \in Names,
           NEW before \in Contents, NEW after \in Contents,
           CanCapture(s, w, n, before),
           sessions' = [sessions EXCEPT ![s] =
                          Captured(sessions[s], n, before, after)]
    PROVE  Bounded(sessions')
<1>1. /\ s \in DOMAIN sessions /\ sessions[s].status = "Active"
      /\ sessions \in Seq(SessionRecord) /\ TypeOK /\ Fits(sessions[s])
  BY DEF CanCapture, ValidSession, StoreInv, TypeOK, Bounded
<1> QED BY <1>1, CapturedFits, UpdateBounded

(* A change of status leaves what a session holds.                         *)
LEMMA SettleBounded ==
    ASSUME StoreInv, Bounded(sessions), NEW s \in DOMAIN sessions,
           NEW outcome \in {"Finalized", "RolledBack"},
           sessions' = [sessions EXCEPT ![s].status = outcome]
    PROVE  Bounded(sessions')
<1>0. PICK record : record = [sessions[s] EXCEPT !.status = outcome]
  OBVIOUS
<1>1. sessions \in Seq(SessionRecord) /\ sessions[s] \in SessionRecord
  BY SessionType DEF StoreInv, TypeOK
<1>2. record.status # "Active" /\ record.files = sessions[s].files
      /\ record.bytes = sessions[s].bytes
  BY <1>0, <1>1 DEF SessionRecord
<1>3. sessions' = [sessions EXCEPT ![s] = record]
  BY <1>0
<1>4. Fits(record)
  BY <1>2 DEF Fits, Bounded
<1>5. record.status = "Active" => sessions[s].status = "Active"
  BY <1>2
<1>6. Bounded([sessions EXCEPT ![s] = record])
  BY <1>1, <1>4, <1>5, UpdateBounded
<1> QED BY <1>3, <1>6

(* A refresh moves the content expected on disk, which costs nothing.      *)
LEMMA RefreshBounded ==
    ASSUME StoreInv, Bounded(sessions), NEW r \in Requests, RefreshPath(r)
    PROVE  Bounded(sessions')
<1>0. PICK n, s : n = req[r].names[req[r].k + 1] /\ s = req[r].sess
  OBVIOUS
<1>1. PICK current : current = disk[req[r].ws][FileOf[n]]
  OBVIOUS
<1>2. /\ req[r].pc = "refresh"
      /\ \/ /\ n \in Tracked(sessions[s].files) /\ current # Absent
            /\ sessions' = [sessions EXCEPT ![s].files[n].after = current]
         \/ sessions' = sessions
  BY <1>0, <1>1 DEF RefreshPath
<1>3. s \in DOMAIN sessions /\ n \in Names
  BY <1>0, <1>2, PhaseFacts DEF StoreInv, RequestOK, PhaseOK
<1>4. sessions \in Seq(SessionRecord) /\ sessions[s] \in SessionRecord
  BY <1>3, SessionType DEF StoreInv, TypeOK
<1>5. CASE /\ n \in Tracked(sessions[s].files) /\ current # Absent
           /\ sessions' = [sessions EXCEPT ![s].files[n].after = current]
  <2> DEFINE session == sessions[s]
             entry == [session.files[n] EXCEPT !.after = current]
             record == [session EXCEPT
                          !.files = [session.files EXCEPT ![n] = entry]]
  <2>1. sessions' = [sessions EXCEPT ![s] = record]
    BY <1>5
  <2>2. session.files[n] \in Entry
    BY <1>3, <1>4, <1>5 DEF SessionRecord, Tracked
  <2>3. current \in Contents
    <3>1. PICK f : f = FileOf[n]
      OBVIOUS
    <3>2. /\ f \in Files /\ req[r].ws \in Workspaces
          /\ disk \in [Workspaces -> [Files -> Contents \cup {Absent}]]
          /\ current = disk[req[r].ws][f] /\ current # Absent
      BY <1>1, <1>2, <1>3, <1>5, <3>1, PhaseFacts, NamesAssumption
      DEF StoreInv, TypeOK
    <3> QED BY <3>2
  <2>4. /\ entry \in Entry /\ entry # NoEntry
        /\ entry.before = session.files[n].before
    BY <2>2, <2>3, ContentsAssumption DEF Entry
  <2> HIDE DEF entry, session
  <2>5. /\ record.status = session.status /\ record.bytes = session.bytes
        /\ record.files = [session.files EXCEPT ![n] = entry]
        /\ session.files \in [Names -> Entry \cup {NoEntry}]
    BY <1>4 DEF SessionRecord, session
  <2> HIDE DEF record
  <2>6. record.files \in [Names -> Entry \cup {NoEntry}]
        /\ \A m \in Names : record.files[m] = IF m = n THEN entry
                                                    ELSE session.files[m]
    BY <1>3, <2>4, <2>5
  <2>7. Tracked(record.files) = Tracked(session.files)
    <3>1. session.files[n] # NoEntry
      BY <1>5 DEF Tracked, session
    <3> QED BY <2>4, <2>6, <3>1 DEF Tracked
  <2>8. \A m \in Tracked(session.files) :
           record.files[m].before = session.files[m].before
    BY <2>4, <2>6 DEF Tracked
  <2>9. SnapshotBytes(record.files) = SnapshotBytes(session.files)
    BY <2>5, <2>6, <2>7, <2>8, SnapshotSame
  <2>10. Fits(session)
    BY <1>3 DEF Bounded, session
  <2>11. Fits(record)
    BY <2>5, <2>7, <2>9, <2>10 DEF Fits
  <2>12. record.status = "Active" => sessions[s].status = "Active"
    BY <2>5 DEF session
  <2> QED BY <1>3, <1>4, <2>1, <2>11, <2>12, UpdateBounded
<1> QED BY <1>2, <1>5

(* Every step keeps the limits.                                           *)
LEMMA NextBounded ==
    StoreInv /\ Bounded(sessions) /\ [Next]_vars => Bounded(sessions')
<1> SUFFICES ASSUME StoreInv, Bounded(sessions), [Next]_vars
             PROVE  Bounded(sessions')
  OBVIOUS
<1>1. CASE UNCHANGED vars
  BY <1>1 DEF vars
<1>2. ASSUME NEW r \in Requests, Arrive(r) PROVE sessions' = sessions
  BY <1>2 DEF Arrive, EditPlan, Checkpoint, Refresh, Rollback
<1>3. ASSUME NEW r \in Requests, CaptureItem(r) PROVE Bounded(sessions')
  <2>0. PICK item, s, w : /\ item = req[r].plan[req[r].k + 1]
                          /\ s = req[r].sess /\ w = req[r].ws
    OBVIOUS
  <2>1. /\ req[r].pc = "capture"
        /\ CanCapture(s, w, item.name, item.original)
        /\ sessions' = [sessions EXCEPT ![s] =
                          Captured(sessions[s], item.name, item.original,
                                   item.updated)]
    BY <1>3, <2>0 DEF CaptureItem
  <2>2. item \in Item
    BY <2>0, <2>1, PhaseFacts
  <2>3. /\ item.name \in Names /\ item.original \in Contents
        /\ item.updated \in Contents
    BY <2>2, NamesAssumption DEF Item
  <2> QED BY <2>1, <2>3, CaptureBounded
<1>4. ASSUME NEW r \in Requests, CheckpointCapture(r) PROVE Bounded(sessions')
  <2>0. PICK n, c, s, w : /\ n = req[r].names[req[r].k + 1]
                          /\ c = req[r].seen /\ s = req[r].sess
                          /\ w = req[r].ws
    OBVIOUS
  <2>1. /\ req[r].pc = "checkpoint"
        /\ \/ /\ CanCapture(s, w, n, c)
              /\ sessions' = [sessions EXCEPT ![s] =
                                Captured(sessions[s], n, c, c)]
           \/ sessions' = sessions
    BY <1>4, <2>0 DEF CheckpointCapture
  <2>2. n \in Names /\ c \in Contents
    BY <2>0, <2>1, PhaseFacts DEF StoreInv, RequestOK, PhaseOK
  <2> QED BY <2>1, <2>2, CaptureBounded
<1>5. ASSUME NEW r \in Requests, RollbackCommit(r) PROVE Bounded(sessions')
  <2>0. PICK s : s = req[r].sess
    OBVIOUS
  <2>1. /\ req[r].pc = "commit"
        /\ sessions' = [sessions EXCEPT ![s].status = "RolledBack"]
    BY <1>5, <2>0 DEF RollbackCommit
  <2>2. s \in DOMAIN sessions
    BY <2>0, <2>1 DEF StoreInv, RequestOK, PhaseOK
  <2> QED BY <2>1, <2>2, SettleBounded
<1>6. ASSUME NEW s \in DOMAIN sessions, Finalize(s) PROVE Bounded(sessions')
  BY <1>6, SettleBounded DEF Finalize
<1>7. ASSUME NEW w \in Workspaces, CreateSession(w) PROVE Bounded(sessions')
  <2>1. /\ sessions' = Append(sessions, NewSession(w))
        /\ sessions \in Seq(SessionRecord)
        /\ Cardinality(ActiveIn(sessions)) < MaxSessions
    BY <1>7 DEF CreateSession, StoreInv, TypeOK, ActiveIn, ActiveSessions
  <2> QED BY <2>1, AppendBounded
<1>8. CASE Restart
  <2>1. sessions' = <<>> /\ DOMAIN sessions' = {}
    BY <1>8 DEF Restart
  <2> QED BY <2>1, EmptyBounded
<1>9. ASSUME NEW r \in Requests, Step(r) \/ Disconnect(r)
      PROVE  Bounded(sessions')
  <2>1. CASE PreflightItem(r) \/ PreflightRefused(r) \/ CaptureRefused(r)
             \/ WriteItem(r) \/ WriteFails(r) \/ CheckpointRead(r)
             \/ RollbackVerify(r) \/ RollbackRefused(r) \/ RollbackWrite(r)
             \/ Disconnect(r)
    <3>1. sessions' = sessions
      BY <2>1 DEF PreflightItem, PreflightRefused, CaptureRefused, WriteItem,
         WriteFails, CheckpointRead, RollbackVerify, RollbackRefused,
         RollbackWrite, Disconnect
    <3> QED BY <3>1
  <2> QED BY <1>3, <1>4, <1>5, <1>9, <2>1, RefreshBounded DEF Step
<1>10. CASE OutsideNext
  BY <1>10 DEF OutsideNext, OutsideWrite
<1> QED BY <1>1, <1>2, <1>6, <1>7, <1>8, <1>9, <1>10
        DEF Next, TuxBridgeNext

(* The bounds of the store hold, and the byte counter is exact: for every  *)
(* number of sessions, files and requests, a session's counter is the sum  *)
(* of the lengths of its before-images.                                    *)
THEOREM StoreIsBounded == Spec => []WithinLimits
<1>1. Init => Bounded(sessions)
  <2>1. Init => DOMAIN sessions = {}
    BY DEF Init
  <2> QED BY <2>1, EmptyBounded
<1>2. StoreInv /\ Bounded(sessions) /\ [Next]_vars => Bounded(sessions)'
  BY NextBounded
<1> QED BY <1>1, <1>2, StoreInvariant, BoundedIsLimits, PTL DEF Spec
=============================================================================
