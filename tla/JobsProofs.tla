----------------------------- MODULE JobsProofs -----------------------------
(***************************************************************************)
(* Proofs about Jobs, for every number of connections, every limit and     *)
(* every retention time.                                                   *)
(*                                                                         *)
(* The record of a job, its task and its child are three things that only  *)
(* the order of the steps keeps together.  JobInv says how: a job whose    *)
(* task is under way has a Running record, a job whose record has ended    *)
(* has a task that is done and a child that is not running, and a record   *)
(* without sender was asked to be cancelled or has ended.                  *)
(***************************************************************************)
EXTENDS Jobs, FiniteSetTheorems, TLAPS

(* A handler that has drawn an id is alone with it; after the insertion    *)
(* its record is Running and nothing works on it.                          *)
StarterInv ==
    /\ \A r \in Starters : starter[r].pc = "insert" =>
         /\ starter[r].id \in Ids
         /\ starter[r].id \notin DOMAIN jobs
         /\ task[starter[r].id] = "none"
    /\ \A r \in Starters : starter[r].pc = "announce" =>
         /\ starter[r].id \in Ids
         /\ starter[r].id \in DOMAIN jobs
         /\ jobs[starter[r].id].status = "Running"
         /\ task[starter[r].id] = "none"
    /\ \A r, q \in Starters :
         r # q /\ starter[r].pc # "idle" /\ starter[q].pc # "idle" =>
           starter[r].id # starter[q].id
    /\ \A id \in Ids : id > issued => task[id] = "none"

TaskInv ==
    \A id \in Ids :
      /\ task[id] \in {"launch", "wait", "kill", "drain", "finish"} =>
           id \in DOMAIN jobs /\ jobs[id].status = "Running"
      /\ task[id] \notin {"wait", "kill"} => child[id] # "running"
      /\ outcome[id] = "Cancelled" => id \in asked

RecordInv ==
    \A id \in DOMAIN jobs :
      /\ jobs[id].status # "Running" => task[id] = "done"
      /\ jobs[id].status = "Cancelled" => id \in asked
      /\ jobs[id].status = "Running" /\ ~jobs[id].cancel => id \in asked

JobInv == TypeOK /\ StarterInv /\ TaskInv /\ RecordInv /\ StoreBounded

-----------------------------------------------------------------------------
(* Pruning                                                                 *)

(* Pruning removes records that ended long ago and changes none.           *)
LEMMA PrunedFacts ==
    ASSUME TypeOK
    PROVE  /\ DOMAIN Pruned \subseteq DOMAIN jobs
           /\ \A id \in DOMAIN Pruned : Pruned[id] = jobs[id]
           /\ \A id \in DOMAIN jobs : jobs[id].status = "Running" =>
                id \in DOMAIN Pruned
           /\ \A id \in DOMAIN jobs \ DOMAIN Pruned :
                /\ jobs[id].status # "Running"
                /\ Retention > 0 /\ now > jobs[id].finished + Retention
<1>1. Pruned = [id \in {i \in DOMAIN jobs : Kept(i)} |-> jobs[id]]
  BY DEF Pruned, Restrict
<1>2. \A id \in DOMAIN jobs : jobs[id].finished \in Nat
  BY DEF TypeOK, JobRecord
<1>3. now \in Nat
  BY LimitsAssumption DEF TypeOK
<1> QED
  BY <1>1, <1>2, <1>3, LimitsAssumption DEF Kept

(* A store with some records removed holds no more.                        *)
LEMMA SmallerStore ==
    ASSUME TypeOK, StoreBounded, NEW S, S \subseteq DOMAIN jobs
    PROVE  IsFiniteSet(S) /\ Cardinality(S) <= MaxJobs
<1>1. issued \in Nat
  BY LimitsAssumption DEF TypeOK
<1>2. IsFiniteSet(1..issued)
  BY <1>1, FS_Interval
<1>3. IsFiniteSet(DOMAIN jobs)
  BY <1>2, FS_Subset DEF TypeOK
<1>4. /\ IsFiniteSet(S) /\ Cardinality(S) <= Cardinality(DOMAIN jobs)
      /\ Cardinality(S) \in Nat /\ Cardinality(DOMAIN jobs) \in Nat
  BY <1>3, FS_Subset, FS_CardinalityType
<1> QED
  BY <1>4, LimitsAssumption DEF StoreBounded

-----------------------------------------------------------------------------
(* One lemma per action, or for actions that touch the same variables.     *)

LEMMA InitInv == Init => JobInv
<1> SUFFICES ASSUME Init PROVE JobInv
  OBVIOUS
<1>1. DOMAIN jobs = {}
  BY DEF Init
<1>2. TypeOK
  BY <1>1, LimitsAssumption
     DEF Init, TypeOK, Idle, TaskPhase, Outcome, ChildState, Holder
<1>3. StarterInv
  BY <1>1 DEF Init, StarterInv, Idle
<1>4. TaskInv /\ RecordInv
  BY <1>1 DEF Init, TaskInv, RecordInv
<1>5. StoreBounded
  BY <1>1, FS_EmptySet, LimitsAssumption DEF StoreBounded
<1> QED
  BY <1>2, <1>3, <1>4, <1>5 DEF JobInv

(* The records are all there and unchanged, or some that ended are gone.   *)
LEMMA FewerRecords ==
    ASSUME JobInv, jobs' = Pruned,
           UNCHANGED <<now, issued, starter, task, outcome, child, pipes, asked>>
    PROVE  JobInv'
<1>1. /\ TypeOK
      /\ DOMAIN jobs' \subseteq DOMAIN jobs
      /\ \A id \in DOMAIN jobs' : jobs'[id] = jobs[id]
      /\ \A id \in DOMAIN jobs : jobs[id].status = "Running" => id \in DOMAIN jobs'
  BY PrunedFacts DEF JobInv
<1>2. TypeOK'
  BY <1>1 DEF TypeOK
<1>3. StarterInv'
  BY <1>1 DEF JobInv, StarterInv
<1>4. TaskInv' /\ RecordInv'
  BY <1>1 DEF JobInv, TaskInv, RecordInv
<1>5. StoreBounded'
  BY <1>1, SmallerStore DEF JobInv, StoreBounded
<1> QED
  BY <1>2, <1>3, <1>4, <1>5 DEF JobInv

LEMMA StartInv ==
    ASSUME JobInv, NEW r \in Starters, Start(r)
    PROVE  JobInv'
<1> DEFINE new == issued + 1
<1>1. /\ starter[r].pc = "idle" /\ issued < IdBound /\ issued' = new
      /\ starter' = [starter EXCEPT ![r] = [pc |-> "insert", id |-> new]]
      /\ UNCHANGED <<now, jobs, task, outcome, child, pipes, asked>>
  BY DEF Start
<1>2. TypeOK /\ issued \in Nat /\ new \in Ids
  BY <1>1, LimitsAssumption DEF JobInv, TypeOK, Ids
<1>3. starter \in
        [Starters -> [pc : {"idle", "insert", "announce"}, id : 0..issued]]
  BY <1>2 DEF TypeOK
<1>4. /\ starter'[r] = [pc |-> "insert", id |-> new]
      /\ \A q \in Starters \ {r} : starter'[q] = starter[q]
      /\ \A q \in Starters : starter[q].id # new
  BY <1>1, <1>2, <1>3
<1>5. [pc |-> "insert", id |-> new] \in
        [pc : {"idle", "insert", "announce"}, id : 0..issued']
  BY <1>1, <1>2
<1>6. \A q \in Starters : starter[q] \in
        [pc : {"idle", "insert", "announce"}, id : 0..issued']
  BY <1>1, <1>2, <1>3
<1>7. starter' \in
        [Starters -> [pc : {"idle", "insert", "announce"}, id : 0..issued']]
  BY <1>1, <1>3, <1>5, <1>6
<1>8. new \notin DOMAIN jobs /\ task[new] = "none"
  BY <1>2 DEF JobInv, TypeOK, StarterInv
<1>9. TypeOK'
  BY <1>1, <1>2, <1>7 DEF TypeOK, Ids
<1>10. StarterInv'
  <2>1. \A q \in Starters : starter'[q].pc = "insert" =>
         /\ starter'[q].id \in Ids
         /\ starter'[q].id \notin DOMAIN jobs
         /\ task[starter'[q].id] = "none"
    BY <1>2, <1>4, <1>8 DEF JobInv, StarterInv
  <2>2. \A q \in Starters : starter'[q].pc = "announce" =>
         /\ starter'[q].id \in Ids
         /\ starter'[q].id \in DOMAIN jobs
         /\ jobs[starter'[q].id].status = "Running"
         /\ task[starter'[q].id] = "none"
    BY <1>4 DEF JobInv, StarterInv
  <2>3. \A p, q \in Starters :
         p # q /\ starter'[p].pc # "idle" /\ starter'[q].pc # "idle" =>
           starter'[p].id # starter'[q].id
    BY <1>4 DEF JobInv, StarterInv
  <2>4. \A id \in Ids : id > issued' => task[id] = "none"
    BY <1>1, <1>2 DEF JobInv, StarterInv, Ids
  <2> QED
    BY <1>1, <2>1, <2>2, <2>3, <2>4 DEF StarterInv
<1>11. TaskInv' /\ RecordInv' /\ StoreBounded'
  BY <1>1 DEF JobInv, TaskInv, RecordInv, StoreBounded
<1> QED
  BY <1>9, <1>10, <1>11 DEF JobInv

LEMMA InsertInv ==
    ASSUME JobInv, NEW r \in Starters, Insert(r)
    PROVE  JobInv'
<1> DEFINE new == starter[r].id
<1>1. /\ starter[r].pc = "insert" /\ Room
      /\ jobs' = [i \in DOMAIN Pruned \cup {new} |->
                    IF i = new THEN NewRecord ELSE Pruned[i]]
      /\ starter' = [starter EXCEPT ![r].pc = "announce"]
      /\ UNCHANGED <<now, issued, task, outcome, child, pipes, asked>>
  BY DEF Insert
<1>2. TypeOK
  BY DEF JobInv
<1>3. /\ DOMAIN Pruned \subseteq DOMAIN jobs
      /\ \A id \in DOMAIN Pruned : Pruned[id] = jobs[id]
      /\ \A id \in DOMAIN jobs : jobs[id].status = "Running" =>
           id \in DOMAIN Pruned
  BY <1>2, PrunedFacts
<1>4. starter \in
        [Starters -> [pc : {"idle", "insert", "announce"}, id : 0..issued]]
  BY <1>2 DEF TypeOK
<1>5. /\ new \in Ids /\ new \notin DOMAIN jobs /\ task[new] = "none"
      /\ new \in 1..issued
  <2>1. new \in Ids /\ new \notin DOMAIN jobs /\ task[new] = "none"
    BY <1>1 DEF JobInv, StarterInv
  <2>2. new \in 0..issued
    BY <1>4
  <2> QED
    BY <2>1, <2>2, <1>2, LimitsAssumption DEF Ids, TypeOK
<1> HIDE DEF new
<1>6. /\ DOMAIN jobs' = DOMAIN Pruned \cup {new}
      /\ jobs'[new] = NewRecord
      /\ \A id \in DOMAIN jobs' \ {new} :
           id \in DOMAIN jobs /\ jobs'[id] = jobs[id]
      /\ \A id \in DOMAIN jobs : jobs[id].status = "Running" =>
           id \in DOMAIN jobs' /\ jobs'[id] = jobs[id]
  BY <1>1, <1>3, <1>5
<1>7. NewRecord \in JobRecord /\ NewRecord.status = "Running" /\ NewRecord.cancel
  BY DEF NewRecord, JobRecord, JobStatus
<1>8. /\ starter'[r].pc = "announce" /\ starter'[r].id = new
      /\ \A q \in Starters \ {r} : starter'[q] = starter[q]
  BY <1>1, <1>4 DEF new
<1>9. starter' \in
        [Starters -> [pc : {"idle", "insert", "announce"}, id : 0..issued]]
  BY <1>1, <1>4
<1>10. \A q \in Starters \ {r} : starter[q].pc # "idle" => starter[q].id # new
  BY <1>1 DEF JobInv, StarterInv, new
<1>11. TypeOK'
  <2>1. \A id \in DOMAIN jobs' :
          jobs'[id] \in JobRecord /\ (jobs'[id].cancel => jobs'[id].status = "Running")
    BY <1>2, <1>6, <1>7 DEF TypeOK
  <2>2. DOMAIN jobs' \subseteq 1..issued
    BY <1>2, <1>3, <1>5, <1>6 DEF TypeOK
  <2> QED
    BY <1>1, <1>2, <1>9, <2>1, <2>2 DEF TypeOK
<1>12. StarterInv'
  <2>1. \A q \in Starters : starter'[q].pc = "insert" =>
         /\ starter'[q].id \in Ids
         /\ starter'[q].id \notin DOMAIN jobs'
         /\ task[starter'[q].id] = "none"
    BY <1>6, <1>8, <1>10 DEF JobInv, StarterInv
  <2>2. \A q \in Starters : starter'[q].pc = "announce" =>
         /\ starter'[q].id \in Ids
         /\ starter'[q].id \in DOMAIN jobs'
         /\ jobs'[starter'[q].id].status = "Running"
         /\ task[starter'[q].id] = "none"
    BY <1>5, <1>6, <1>7, <1>8 DEF JobInv, StarterInv
  <2>3. \A p, q \in Starters :
         p # q /\ starter'[p].pc # "idle" /\ starter'[q].pc # "idle" =>
           starter'[p].id # starter'[q].id
    BY <1>8, <1>10 DEF JobInv, StarterInv
  <2>4. \A id \in Ids : id > issued => task[id] = "none"
    BY DEF JobInv, StarterInv
  <2> QED
    BY <1>1, <2>1, <2>2, <2>3, <2>4 DEF StarterInv
<1>13. TaskInv'
  BY <1>1, <1>6 DEF JobInv, TaskInv
<1>14. RecordInv'
  <2> SUFFICES ASSUME NEW id \in DOMAIN jobs'
               PROVE  /\ jobs'[id].status # "Running" => task[id] = "done"
                      /\ jobs'[id].status = "Cancelled" => id \in asked
                      /\ jobs'[id].status = "Running" /\ ~jobs'[id].cancel =>
                           id \in asked
    BY <1>1 DEF RecordInv
  <2>1. CASE id = new
    <3>1. jobs'[id].status = "Running" /\ jobs'[id].cancel
      BY <1>6, <1>7, <2>1
    <3> QED
      BY <3>1
  <2>2. CASE id # new
    BY <1>6, <2>2 DEF JobInv, RecordInv
  <2> QED
    BY <2>1, <2>2
<1>15. StoreBounded'
  <2>1. IsFiniteSet(DOMAIN Pruned) /\ new \notin DOMAIN Pruned
    BY <1>2, <1>3, <1>5, SmallerStore DEF JobInv
  <2>2. Cardinality(DOMAIN jobs') = Cardinality(DOMAIN Pruned) + 1
    BY <1>6, <2>1, FS_AddElement
  <2>3. Cardinality(DOMAIN Pruned) < MaxJobs /\ Cardinality(DOMAIN Pruned) \in Nat
    BY <1>1, <2>1, FS_CardinalityType DEF Room
  <2> QED
    BY <2>2, <2>3, LimitsAssumption DEF StoreBounded
<1> QED
  BY <1>11, <1>12, <1>13, <1>14, <1>15 DEF JobInv

(* A handler that ends leaves the rest as it is.                           *)
LEMMA StarterEnds ==
    ASSUME JobInv, NEW r \in Starters,
           starter' = [starter EXCEPT ![r] = Idle],
           UNCHANGED <<now, issued, jobs, task, outcome, child, pipes, asked>>
    PROVE  JobInv'
<1>1. TypeOK /\ Idle \in [pc : {"idle", "insert", "announce"}, id : 0..issued]
  BY LimitsAssumption DEF JobInv, TypeOK, Idle
<1>2. /\ starter' \in
           [Starters -> [pc : {"idle", "insert", "announce"}, id : 0..issued]]
      /\ starter'[r].pc = "idle"
      /\ \A q \in Starters \ {r} : starter'[q] = starter[q]
  BY <1>1 DEF TypeOK, Idle
<1>3. TypeOK'
  BY <1>1, <1>2 DEF TypeOK
<1>4. StarterInv'
  BY <1>2 DEF JobInv, StarterInv
<1>5. TaskInv' /\ RecordInv' /\ StoreBounded'
  BY DEF JobInv, TaskInv, RecordInv, StoreBounded
<1> QED
  BY <1>3, <1>4, <1>5 DEF JobInv

(* A refused insertion prunes the store and ends the handler.              *)
LEMMA RefusedInv ==
    ASSUME JobInv, NEW r \in Starters, InsertRefused(r)
    PROVE  JobInv'
<1>1. /\ jobs' = Pruned
      /\ starter' = [starter EXCEPT ![r] = Idle]
      /\ UNCHANGED <<now, issued, task, outcome, child, pipes, asked>>
  BY DEF InsertRefused
<1>2. /\ TypeOK
      /\ DOMAIN jobs' \subseteq DOMAIN jobs
      /\ \A id \in DOMAIN jobs' : jobs'[id] = jobs[id]
      /\ \A id \in DOMAIN jobs : jobs[id].status = "Running" => id \in DOMAIN jobs'
  BY <1>1, PrunedFacts DEF JobInv
<1>3. Idle \in [pc : {"idle", "insert", "announce"}, id : 0..issued]
  BY <1>2, LimitsAssumption DEF TypeOK, Idle
<1>4. /\ starter' \in
           [Starters -> [pc : {"idle", "insert", "announce"}, id : 0..issued]]
      /\ starter'[r].pc = "idle"
      /\ \A q \in Starters \ {r} : starter'[q] = starter[q]
  BY <1>1, <1>2, <1>3 DEF TypeOK, Idle
<1>5. TypeOK'
  BY <1>1, <1>2, <1>4 DEF TypeOK
<1>6. StarterInv'
  BY <1>1, <1>2, <1>4 DEF JobInv, StarterInv
<1>7. TaskInv' /\ RecordInv'
  BY <1>1, <1>2 DEF JobInv, TaskInv, RecordInv
<1>8. StoreBounded'
  BY <1>2, SmallerStore DEF JobInv, StoreBounded
<1> QED
  BY <1>5, <1>6, <1>7, <1>8 DEF JobInv

LEMMA SpawnInv ==
    ASSUME JobInv, NEW r \in Starters, Spawn(r)
    PROVE  JobInv'
<1> DEFINE new == starter[r].id
<1>1. /\ starter[r].pc = "announce"
      /\ task' = [task EXCEPT ![new] = "launch"]
      /\ starter' = [starter EXCEPT ![r] = Idle]
      /\ UNCHANGED <<now, issued, jobs, outcome, child, pipes, asked>>
  BY DEF Spawn
<1>2. TypeOK /\ Idle \in [pc : {"idle", "insert", "announce"}, id : 0..issued]
  BY LimitsAssumption DEF JobInv, TypeOK, Idle
<1>3. /\ starter' \in
           [Starters -> [pc : {"idle", "insert", "announce"}, id : 0..issued]]
      /\ starter'[r].pc = "idle"
      /\ \A q \in Starters \ {r} : starter'[q] = starter[q]
  BY <1>1, <1>2 DEF TypeOK, Idle
<1>4. /\ new \in Ids /\ new \in DOMAIN jobs /\ task[new] = "none"
      /\ jobs[new].status = "Running"
  BY <1>1 DEF JobInv, StarterInv
<1>5. \A q \in Starters \ {r} : starter[q].pc # "idle" => starter[q].id # new
  BY <1>1 DEF JobInv, StarterInv
<1>6. new <= issued
  BY <1>2, <1>4, LimitsAssumption DEF TypeOK, Ids
<1> HIDE DEF new
<1>7. /\ task' \in [Ids -> TaskPhase]
      /\ task'[new] = "launch"
      /\ \A id \in Ids \ {new} : task'[id] = task[id]
  BY <1>1, <1>2, <1>4 DEF TypeOK, TaskPhase
<1>8. TypeOK'
  BY <1>1, <1>2, <1>3, <1>7 DEF TypeOK
<1>9. StarterInv'
  <2>1. \A q \in Starters : starter'[q].pc = "insert" =>
         /\ starter'[q].id \in Ids
         /\ starter'[q].id \notin DOMAIN jobs
         /\ task'[starter'[q].id] = "none"
    BY <1>3, <1>5, <1>7 DEF JobInv, StarterInv
  <2>2. \A q \in Starters : starter'[q].pc = "announce" =>
         /\ starter'[q].id \in Ids
         /\ starter'[q].id \in DOMAIN jobs
         /\ jobs[starter'[q].id].status = "Running"
         /\ task'[starter'[q].id] = "none"
    BY <1>3, <1>5, <1>7 DEF JobInv, StarterInv
  <2>3. \A p, q \in Starters :
         p # q /\ starter'[p].pc # "idle" /\ starter'[q].pc # "idle" =>
           starter'[p].id # starter'[q].id
    BY <1>3 DEF JobInv, StarterInv
  <2>4. \A id \in Ids : id > issued => task'[id] = "none"
    BY <1>2, <1>4, <1>6, <1>7, LimitsAssumption
       DEF JobInv, StarterInv, Ids, TypeOK
  <2> QED
    BY <1>1, <2>1, <2>2, <2>3, <2>4 DEF StarterInv
<1>10. TaskInv'
  BY <1>1, <1>4, <1>7 DEF JobInv, TaskInv
<1>11. RecordInv'
  <2> SUFFICES ASSUME NEW id \in DOMAIN jobs, jobs[id].status # "Running"
               PROVE  task'[id] = "done"
    BY <1>1 DEF JobInv, RecordInv
  <2>1. id \in Ids /\ id # new
    BY <1>2, <1>4, LimitsAssumption DEF TypeOK, Ids
  <2> QED
    BY <1>7, <2>1 DEF JobInv, RecordInv
<1>12. StoreBounded'
  BY <1>1 DEF JobInv, StoreBounded
<1> QED
  BY <1>8, <1>9, <1>10, <1>11, <1>12 DEF JobInv

(* A step of a task that leaves the records alone.                         *)
LEMMA TaskStep ==
    ASSUME JobInv, NEW id \in Ids, NEW phase \in TaskPhase, NEW o \in Outcome,
           task[id] \in {"launch", "wait", "kill", "drain"},
           phase \in {"wait", "kill", "drain", "finish"},
           task' = [task EXCEPT ![id] = phase],
           outcome' = [outcome EXCEPT ![id] = o],
           child' \in [Ids -> ChildState],
           \A i \in Ids \ {id} : child'[i] = child[i],
           phase \in {"drain", "finish"} => child'[id] # "running",
           pipes' \in [Ids -> SUBSET Holder],
           o = "Cancelled" => id \in asked,
           UNCHANGED <<now, issued, jobs, starter, asked>>
    PROVE  JobInv'
<1>1. TypeOK
  BY DEF JobInv
<1>2. /\ task' \in [Ids -> TaskPhase] /\ task'[id] = phase
      /\ \A i \in Ids \ {id} : task'[i] = task[i]
  BY <1>1 DEF TypeOK
<1>3. /\ outcome' \in [Ids -> Outcome] /\ outcome'[id] = o
      /\ \A i \in Ids \ {id} : outcome'[i] = outcome[i]
  BY <1>1 DEF TypeOK
<1>4. TypeOK'
  BY <1>1, <1>2, <1>3 DEF TypeOK
<1>5. StarterInv'
  BY <1>2 DEF JobInv, StarterInv
<1>6. TaskInv'
  <2> SUFFICES ASSUME NEW i \in Ids
               PROVE  /\ task'[i] \in {"launch", "wait", "kill", "drain", "finish"} =>
                           i \in DOMAIN jobs /\ jobs[i].status = "Running"
                      /\ task'[i] \notin {"wait", "kill"} => child'[i] # "running"
                      /\ outcome'[i] = "Cancelled" => i \in asked
    BY DEF TaskInv
  <2>1. CASE i = id
    BY <1>2, <1>3, <2>1 DEF JobInv, TaskInv
  <2>2. CASE i # id
    BY <1>2, <1>3, <2>2 DEF JobInv, TaskInv
  <2> QED
    BY <2>1, <2>2
<1>7. RecordInv'
  <2> SUFFICES ASSUME NEW i \in DOMAIN jobs, jobs[i].status # "Running"
               PROVE  task'[i] = "done"
    BY DEF JobInv, RecordInv
  <2>1. task[i] = "done" /\ i \in Ids
    BY <1>1, LimitsAssumption DEF JobInv, RecordInv, TypeOK, Ids
  <2> QED
    BY <1>2, <2>1
<1>8. StoreBounded'
  BY DEF JobInv, StoreBounded
<1> QED
  BY <1>4, <1>5, <1>6, <1>7, <1>8 DEF JobInv

(* A task whose cancellation channel resolves was asked to end.            *)
LEMMA SenderGone ==
    ASSUME JobInv, NEW id \in Ids, CancelSeen(id)
    PROVE  id \in asked
<1>1. id \in DOMAIN jobs /\ jobs[id].status = "Running"
  BY DEF JobInv, TaskInv, CancelSeen
<1> QED
  BY <1>1 DEF JobInv, RecordInv, CancelSeen

LEMMA WorkInv ==
    ASSUME JobInv, NEW id \in Ids, Work(id), ~Finish(id)
    PROVE  JobInv'
<1>1. /\ child \in [Ids -> ChildState] /\ pipes \in [Ids -> SUBSET Holder]
      /\ outcome \in [Ids -> Outcome] /\ outcome[id] \in Outcome
      /\ outcome = [outcome EXCEPT ![id] = outcome[id]]
  BY DEF JobInv, TypeOK
<1>2. outcome[id] = "Cancelled" => id \in asked
  BY DEF JobInv, TaskInv
<1>3. CASE Launch(id)
  <2>1. /\ child' \in [Ids -> ChildState]
        /\ \A i \in Ids \ {id} : child'[i] = child[i]
        /\ pipes' \in [Ids -> SUBSET Holder]
    BY <1>1, <1>3 DEF Launch, ChildState, Holder
  <2> QED
    BY <1>1, <1>2, <1>3, <2>1, TaskStep DEF Launch, TaskPhase
<1>4. CASE LaunchFails(id)
  <2>1. child[id] # "running"
    BY <1>4 DEF LaunchFails, JobInv, TaskInv
  <2> QED
    BY <1>1, <1>4, <2>1, TaskStep DEF LaunchFails, Becomes, TaskPhase, Outcome
<1>5. CASE Exited(id)
  <2> DEFINE o == IF child[id] = "ok" THEN "Completed" ELSE "Failed"
  <2>1. o \in Outcome /\ o # "Cancelled"
    BY DEF Outcome
  <2>2. /\ task[id] = "wait" /\ child[id] # "running"
        /\ task' = [task EXCEPT ![id] = "drain"]
        /\ outcome' = [outcome EXCEPT ![id] = o]
        /\ UNCHANGED <<now, issued, jobs, starter, child, pipes, asked>>
    BY <1>5 DEF Exited, Becomes
  <2> HIDE DEF o
  <2> QED
    BY <1>1, <2>1, <2>2, TaskStep DEF TaskPhase
<1>6. CASE TimesOut(id)
  BY <1>1, <1>6, TaskStep DEF TimesOut, Becomes, TaskPhase, Outcome
<1>7. CASE CancelSeen(id)
  <2>1. id \in asked
    BY <1>7, SenderGone
  <2> QED
    BY <1>1, <1>7, <2>1, TaskStep DEF CancelSeen, Becomes, TaskPhase, Outcome
<1>8. CASE Kill(id)
  <2>1. /\ child' \in [Ids -> ChildState]
        /\ \A i \in Ids \ {id} : child'[i] = child[i]
        /\ child'[id] # "running"
        /\ pipes' \in [Ids -> SUBSET Holder]
    BY <1>1, <1>8 DEF Kill, ChildState, Holder
  <2> QED
    BY <1>1, <1>2, <1>8, <2>1, TaskStep DEF Kill, TaskPhase
<1>9. CASE Drained(id)
  <2>1. child[id] # "running"
    BY <1>9 DEF Drained, JobInv, TaskInv
  <2> QED
    BY <1>1, <1>2, <1>9, <2>1, TaskStep DEF Drained, TaskPhase
<1> QED
  BY <1>3, <1>4, <1>5, <1>6, <1>7, <1>8, <1>9 DEF Work

LEMMA FinishInv ==
    ASSUME JobInv, NEW id \in Ids, Finish(id)
    PROVE  JobInv'
<1>1. TypeOK /\ id \in DOMAIN jobs /\ jobs[id].status = "Running"
  BY DEF JobInv, TaskInv, Finish
<1>2. /\ task[id] = "finish"
      /\ task' = [task EXCEPT ![id] = "done"]
      /\ jobs' = [jobs EXCEPT ![id] = FinalRecord(id)]
      /\ UNCHANGED <<now, issued, starter, outcome, child, pipes, asked>>
  BY <1>1 DEF Finish
<1>3. /\ task' \in [Ids -> TaskPhase] /\ task'[id] = "done"
      /\ \A i \in Ids \ {id} : task'[i] = task[i]
  BY <1>1, <1>2 DEF TypeOK, TaskPhase
<1>4. jobs[id] \in JobRecord /\ outcome[id] \in Outcome /\ now \in Nat
  BY <1>1, LimitsAssumption DEF TypeOK
<1>5. /\ FinalRecord(id).status = outcome[id]
      /\ FinalRecord(id).cancel = FALSE
      /\ FinalRecord(id) \in JobRecord
  BY <1>4 DEF FinalRecord, JobRecord, JobStatus
<1>6. outcome[id] # "Running"
  BY <1>4 DEF Outcome
<1>7. /\ DOMAIN jobs' = DOMAIN jobs
      /\ jobs'[id] = FinalRecord(id)
      /\ \A i \in DOMAIN jobs \ {id} : jobs'[i] = jobs[i]
  BY <1>1, <1>2
<1>8. TypeOK'
  <2>1. \A i \in DOMAIN jobs' :
          jobs'[i] \in JobRecord /\ (jobs'[i].cancel => jobs'[i].status = "Running")
    BY <1>1, <1>5, <1>7 DEF TypeOK
  <2> QED
    BY <1>1, <1>2, <1>3, <1>7, <2>1 DEF TypeOK
<1>9. StarterInv'
  <2>1. \A q \in Starters : starter[q].pc \in {"insert", "announce"} =>
          starter[q].id # id
    BY <1>2 DEF JobInv, StarterInv
  <2>2. id <= issued
    BY <1>1, LimitsAssumption DEF TypeOK
  <2>3. \A i \in Ids : i > issued => i # id
    BY <1>1, <2>2, LimitsAssumption DEF TypeOK, Ids
  <2> QED
    BY <1>2, <1>3, <1>7, <2>1, <2>3 DEF JobInv, StarterInv
<1>10. TaskInv'
  BY <1>2, <1>3, <1>7 DEF JobInv, TaskInv
<1>11. RecordInv'
  <2> SUFFICES ASSUME NEW i \in DOMAIN jobs'
               PROVE  /\ jobs'[i].status # "Running" => task'[i] = "done"
                      /\ jobs'[i].status = "Cancelled" => i \in asked
                      /\ jobs'[i].status = "Running" /\ ~jobs'[i].cancel => i \in asked
    BY <1>2 DEF RecordInv
  <2>1. CASE i = id
    BY <1>3, <1>5, <1>6, <1>7, <2>1 DEF JobInv, TaskInv
  <2>2. CASE i # id
    <3>1. i \in Ids
      BY <1>1, <1>7, LimitsAssumption DEF TypeOK, Ids
    <3> QED
      BY <1>3, <1>7, <2>2, <3>1 DEF JobInv, RecordInv
  <2> QED
    BY <2>1, <2>2
<1>12. StoreBounded'
  BY <1>7 DEF JobInv, StoreBounded
<1> QED
  BY <1>8, <1>9, <1>10, <1>11, <1>12 DEF JobInv

LEMMA CancelInv ==
    ASSUME JobInv, NEW id \in Ids, Cancel(id)
    PROVE  JobInv'
<1>1. /\ id \in DOMAIN Pruned /\ jobs[id].status = "Running"
      /\ jobs' = [Pruned EXCEPT ![id] = CancelRecord(@)]
      /\ asked' = asked \cup {id}
      /\ UNCHANGED <<now, issued, starter, task, outcome, child, pipes>>
  BY DEF Cancel
<1>2. /\ TypeOK
      /\ DOMAIN Pruned \subseteq DOMAIN jobs
      /\ \A i \in DOMAIN Pruned : Pruned[i] = jobs[i]
      /\ \A i \in DOMAIN jobs : jobs[i].status = "Running" => i \in DOMAIN Pruned
  BY PrunedFacts DEF JobInv
<1>3. jobs[id] \in JobRecord
  BY <1>1, <1>2 DEF TypeOK
<1>4. /\ CancelRecord(jobs[id]) \in JobRecord
      /\ CancelRecord(jobs[id]).status = "Running"
      /\ CancelRecord(jobs[id]).cancel = FALSE
  BY <1>1, <1>3 DEF CancelRecord, JobRecord
<1>5. /\ DOMAIN jobs' = DOMAIN Pruned
      /\ jobs'[id] = CancelRecord(jobs[id])
      /\ \A i \in DOMAIN jobs' \ {id} : jobs'[i] = jobs[i]
  BY <1>1, <1>2
<1>6. \A i \in DOMAIN jobs : jobs[i].status = "Running" =>
         i \in DOMAIN jobs' /\ jobs'[i].status = "Running"
  BY <1>2, <1>4, <1>5
<1>7. TypeOK'
  <2>1. \A i \in DOMAIN jobs' :
          jobs'[i] \in JobRecord /\ (jobs'[i].cancel => jobs'[i].status = "Running")
    BY <1>2, <1>4, <1>5 DEF TypeOK
  <2> QED
    BY <1>1, <1>2, <1>5, <2>1 DEF TypeOK
<1>8. StarterInv'
  BY <1>1, <1>2, <1>5, <1>6 DEF JobInv, StarterInv
<1>9. TaskInv'
  BY <1>1, <1>6 DEF JobInv, TaskInv
<1>10. RecordInv'
  <2> SUFFICES ASSUME NEW i \in DOMAIN jobs'
               PROVE  /\ jobs'[i].status # "Running" => task[i] = "done"
                      /\ jobs'[i].status = "Cancelled" => i \in asked'
                      /\ jobs'[i].status = "Running" /\ ~jobs'[i].cancel => i \in asked'
    BY <1>1 DEF RecordInv
  <2>1. CASE i = id
    BY <1>1, <1>4, <1>5, <2>1
  <2>2. CASE i # id
    BY <1>1, <1>2, <1>5, <2>2 DEF JobInv, RecordInv
  <2> QED
    BY <2>1, <2>2
<1>11. StoreBounded'
  BY <1>2, <1>5, SmallerStore DEF JobInv, StoreBounded
<1> QED
  BY <1>7, <1>8, <1>9, <1>10, <1>11 DEF JobInv

(* What the child and its descendants do, and the passing of time.         *)
LEMMA ProcessInv ==
    ASSUME JobInv, NEW id \in Ids, Process(id)
    PROVE  JobInv'
<1>1. /\ UNCHANGED <<now, issued, jobs, starter, task, outcome, asked>>
      /\ child' \in [Ids -> ChildState]
      /\ pipes' \in [Ids -> SUBSET Holder]
      /\ \A i \in Ids : child'[i] = "running" => child[i] = "running"
  BY DEF JobInv, TypeOK, Process, ChildEnds, ChildForks, Closes, ChildState, Holder
<1>2. TypeOK'
  BY <1>1 DEF JobInv, TypeOK
<1>3. StarterInv' /\ TaskInv' /\ RecordInv' /\ StoreBounded'
  BY <1>1 DEF JobInv, StarterInv, TaskInv, RecordInv, StoreBounded
<1> QED
  BY <1>2, <1>3 DEF JobInv

LEMMA TickInv == ASSUME JobInv, Tick PROVE JobInv'
<1>1. TypeOK'
  BY LimitsAssumption DEF JobInv, TypeOK, Tick
<1>2. StarterInv' /\ TaskInv' /\ RecordInv' /\ StoreBounded'
  BY DEF Tick, JobInv, StarterInv, TaskInv, RecordInv, StoreBounded
<1> QED
  BY <1>1, <1>2 DEF JobInv

-----------------------------------------------------------------------------
(* The invariant                                                           *)

LEMMA NextInv == JobInv /\ [Next]_vars => JobInv'
<1> SUFFICES ASSUME JobInv, [Next]_vars PROVE JobInv'
  OBVIOUS
<1>1. CASE UNCHANGED vars
  BY <1>1 DEF vars, JobInv, TypeOK, StarterInv, TaskInv, RecordInv, StoreBounded
<1>2. ASSUME NEW r \in Starters, Start(r) \/ Handle(r) \/ Disconnect(r)
      PROVE  JobInv'
  <2>1. CASE Start(r)
    BY <2>1, StartInv
  <2>2. CASE Insert(r)
    BY <2>2, InsertInv
  <2>3. CASE InsertRefused(r)
    BY <2>3, RefusedInv
  <2>4. CASE Spawn(r)
    BY <2>4, SpawnInv
  <2>5. CASE Disconnect(r)
    BY <2>5, StarterEnds DEF Disconnect
  <2> QED
    BY <1>2, <2>1, <2>2, <2>3, <2>4, <2>5 DEF Handle
<1>3. ASSUME NEW id \in Ids, Work(id) \/ Cancel(id) \/ Process(id)
      PROVE  JobInv'
  BY <1>3, WorkInv, FinishInv, CancelInv, ProcessInv
<1>4. CASE Look
  BY <1>4, FewerRecords DEF Look
<1>5. CASE Tick
  BY <1>5, TickInv
<1> QED
  BY <1>1, <1>2, <1>3, <1>4, <1>5 DEF Next

(* JobInv holds in every reachable state.                                  *)
THEOREM JobInvariant == Spec => []JobInv
<1>1. Init => JobInv
  BY InitInv
<1>2. JobInv /\ [Next]_vars => JobInv'
  BY NextInv
<1> QED
  BY <1>1, <1>2, PTL DEF Spec

(* The job store keeps its type: a record whose job has ended has no       *)
(* sender left.                                                            *)
THEOREM TypeCorrect == Spec => []TypeOK
<1>1. JobInv => TypeOK
  BY DEF JobInv
<1> QED
  BY <1>1, JobInvariant, PTL

(* The store never holds more than max_jobs records (JobStore::insert).    *)
THEOREM StoreStaysBounded == Spec => []StoreBounded
<1>1. JobInv => StoreBounded
  BY DEF JobInv
<1> QED
  BY <1>1, JobInvariant, PTL

(* A job that is reported as ended has no running child (execute_inner).   *)
THEOREM EndedChildrenAreDead == Spec => []EndedMeansDead
<1>1. JobInv => EndedMeansDead
  <2> SUFFICES ASSUME JobInv, NEW id \in DOMAIN jobs, jobs[id].status # "Running"
               PROVE  child[id] # "running"
    BY DEF EndedMeansDead
  <2>1. task[id] = "done" /\ id \in Ids
    BY LimitsAssumption DEF JobInv, RecordInv, TypeOK, Ids
  <2> QED
    BY <2>1 DEF JobInv, TaskInv
<1> QED
  BY <1>1, JobInvariant, PTL

(* A job is reported as cancelled only if a cancellation of it was         *)
(* accepted (JobStore::cancel, execute_inner).                             *)
THEOREM OnlyAskedAreCancelled == Spec => []CancelledWasAsked
<1>1. JobInv => CancelledWasAsked
  BY DEF JobInv, RecordInv, CancelledWasAsked
<1> QED
  BY <1>1, JobInvariant, PTL

(* An ended record stays as it is until it is pruned (JobStore::finish,    *)
(* JobStore::cancel).                                                      *)
THEOREM OutcomesAreFinal == Spec => OutcomeIsFinal
<1>1. JobInv /\ [Next]_vars =>
        [\A id \in DOMAIN jobs \cap DOMAIN jobs' :
           jobs[id].status # "Running" => jobs'[id] = jobs[id]]_vars
  <2> SUFFICES ASSUME JobInv, Next, NEW id \in DOMAIN jobs \cap DOMAIN jobs',
                      jobs[id].status # "Running"
               PROVE  jobs'[id] = jobs[id]
    BY DEF vars
  <2>1. \A i \in DOMAIN Pruned : i \in DOMAIN jobs /\ Pruned[i] = jobs[i]
    BY PrunedFacts DEF JobInv
  <2>2. CASE UNCHANGED jobs
    BY <2>2
  <2>3. CASE jobs' = Pruned
    BY <2>1, <2>3
  <2>4. ASSUME NEW r \in Starters, Insert(r)
        PROVE  jobs'[id] = jobs[id]
    <3>1. starter[r].id # id
      BY <2>4 DEF Insert, JobInv, StarterInv
    <3> QED
      BY <2>1, <2>4, <3>1 DEF Insert
  <2>5. ASSUME NEW i \in Ids, Finish(i)
        PROVE  jobs'[id] = jobs[id]
    <3>1. i # id
      BY <2>5 DEF Finish, JobInv, TaskInv
    <3> QED
      BY <2>5, <3>1 DEF Finish
  <2>6. ASSUME NEW i \in Ids, Cancel(i)
        PROVE  jobs'[id] = jobs[id]
    BY <2>1, <2>6 DEF Cancel
  <2> QED
    BY <2>2, <2>3, <2>4, <2>5, <2>6 DEF Next, Start, Handle, InsertRefused,
       Spawn, Disconnect, Work, Launch, LaunchFails, Exited, TimesOut,
       CancelSeen, Kill, Drained, Process, ChildEnds, ChildForks, Closes,
       Look, Tick
<1> QED
  BY <1>1, JobInvariant, PTL DEF Spec, OutcomeIsFinal

(* Only records older than the retention time disappear (prune_locked).    *)
THEOREM YoungJobsAreKept == Spec => YoungJobsKept
<1>1. JobInv /\ [Next]_vars =>
        [\A id \in DOMAIN jobs \ DOMAIN jobs' :
           /\ jobs[id].status # "Running"
           /\ Retention > 0 /\ now > jobs[id].finished + Retention]_vars
  <2> SUFFICES ASSUME JobInv, Next, NEW id \in DOMAIN jobs \ DOMAIN jobs'
               PROVE  /\ jobs[id].status # "Running"
                      /\ Retention > 0 /\ now > jobs[id].finished + Retention
    BY DEF vars
  <2>1. CASE id \notin DOMAIN Pruned
    BY <2>1, PrunedFacts DEF JobInv
  <2>2. CASE id \in DOMAIN Pruned
    <3>1. DOMAIN jobs' # DOMAIN jobs /\ ~(DOMAIN Pruned \subseteq DOMAIN jobs')
      BY <2>2
    <3>2. \A r \in Starters : ~Insert(r)
      BY <3>1 DEF Insert
    <3>3. \A i \in Ids : ~Cancel(i) /\ ~Finish(i)
      BY <3>1 DEF Cancel, Finish
    <3> QED
      BY <3>1, <3>2, <3>3 DEF Next, Start, Handle, InsertRefused,
         Spawn, Disconnect, Work, Launch, LaunchFails, Exited, TimesOut,
         CancelSeen, Kill, Drained, Process, ChildEnds, ChildForks, Closes,
         Look, Tick
  <2> QED
    BY <2>1, <2>2
<1> QED
  BY <1>1, JobInvariant, PTL DEF Spec, YoungJobsKept
=============================================================================
