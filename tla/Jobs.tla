-------------------------------- MODULE Jobs --------------------------------
(***************************************************************************)
(* TuxBridge's background jobs (src/src/command.rs).  A handler inserts a  *)
(* record into the job store and then spawns a task; the task starts a     *)
(* child process, waits for its exit, a timeout or a cancellation, kills   *)
(* it in the last two cases, reads the child's pipes to their end and      *)
(* writes the outcome into the record.  Requests look at the store and     *)
(* cancel jobs at any moment, finished records are pruned by age, and the  *)
(* child does what it likes, leaving descendants behind included.          *)
(***************************************************************************)
EXTENDS Naturals, FiniteSets, Functions

CONSTANTS
    Starters,       \* connections that can run POST /v1/commands/start
    MaxJobs,        \* limits.max_jobs
    Retention,      \* limits.job_retention_seconds; 0 keeps jobs for ever
    IdBound,        \* bound: jobs started
    TimeBound       \* bound: seconds that pass

ASSUME LimitsAssumption ==
    MaxJobs \in Nat \ {0} /\ Retention \in Nat /\ IdBound \in Nat
        /\ TimeBound \in Nat

VARIABLES
    now,            \* unix_now(), in seconds
    issued,         \* JobStore::next_id
    jobs,           \* JobStore::jobs, from ids to records
    starter,        \* the start_command handlers under way
    task,           \* what the task of a job is doing
    outcome,        \* what the task will report
    child,          \* the state of a job's child process
    pipes,          \* who holds the write ends of a job's pipes
    asked           \* history: jobs whose cancellation was accepted

vars == <<now, issued, jobs, starter, task, outcome, child, pipes, asked>>

-----------------------------------------------------------------------------
Ids == 1..IdBound

Outcome == {"Completed", "Failed", "TimedOut", "Cancelled"}

JobStatus == {"Running"} \cup Outcome

(* cancel tells whether the record still has the sender of the channel on  *)
(* which the task listens.                                                 *)
JobRecord == [status : JobStatus, finished : Nat, cancel : BOOLEAN]

Idle == [pc |-> "idle", id |-> 0]

TaskPhase == {"none", "launch", "wait", "kill", "drain", "finish", "done"}

ChildState == {"none", "running", "ok", "failed", "killed"}

Holder == {"child", "descendant"}

(* Mutant: a record of exactly the retention age goes.                     *)
Kept_Strict(id) ==
    \/ Retention = 0
    \/ jobs[id].status = "Running"
    \/ jobs[id].finished + Retention > now

Kept(id) ==
    \/ Retention = 0
    \/ jobs[id].status = "Running"
    \/ jobs[id].finished + Retention >= now

(* prune_locked, which every operation on the store but finish begins with *)
Pruned == Restrict(jobs, {id \in DOMAIN jobs : Kept(id)})

-----------------------------------------------------------------------------
Init ==
    /\ now = 0
    /\ issued = 0
    /\ jobs = << >>
    /\ starter = [r \in Starters |-> Idle]
    /\ task = [id \in Ids |-> "none"]
    /\ outcome = [id \in Ids |-> "Failed"]
    /\ child = [id \in Ids |-> "none"]
    /\ pipes = [id \in Ids |-> {}]
    /\ asked = {}

-----------------------------------------------------------------------------
(* POST /v1/commands/start                                                 *)

(* The request is validated and an id is drawn.                            *)
Start(r) ==
    /\ starter[r].pc = "idle"
    /\ issued < IdBound
    /\ issued' = issued + 1
    /\ starter' = [starter EXCEPT ![r] = [pc |-> "insert", id |-> issued + 1]]
    /\ UNCHANGED <<now, jobs, task, outcome, child, pipes, asked>>

(* Mutant: only running jobs count against the limit.                      *)
Room_CountsRunning ==
    Cardinality({id \in DOMAIN Pruned : jobs[id].status = "Running"}) < MaxJobs

Room == Cardinality(DOMAIN Pruned) < MaxJobs

NewRecord == [status |-> "Running", finished |-> 0, cancel |-> TRUE]

Insert(r) ==
    /\ starter[r].pc = "insert"
    /\ Room
    /\ LET id == starter[r].id
       IN  jobs' = [i \in DOMAIN Pruned \cup {id} |->
                      IF i = id THEN NewRecord ELSE Pruned[i]]
    /\ starter' = [starter EXCEPT ![r].pc = "announce"]
    /\ UNCHANGED <<now, issued, task, outcome, child, pipes, asked>>

InsertRefused(r) ==
    /\ starter[r].pc = "insert"
    /\ ~Room
    /\ jobs' = Pruned
    /\ starter' = [starter EXCEPT ![r] = Idle]
    /\ UNCHANGED <<now, issued, task, outcome, child, pipes, asked>>

(* The event job.started has been emitted; the task is spawned and the     *)
(* handler returns.                                                        *)
Spawn(r) ==
    /\ starter[r].pc = "announce"
    /\ task' = [task EXCEPT ![starter[r].id] = "launch"]
    /\ starter' = [starter EXCEPT ![r] = Idle]
    /\ UNCHANGED <<now, issued, jobs, outcome, child, pipes, asked>>

(* The client goes away while the handler waits for the store or for the   *)
(* event hub.  In the second case the record is already there, and nothing *)
(* takes it back.                                                          *)
Disconnect(r) ==
    /\ starter[r].pc \in {"insert", "announce"}
    /\ starter' = [starter EXCEPT ![r] = Idle]
    /\ UNCHANGED <<now, issued, jobs, task, outcome, child, pipes, asked>>

-----------------------------------------------------------------------------
(* The task of a job, execute_inner and finish.                            *)

Becomes(id, phase, result) ==
    /\ task' = [task EXCEPT ![id] = phase]
    /\ outcome' = [outcome EXCEPT ![id] = result]

Launch(id) ==
    /\ task[id] = "launch"
    /\ task' = [task EXCEPT ![id] = "wait"]
    /\ child' = [child EXCEPT ![id] = "running"]
    /\ pipes' = [pipes EXCEPT ![id] = {"child"}]
    /\ UNCHANGED <<now, issued, jobs, starter, outcome, asked>>

(* The program cannot be started.                                          *)
LaunchFails(id) ==
    /\ task[id] = "launch"
    /\ Becomes(id, "finish", "Failed")
    /\ UNCHANGED <<now, issued, jobs, starter, child, pipes, asked>>

Exited(id) ==
    /\ task[id] = "wait"
    /\ child[id] \in {"ok", "failed"}
    /\ Becomes(id, "drain", IF child[id] = "ok" THEN "Completed" ELSE "Failed")
    /\ UNCHANGED <<now, issued, jobs, starter, child, pipes, asked>>

(* Mutant: the task goes on without having killed the child.               *)
TimesOut_NoKill(id) ==
    /\ task[id] = "wait"
    /\ Becomes(id, "drain", "TimedOut")
    /\ UNCHANGED <<now, issued, jobs, starter, child, pipes, asked>>

(* select! takes any branch that is ready, so the timeout may win even     *)
(* when the child has just exited.                                         *)
TimesOut(id) ==
    /\ task[id] = "wait"
    /\ Becomes(id, "kill", "TimedOut")
    /\ UNCHANGED <<now, issued, jobs, starter, child, pipes, asked>>

(* The receiver resolves when the sender was used, and also when it was    *)
(* dropped.                                                                *)
CancelSeen(id) ==
    /\ task[id] = "wait"
    /\ id \in DOMAIN jobs => ~jobs[id].cancel
    /\ Becomes(id, "kill", "Cancelled")
    /\ UNCHANGED <<now, issued, jobs, starter, child, pipes, asked>>

(* The child is killed and reaped; one that has exited already is reaped.  *)
Kill(id) ==
    /\ task[id] = "kill"
    /\ task' = [task EXCEPT ![id] = "drain"]
    /\ child' = [child EXCEPT ![id] = IF @ = "running" THEN "killed" ELSE @]
    /\ pipes' = [pipes EXCEPT ![id] = @ \ {"child"}]
    /\ UNCHANGED <<now, issued, jobs, starter, outcome, asked>>

(* Both pipes have come to their end.                                      *)
Drained(id) ==
    /\ task[id] = "drain"
    /\ pipes[id] = {}
    /\ task' = [task EXCEPT ![id] = "finish"]
    /\ UNCHANGED <<now, issued, jobs, starter, outcome, child, pipes, asked>>

FinalRecord(id) ==
    [jobs[id] EXCEPT !.status = outcome[id], !.finished = now, !.cancel = FALSE]

Finish(id) ==
    /\ task[id] = "finish"
    /\ task' = [task EXCEPT ![id] = "done"]
    /\ jobs' = IF id \in DOMAIN jobs THEN [jobs EXCEPT ![id] = FinalRecord(id)]
                                     ELSE jobs
    /\ UNCHANGED <<now, issued, starter, outcome, child, pipes, asked>>

-----------------------------------------------------------------------------
(* GET /v1/jobs and GET /v1/jobs/{id}: looking at the store prunes it.     *)
Look ==
    /\ jobs' = Pruned
    /\ UNCHANGED <<now, issued, starter, task, outcome, child, pipes, asked>>

(* Mutant: the record is closed at once, not by the task.                  *)
CancelRecord_Closes(record) ==
    [record EXCEPT !.cancel = FALSE, !.status = "Cancelled", !.finished = now]

CancelRecord(record) == [record EXCEPT !.cancel = FALSE]

(* DELETE /v1/jobs/{id}: the sender is taken out of the record and used.   *)
(* Whether anybody still listens is not looked at.                         *)
Cancel(id) ==
    /\ id \in DOMAIN Pruned
    /\ jobs[id].status = "Running"
    /\ jobs[id].cancel
    /\ jobs' = [Pruned EXCEPT ![id] = CancelRecord(@)]
    /\ asked' = asked \cup {id}
    /\ UNCHANGED <<now, issued, starter, task, outcome, child, pipes>>

Tick ==
    /\ now < TimeBound
    /\ now' = now + 1
    /\ UNCHANGED <<issued, jobs, starter, task, outcome, child, pipes, asked>>

-----------------------------------------------------------------------------
(* The child process and what it starts.                                   *)

ChildEnds(id, how) ==
    /\ child[id] = "running"
    /\ child' = [child EXCEPT ![id] = how]
    /\ pipes' = [pipes EXCEPT ![id] = @ \ {"child"}]
    /\ UNCHANGED <<now, issued, jobs, starter, task, outcome, asked>>

ChildForks(id) ==
    /\ child[id] = "running"
    /\ "child" \in pipes[id]
    /\ pipes' = [pipes EXCEPT ![id] = @ \cup {"descendant"}]
    /\ UNCHANGED <<now, issued, jobs, starter, task, outcome, child, asked>>

(* The child closes its output, or its descendants end.                    *)
Closes(id, holder) ==
    /\ holder \in pipes[id]
    /\ pipes' = [pipes EXCEPT ![id] = @ \ {holder}]
    /\ UNCHANGED <<now, issued, jobs, starter, task, outcome, child, asked>>

-----------------------------------------------------------------------------
Handle(r) == Insert(r) \/ InsertRefused(r) \/ Spawn(r)

Work(id) ==
    \/ Launch(id) \/ LaunchFails(id)
    \/ Exited(id) \/ TimesOut(id) \/ CancelSeen(id)
    \/ Kill(id) \/ Drained(id) \/ Finish(id)

Process(id) ==
    \/ \E how \in {"ok", "failed"} : ChildEnds(id, how)
    \/ ChildForks(id)
    \/ \E holder \in Holder : Closes(id, holder)

Next ==
    \/ \E r \in Starters : Start(r) \/ Handle(r) \/ Disconnect(r)
    \/ \E id \in Ids : Work(id) \/ Cancel(id) \/ Process(id)
    \/ Look
    \/ Tick

Spec == Init /\ [][Next]_vars

(* The runtime polls every handler and every task that can go on; nothing  *)
(* is assumed of the child, of its descendants or of clients.              *)
FairSpec ==
    /\ Spec
    /\ \A r \in Starters : WF_vars(Handle(r))
    /\ \A id \in Ids : WF_vars(Work(id))

-----------------------------------------------------------------------------
(* Properties.                                                             *)

(* The types, and that a record whose job has ended has no sender.         *)
TypeOK ==
    /\ now \in 0..TimeBound
    /\ issued \in 0..IdBound
    /\ DOMAIN jobs \subseteq 1..issued
    /\ \A id \in DOMAIN jobs :
         jobs[id] \in JobRecord /\ (jobs[id].cancel => jobs[id].status = "Running")
    /\ starter \in
         [Starters -> [pc : {"idle", "insert", "announce"}, id : 0..issued]]
    /\ task \in [Ids -> TaskPhase]
    /\ outcome \in [Ids -> Outcome]
    /\ child \in [Ids -> ChildState]
    /\ pipes \in [Ids -> SUBSET Holder]
    /\ asked \subseteq Ids

(* However insertions, completions and pruning interleave, the store never *)
(* holds more than max_jobs records, finished ones included                *)
(* (command.rs:60, :65).                                                   *)
StoreBounded == Cardinality(DOMAIN jobs) <= MaxJobs

(* When the store says that a job has ended, its child is not running any  *)
(* more: it has exited or was killed (README.md:124, command.rs:82).       *)
EndedMeansDead ==
    \A id \in DOMAIN jobs :
      jobs[id].status # "Running" => child[id] # "running"

(* A job is reported as cancelled only if somebody's cancellation of it    *)
(* was accepted (command.rs:63-64, :81).                                   *)
CancelledWasAsked ==
    \A id \in DOMAIN jobs : jobs[id].status = "Cancelled" => id \in asked

(* An outcome, once reported, is final: no late exit, timeout or           *)
(* cancellation changes it (command.rs:63-64).                             *)
OutcomeIsFinal ==
    [][\A id \in DOMAIN jobs \cap DOMAIN jobs' :
         jobs[id].status # "Running" => jobs'[id] = jobs[id]]_vars

(* Only a job that ended more than the retention time ago disappears, so a *)
(* client can still read the result of a job that just ended               *)
(* (command.rs:65).                                                        *)
YoungJobsKept ==
    [][\A id \in DOMAIN jobs \ DOMAIN jobs' :
         /\ jobs[id].status # "Running"
         /\ Retention > 0 /\ now > jobs[id].finished + Retention]_vars

(* A task that was spawned ends, whatever its child does, unless some      *)
(* descendant of the child keeps the pipes open (command.rs:81-83).        *)
TasksEnd ==
    \A id \in Ids :
      (task[id] = "launch") ~> (task[id] = "done" \/ "descendant" \in pipes[id])

-----------------------------------------------------------------------------
(* A statement of the documentation that the code does not keep.           *)

(* openapi-ops.yaml:151: a background command is cancellable.  A job whose *)
(* cancellation was accepted does not stay running, unless a descendant    *)
(* keeps its pipes open.                                                   *)
CancelEndsJob ==
    \A id \in Ids :
      (id \in asked) ~> (\/ id \notin DOMAIN jobs
                         \/ jobs[id].status # "Running"
                         \/ "descendant" \in pipes[id])
=============================================================================
