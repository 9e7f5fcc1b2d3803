---------------------------- MODULE CommandEvents ----------------------------
(***************************************************************************)
(* Commands and what is told of them: POST /v1/commands/run and .../start  *)
(* (src/src/command.rs), POST /v1/commands/raw (src/src/raw_command.rs)    *)
(* and the event hub they emit to.  A command has a child process, two     *)
(* pipes and two tasks that drain them; those of a background job turn     *)
(* every chunk they read into an event.  The store of jobs is left to the  *)
(* module Jobs: here a job has its record only.                            *)
(***************************************************************************)
EXTENDS EventHub

CONSTANTS
    Commands,       \* requests for a command, each used once
    Kinds,          \* how a command may be asked for: kinds of [Commands]
    Limit,          \* limits.command_output_bytes
    Chunk,          \* the size of the buffer a drain reads into
    WriteBound      \* bound: bytes written to the pipes of a command

Channels == {"stdout", "stderr"}

Parts == {"handler", "task", "cancel"} \cup Channels

ASSUME CommandsAssumption ==
    /\ Emitters = Commands \X Parts
    /\ Kinds \in [Commands -> SUBSET {"run", "job", "raw"}]
    /\ Limit \in Nat /\ Chunk \in Nat \ {0} /\ WriteBound \in Nat

VARIABLES
    cmd,            \* what the handler, or the task of a job, is doing
    child,          \* the child process
    holders,        \* who holds the write ends of the pipes
    drain,          \* the draining tasks and what they have kept
    record          \* the record of a job in the store

commandVars == <<cmd, child, holders, drain, record>>

vars == <<hubVars, commandVars>>

-----------------------------------------------------------------------------
Kind == {"none", "run", "job", "raw"}

(* start to wait are the handler of a run or a raw command; a job's task   *)
(* is spawned between start and launch.                                    *)
Phase == {"idle", "start", "launch", "wait", "kill", "drain", "finish",
          "report", "finished", "done", "gone"}

Ending == {"none", "unlaunched", "exited", "timed_out", "cancelled"}

ChildState == {"none", "running", "exited", "killed"}

Command == [kind : Kind, pc : Phase, ending : Ending]

(* written is what the child's side has put into the pipe, kept the output *)
(* so far, chunk what was read and not yet kept.  Bytes are numbered.      *)
Drain == [pc : {"off", "reading", "telling", "ended"},
          written : 0..WriteBound, read : 0..WriteBound,
          kept : Seq(1..WriteBound), chunk : Seq(1..WriteBound),
          truncated : BOOLEAN]

NoDrain == [pc |-> "off", written |-> 0, read |-> 0, kept |-> << >>,
            chunk |-> << >>, truncated |-> FALSE]

Outcome == {"Completed", "Failed", "TimedOut", "Cancelled"}

(* Cancelling is a Running record whose sender has been used.              *)
Record == {"none", "Running", "Cancelling", "pruned"} \cup Outcome

Handler(c) == <<c, "handler">>
Task(c) == <<c, "task">>

Goto(c, pc) == cmd' = [cmd EXCEPT ![c].pc = pc]

Body(c, what, bytes, status) ==
    [of |-> c, what |-> what, bytes |-> bytes, status |-> status]

-----------------------------------------------------------------------------
Init ==
    /\ HubInit
    /\ cmd = [c \in Commands |-> [kind |-> "none", pc |-> "idle",
                                  ending |-> "none"]]
    /\ child = [c \in Commands |-> "none"]
    /\ holders = [c \in Commands |-> {}]
    /\ drain = [c \in Commands |-> [s \in Channels |-> NoDrain]]
    /\ record = [c \in Commands |-> "none"]

-----------------------------------------------------------------------------
(* The handlers up to the start of the child                               *)

(* The request is valid, and the security profile lets it pass.  A job has *)
(* its record before anything is told of it.                               *)
Arrive(c, kind) ==
    /\ cmd[c].pc = "idle"
    /\ cmd' = [cmd EXCEPT ![c].kind = kind,
                 ![c].pc = IF kind = "raw" THEN "launch" ELSE "start"]
    /\ record' = IF kind = "job" THEN [record EXCEPT ![c] = "Running"] ELSE record
    /\ UNCHANGED <<hubVars, child, holders, drain>>

(* command.started or job.started                                          *)
Announce(c) ==
    /\ cmd[c].pc = "start"
    /\ Draw(Handler(c), Body(c, "started", << >>, "none"))
    /\ Goto(c, "launch")
    /\ UNCHANGED <<child, holders, drain, record>>

Launch(c) ==
    /\ cmd[c].pc = "launch"
    /\ IsQuiet(Handler(c))
    /\ Goto(c, "wait")
    /\ child' = [child EXCEPT ![c] = "running"]
    /\ holders' = [holders EXCEPT ![c] = {"child"}]
    /\ drain' = [drain EXCEPT ![c] =
                   [s \in Channels |-> [NoDrain EXCEPT !.pc = "reading"]]]
    /\ UNCHANGED <<hubVars, record>>

(* The program cannot be started.  A run then ends without a second event. *)
LaunchFails(c) ==
    /\ cmd[c].pc = "launch"
    /\ IsQuiet(Handler(c))
    /\ cmd' = [cmd EXCEPT ![c].ending = "unlaunched",
                 ![c].pc = IF cmd[c].kind = "job" THEN "finish" ELSE "done"]
    /\ UNCHANGED <<hubVars, child, holders, drain, record>>

-----------------------------------------------------------------------------
(* Waiting for the child                                                   *)

Ends(c, ending, pc) ==
    /\ cmd[c].pc = "wait"
    /\ cmd' = [cmd EXCEPT ![c].ending = ending, ![c].pc = pc]
    /\ UNCHANGED <<hubVars, child, holders, drain, record>>

Exited(c) == child[c] = "exited" /\ Ends(c, "exited", "drain")

(* Mutant: the child is left alone when its time is over.                  *)
TimesOut_NoKill(c) == Ends(c, "timed_out", "drain")

TimesOut(c) == Ends(c, "timed_out", "kill")

CancelSeen(c) ==
    /\ cmd[c].kind = "job" /\ record[c] = "Cancelling"
    /\ Ends(c, "cancelled", "kill")

Kill(c) ==
    /\ cmd[c].pc = "kill"
    /\ child' = [child EXCEPT ![c] = IF @ = "running" THEN "killed" ELSE @]
    /\ holders' = [holders EXCEPT ![c] = @ \ {"child"}]
    /\ Goto(c, "drain")
    /\ UNCHANGED <<hubVars, drain, record>>

-----------------------------------------------------------------------------
(* The draining tasks: they read to the end of their pipes, whatever       *)
(* becomes of the command.                                                 *)

Least(a, b) == IF a < b THEN a ELSE b

(* Mutant: a chunk that does not fit is left out whole.                    *)
Kept_Whole(d, bytes) ==
    LET room == Limit - Len(d.kept)
    IN  [d EXCEPT !.kept = IF Len(bytes) > room THEN @ ELSE @ \o bytes,
                  !.truncated = @ \/ Len(bytes) > room]

(* What a drain keeps of a chunk: what there is room for.                  *)
Kept(d, bytes) ==
    LET room == Limit - Len(d.kept)
    IN  [d EXCEPT !.kept = @ \o SubSeq(bytes, 1, Least(room, Len(bytes))),
                  !.truncated = @ \/ Len(bytes) > room]

(* The next n bytes of the pipe.                                           *)
Ahead(d, n) == [i \in 1..n |-> d.read + i]

Readable(d, n) == d.pc = "reading" /\ n <= Chunk /\ d.read + n <= d.written

ReadChunk(c, s, n) ==
    LET d == drain[c][s]
        bytes == Ahead(d, n)
    IN  /\ Readable(d, n)
        /\ cmd[c].kind # "job"
        /\ drain' = [drain EXCEPT ![c][s] =
                       [Kept(d, bytes) EXCEPT !.read = @ + n]]
        /\ UNCHANGED <<hubVars, cmd, child, holders, record>>

(* job.stdout or job.stderr: a chunk is told before it is kept.            *)
TellChunk(c, s, n) ==
    LET d == drain[c][s]
        bytes == Ahead(d, n)
    IN  /\ Readable(d, n)
        /\ cmd[c].kind = "job"
        /\ Draw(<<c, s>>, Body(c, s, bytes, "none"))
        /\ drain' = [drain EXCEPT ![c][s].pc = "telling", ![c][s].chunk = bytes,
                                  ![c][s].read = @ + n]
        /\ UNCHANGED <<cmd, child, holders, record>>

KeepChunk(c, s) ==
    LET d == drain[c][s]
    IN  /\ d.pc = "telling"
        /\ IsQuiet(<<c, s>>)
        /\ drain' = [drain EXCEPT ![c][s] =
                       [Kept(d, d.chunk) EXCEPT !.pc = "reading", !.chunk = << >>]]
        /\ UNCHANGED <<hubVars, cmd, child, holders, record>>

PipeEnds(c, s) ==
    LET d == drain[c][s]
    IN  /\ d.pc = "reading" /\ d.read = d.written
        /\ holders[c] = {}
        /\ drain' = [drain EXCEPT ![c][s].pc = "ended"]
        /\ UNCHANGED <<hubVars, cmd, child, holders, record>>

-----------------------------------------------------------------------------
(* The end of a command                                                    *)

(* Mutant: only the first of the two drains is waited for.                 *)
AllDrained_First(c) == drain[c]["stdout"].pc = "ended"

AllDrained(c) == \A s \in Channels : drain[c][s].pc = "ended"

Drained(c) ==
    /\ cmd[c].pc = "drain"
    /\ AllDrained(c)
    /\ Goto(c, "finish")
    /\ UNCHANGED <<hubVars, child, holders, drain, record>>

(* A raw command just answers.                                             *)
Reply(c) ==
    /\ cmd[c].pc = "finish" /\ cmd[c].kind = "raw"
    /\ Goto(c, "done")
    /\ UNCHANGED <<hubVars, child, holders, drain, record>>

(* command.finished                                                        *)
Tell(c) ==
    /\ cmd[c].pc = "finish" /\ cmd[c].kind = "run"
    /\ Draw(Handler(c), Body(c, "finished", << >>, cmd[c].ending))
    /\ Goto(c, "finished")
    /\ UNCHANGED <<child, holders, drain, record>>

(* What JobStore::finish makes of the record.  A child that exited has     *)
(* succeeded or failed.                                                    *)
Outcomes(c) ==
    CASE cmd[c].ending = "exited" -> {"Completed", "Failed"}
      [] cmd[c].ending = "unlaunched" -> {"Failed"}
      [] cmd[c].ending = "timed_out" -> {"TimedOut"}
      [] OTHER -> {"Cancelled"}

Finish(c) ==
    /\ cmd[c].pc = "finish" /\ cmd[c].kind = "job"
    /\ \E outcome \in Outcomes(c) : record' = [record EXCEPT ![c] = outcome]
    /\ Goto(c, "report")
    /\ UNCHANGED <<hubVars, child, holders, drain>>

(* Mutant: job.finished tells how the command ended, without asking the    *)
(* store.                                                                  *)
Report_FromEnding(c) ==
    /\ cmd[c].pc = "report" /\ record[c] # "pruned"
    /\ Draw(Task(c), Body(c, "finished", << >>,
                          IF cmd[c].ending = "exited" THEN "Completed"
                                                      ELSE record[c]))
    /\ Goto(c, "finished")
    /\ UNCHANGED <<child, holders, drain, record>>

(* job.finished tells what the store says.                                 *)
Report(c) ==
    /\ cmd[c].pc = "report" /\ record[c] # "pruned"
    /\ Draw(Task(c), Body(c, "finished", << >>, record[c]))
    /\ Goto(c, "finished")
    /\ UNCHANGED <<child, holders, drain, record>>

(* The record has been pruned already: nothing is told.                    *)
ReportNothing(c) ==
    /\ cmd[c].pc = "report" /\ record[c] = "pruned"
    /\ Goto(c, "done")
    /\ UNCHANGED <<hubVars, child, holders, drain, record>>

Done(c) ==
    /\ cmd[c].pc = "finished"
    /\ IsQuiet(Handler(c)) /\ IsQuiet(Task(c))
    /\ Goto(c, "done")
    /\ UNCHANGED <<hubVars, child, holders, drain, record>>

-----------------------------------------------------------------------------
(* Somebody else                                                           *)

(* Where the handler waits: for the hub, the child, or the drains.  A job  *)
(* has left its handler when it is launched.                               *)
Waits(c) ==
    \/ cmd[c].kind = "job" /\ cmd[c].pc = "launch"
    \/ cmd[c].kind # "job" /\ cmd[c].pc \in {"launch", "wait", "kill", "drain",
                                            "finished"}

(* Mutant: the child does not go with the future.                          *)
Abandon_KeepsChild(c) ==
    /\ Waits(c)
    /\ cmd[c].pc \in {"launch", "finished"} => ~IsQuiet(Handler(c))
    /\ IF IsQuiet(Handler(c)) THEN UNCHANGED hubVars ELSE Forget(Handler(c))
    /\ Goto(c, "gone")
    /\ UNCHANGED <<child, holders, drain, record>>

(* The client goes away and the handler is dropped, and its child with it  *)
(* (kill_on_drop); the drains go on.                                       *)
Abandon(c) ==
    /\ Waits(c)
    /\ cmd[c].pc \in {"launch", "finished"} => ~IsQuiet(Handler(c))
    /\ IF IsQuiet(Handler(c)) THEN UNCHANGED hubVars ELSE Forget(Handler(c))
    /\ child' = [child EXCEPT ![c] = IF @ = "running" THEN "killed" ELSE @]
    /\ holders' = [holders EXCEPT ![c] = @ \ {"child"}]
    /\ Goto(c, "gone")
    /\ UNCHANGED <<drain, record>>

(* DELETE /v1/jobs/{id}, and the event it emits.                           *)
Cancel(c) ==
    /\ record[c] = "Running"
    /\ Draw(<<c, "cancel">>, Body(c, "cancel_requested", << >>, "none"))
    /\ record' = [record EXCEPT ![c] = "Cancelling"]
    /\ UNCHANGED <<cmd, child, holders, drain>>

CancelForgotten(c) == Forget(<<c, "cancel">>) /\ UNCHANGED commandVars

(* Looking at the store prunes what ended long ago.                        *)
Prune(c) ==
    /\ record[c] \in Outcome
    /\ record' = [record EXCEPT ![c] = "pruned"]
    /\ UNCHANGED <<hubVars, cmd, child, holders, drain>>

Write(c, s) ==
    /\ holders[c] # {}
    /\ drain[c]["stdout"].written + drain[c]["stderr"].written < WriteBound
    /\ drain' = [drain EXCEPT ![c][s].written = @ + 1]
    /\ UNCHANGED <<hubVars, cmd, child, holders, record>>

Exit(c) ==
    /\ child[c] = "running"
    /\ child' = [child EXCEPT ![c] = "exited"]
    /\ holders' = [holders EXCEPT ![c] = @ \ {"child"}]
    /\ UNCHANGED <<hubVars, cmd, drain, record>>

Fork(c) ==
    /\ child[c] = "running"
    /\ "child" \in holders[c]
    /\ holders' = [holders EXCEPT ![c] = @ \cup {"descendant"}]
    /\ UNCHANGED <<hubVars, cmd, child, drain, record>>

Close(c, holder) ==
    /\ holder \in holders[c]
    /\ holders' = [holders EXCEPT ![c] = @ \ {holder}]
    /\ UNCHANGED <<hubVars, cmd, child, drain, record>>

-----------------------------------------------------------------------------
Work(c) ==
    \/ Announce(c) \/ Launch(c) \/ LaunchFails(c)
    \/ Exited(c) \/ TimesOut(c) \/ CancelSeen(c) \/ Kill(c)
    \/ Drained(c) \/ Reply(c) \/ Tell(c) \/ Finish(c)
    \/ Report(c) \/ ReportNothing(c) \/ Done(c)

DrainWork(c, s) ==
    \/ \E n \in 1..Chunk : ReadChunk(c, s, n) \/ TellChunk(c, s, n)
    \/ KeepChunk(c, s)
    \/ PipeEnds(c, s)

(* What the runtime does for a command: it polls its handler or task, its  *)
(* drains, and whichever of them emits.                                    *)
Runtime(c) ==
    \/ Work(c)
    \/ \E s \in Channels : DrainWork(c, s)
    \/ \E part \in Parts : Publish(<<c, part>>) /\ UNCHANGED commandVars

Process(c) ==
    \/ \E s \in Channels : Write(c, s)
    \/ Exit(c)
    \/ Fork(c)
    \/ \E holder \in {"child", "descendant"} : Close(c, holder)

Next ==
    \/ \E c \in Commands :
         \/ \E kind \in Kinds[c] : Arrive(c, kind)
         \/ Runtime(c) \/ Process(c)
         \/ Abandon(c) \/ Cancel(c) \/ CancelForgotten(c) \/ Prune(c)
    \/ \E k \in Clients : Watch(k) /\ UNCHANGED commandVars

Spec == Init /\ [][Next]_vars

(* Of the tasks of a command that can go on the runtime polls one, sooner  *)
(* or later.  Nothing is assumed of children, descendants and clients.     *)
FairSpec == Spec /\ \A c \in Commands : WF_vars(Runtime(c))

-----------------------------------------------------------------------------
(* Properties                                                              *)

TypeOK ==
    /\ cmd \in [Commands -> Command]
    /\ child \in [Commands -> ChildState]
    /\ holders \in [Commands -> SUBSET {"child", "descendant"}]
    /\ drain \in [Commands -> [Channels -> Drain]]
    /\ record \in [Commands -> Record]

(* Which of two events of a command comes first: the start before any      *)
(* output, output of a channel in the order of the bytes, all of it before *)
(* the end.                                                                *)
Before(x, y) ==
    /\ x.of = y.of
    /\ \/ x.what = "started" /\ y.what \in Channels \cup {"finished"}
       \/ x.what \in Channels /\ y.what = "finished"
       \/ x.what \in Channels /\ x.what = y.what /\ x.bytes[1] < y.bytes[1]

Ordered(events) ==
    \A i, j \in 1..Len(events) :
      Before(events[i].body, events[j].body)
        => i < j /\ events[i].seq < events[j].seq

(* The story of each command is told in its order, in the ring and to      *)
(* every client that streams, and so are its numbers, although numbers are *)
(* drawn outside the mutex and the drains of a job emit on their own       *)
(* (events.rs:42-54, command.rs:49, :90).                                  *)
StoryInOrder ==
    /\ Ordered(log)
    /\ \A k \in streaming : Ordered(feed[k])
    /\ \A i, j \in 1..Len(log) :
         Before(log[i].body, log[j].body) => ~Unsent(log[i])

(* What was told of a channel of a command, put together.                  *)
Told(c, s) ==
    UNION {Range(x.body.bytes) :
             x \in {y \in Range(log) : y.body.of = c /\ y.body.what = s}}

(* A command whose result is given has been drained: the result is the     *)
(* first Limit bytes of each channel, marked as truncated exactly if there *)
(* were more; and what the events of a job told is all that was written    *)
(* (command.rs:83-91, raw_command.rs:102-145).  Of bytes, before they are  *)
(* decoded: each chunk is decoded by itself.                               *)
ResultIsWhole ==
    \A c \in Commands, s \in Channels :
      (cmd[c].pc \in {"finish", "report", "finished", "done"}
         /\ cmd[c].ending # "unlaunched") =>
        LET d == drain[c][s]
        IN  /\ d.kept = [i \in 1..Least(Limit, d.written) |-> i]
            /\ d.truncated <=> d.written > Limit
            /\ cmd[c].kind = "job" => Told(c, s) = 1..d.written

(* A child runs only while somebody attends to it: not after an answer,    *)
(* not after a timeout was reported, not after its client has left         *)
(* (README.md:124, command.rs:77, :82; raw_command.rs:72, :96).            *)
NobodyLeftRunning ==
    \A c \in Commands : child[c] = "running" => cmd[c].pc \in {"wait", "kill"}

(* When an event says that a job finished, its record has the outcome of   *)
(* the event, or is pruned (command.rs:50).                                *)
FinishedIsRecorded ==
    \A i \in 1..Len(log) :
      LET b == log[i].body
      IN  (b.what = "finished" /\ cmd[b.of].kind = "job") =>
            record[b.of] \in {b.status, "pruned"}

(* Whatever its child does, a request for a command is answered or left in *)
(* time.  Only a descendant of the child that keeps the pipes can put that *)
(* off, and only as long as it keeps them: till then the timeout is no     *)
(* bound (raw_command.rs:89-109, command.rs:81-83).                        *)
RequestsEnd ==
    \A c \in Commands :
      []<>(\/ cmd[c].pc \in {"idle", "done", "gone"}
           \/ "descendant" \in holders[c])
=============================================================================
