# TuxBridge, modelled and checked in TLA+

TuxBridge is an HTTP bridge that lets agents read, edit, build and version the
files of explicitly configured workspaces on one Linux host. This directory
models the parts of it that keep state or that decide who may change what,
checks the models with TLC on small instances, and proves with TLAPS what
matters most for every instance. Paths below are relative to the repository;
`src/*.rs` is the Rust crate.

## 1. The system

One process, one tokio runtime with several threads, one task per connection.
A handler is a future: it can be suspended at every `.await`, and it is dropped
at an `.await` when its client goes away. Everything TuxBridge keeps is in
memory; only the files, the Git repositories and the child processes outlive
it.

| component | source | state | operations | shared with |
|---|---|---|---|---|
| coding sessions | `sessions.rs` | session map under one mutex: status, before-images, expected hashes, byte counter | create, checkpoint, refresh, finalize, rollback | files, edit plans |
| multi-file edit plan | `code_tools.rs` | none of its own | preflight, capture in a session, replace | files, sessions |
| single-file mutations | `mutation.rs`, `user_files.rs`, `structural.rs` | none | create, replace, patch, replace node, all guarded by a SHA-256 | files |
| language servers | `lsp.rs`, `lsp_status.rs` | one child process per request, framed stdio | rename, format, queries, diagnostics | files |
| text algorithms | `lsp.rs`, `code_tools.rs`, `mutation.rs` | none | line edits, exact replacement, edits and positions of language servers | edit plans, mutations, language servers |
| background jobs | `command.rs` | job map under a mutex, one task and one child per job | start, list, get, cancel, finish, prune | events |
| foreground commands | `raw_command.rs`, `command.rs`, `security.rs` | child process | run with timeout, drain output | events |
| request gate | `hardening.rs`, `auth.rs`, `state.rs` | semaphore, request counter | admit, authenticate, authorize, respond | everything |
| approvals | `approvals.rs`, `auth.rs` | approval map under a mutex | create, approve, deny, consume | request gate |
| events and audit | `events.rs`, `audit.rs` | two rings, a broadcast channel | emit, snapshot, stream, push | everything |
| role policy | `role_policy.rs`, `openapi-profiles.json` | rules, built at the start | allows | request gate |
| Git mutations | `git_mutation.rs` | the repository | fetch, pull, add, commit, push | files |
| file inspection | `fs.rs`, `bonus.rs`, `repo_map.rs`, `code_tools.rs`, `workspace.rs`, `project.rs` | none | search, references, summary, map, listings, reads; all bounded | files |
| other inspection | `git.rs`, `git_extra.rs`, `doctor.rs`, `system.rs`, `diagnostics.rs`, `verification.rs`, `dashboard.rs` | none | read-only, bounded | files |

How they interact: every request passes the request gate, which emits events
and audit entries around it and may consume an approval; the handler then works
on the files directly, and, for edit plans, on the session store. The files are
protected by no lock at all: handlers, jobs, language servers, Git, editors and
builds write the same directories, and the only defence is a SHA-256 that is
compared some time before the file is replaced.

What is hard, and what correctness means there:

* *Check, then act.* A hash is compared and the file replaced later. What a
  write replaces must be what its client named unless somebody wrote the file
  in between, and undo information must be complete before the first write.
* *Copies.* A rollback works on a copy of the session while the session goes
  on. It must restore all or refuse, and report only what it did.
* *Partial failure.* Each file replacement is atomic, a plan is not; each step
  can fail after earlier ones succeeded.
* *Dropped futures.* A handler may simply stop at an `.await`.
* *Limits.* Sessions, files per session, bytes per session, jobs, permits and
  rings are all bounded, with check and insertion racing against each other.
* *One-shot tokens.* An approval must let exactly one request through.
* *Foreign answers.* A language server may answer late, never, for a text that
  the file no longer holds, for files outside the workspace, or for one file in
  two spellings; an edit must be applied whole or not at all, as far as that
  can be known before the first replacement.
* *Stories.* Events of one command come from several tasks, through a counter, a
  ring and a channel that are not changed together. Whoever watches must see
  them in their order, and a command's output must be complete when its end is
  told.
* *Moving trees.* A search reads a tree that changes under it, and stops at a
  limit on any level. What it does not mark as truncated must be whole.
* *Two readings of one path.* The role policy matches paths by itself, before
  the router does.
* *Positions.* Lines and columns of agents, UTF-16 positions of servers and
  byte offsets must mean the same place, at the ends of lines and files too.

PROJECT.json lists the hazards line by line.

## 2. Modules

| module | models |
|---|---|
| `UndoLog` | abstract: a bounded, append-only log of before-images per session |
| `CodingSessions` | `sessions.rs` and `code_edit_plan` of `code_tools.rs`, over the files; implements `UndoLog` |
| `HashGuardedFiles` | the operations on single files of `mutation.rs`, `user_files.rs` and `structural.rs`, one system call at a time |
| `OneShotGrants` | abstract: an operation runs once for each time it was approved |
| `RequestGate` | the two middlewares (`hardening.rs`, `auth.rs`), the approvals and the audit ring; implements `OneShotGrants` |
| `RolePolicy` | `role_policy.rs` as operators, and the router's choice of a route |
| `RoleGate` | `RequestGate` with the policy behind it |
| `Jobs` | `command.rs`: the job store, the tasks and their child processes |
| `EventHub` | `events.rs`: the counter, the ring, the channel and the clients that watch |
| `CommandEvents` | `command.rs` and `raw_command.rs` over `EventHub`: commands with their child, their pipes and drains, and what is told of them |
| `WorkspaceEdit` | `lsp.rs`: requests that talk to a language server, and the application of its edits to several files |
| `TreeWalk` | the walks of `fs.rs`, `code_tools.rs`, `bonus.rs` and `repo_map.rs` over a tree that changes |
| `TextEdits` | the algorithms on texts of `code_tools.rs`, `mutation.rs` and `lsp.rs`, as operators |
| `Document` | a text under these algorithms, with the definitions they are compared with |
| `MC*` | finite constants for TLC, one per checked module |
| `*Proofs` | the theorems about a module |

Definitions keep the names of the code where there is one. An operator whose
name ends in `_Something` and whose comment begins with "Mutant" is not part of
a specification: it is a plausible bug in the definition that follows it, and
PROJECT.json names, for every property of every run, a mutant that breaks it.

### CodingSessions

`sessions` is the map of `SessionStore`; ids are handed out in order, so an id
is a position, and a restart, which resets the counter, empties the sequence.
`disk` holds the files of every workspace. `req` holds the handler invocations
in flight: the program counter and the local variables of the handler. `fresh`
is history that no action reads: the files a request has verified or read and
nobody has written since.

One action is one critical section on the store mutex or one file operation:
`EditPlan` → `PreflightItem`* → `CaptureItem`* → `WriteItem`*;
`Checkpoint` → (`CheckpointRead` `CheckpointCapture`)*;
`Refresh` → `RefreshPath`* (the mutex is held throughout, hence `LockFree` in
every other action on the store); `Rollback` → `RollbackVerify`* →
`RollbackWrite`* → `RollbackCommit`. Every phase has its refusal or failure, a
waiting request can be dropped (`Disconnect`), TuxBridge can restart at any
moment, and `OutsideWrite` changes or deletes any file at any moment.

A digest is represented by the content it is the digest of. Session files are
kept under the name the client spelled in a checkpoint and under the canonical
name in an edit plan, so `Names` may hold several spellings of a file
(`FileOf`); the rollback properties are stated for sessions without such
doubles (`NoAlias`).

### HashGuardedFiles

`disk` and `mode` are the files, `req` what each client's handler is doing with
its local variables, `temp` the handler's temporary file. `unsynced` holds the
files whose name is on the medium before their bytes are; a stop of the machine
tears any of them. `shown` is what a client was told by its last bounded read
of a mount. `fresh` and `winners` are history that no action reads.

One action is one system call of a handler: `FindTarget` (the existence check),
`Verify` (the read, the comparison of the digest and the edit), `Permissions`,
then `atomic_write`: `OpenTemp`, `WriteTemp`, `SyncTemp`, `ChmodTemp`,
`Persist`. Each can fail (`Fail`), and then the handler answers and its
temporary file is dropped. Between any two of them other handlers, and anybody
outside, may write, delete or chmod the file. The five operations differ in
where they start and in what `Updated` makes of the file: `write_file` creates
(with `persist_noclobber`) or replaces, `patch_file` and `replace_node` apply an
edit, given as a partial function on contents, whose domain is the contents the
edit fits exactly once. Mounts and workspaces differ only in what their
configuration grants, so `WorkspaceRequest` and `MountRequest` share the rest.

### OneShotGrants and RequestGate

`RequestGate` follows a request from the semaphore through authentication,
authorization, the approval gate and the handler to its response, its audit
entry and its last event. `permits` is the semaphore, `sequence` and `issued`
the two counters, `approvals` and `audit` the two stores. `approved` and `ran`
count, over all restarts, how often each path was approved and how often its
handler started. The pairs of credential and path that the roles permit are the
constant `Allowed`.

The phases of a request are its await points: `consume` (the lock of the
approval store), `insert` (the same lock, with an id already drawn), `announce`
(an event), `handler`, `audit` and `finished`. At each of them `Drop` may end
the request; the permit is an owned value, so it goes with the future. `Respond`
releases the permit before the audit entry is written, as the code does, so
entries come in another order than numbers. `Restart` empties everything and
starts both counters again.

`OneShotGrants` knows only grants: they are asked for, allowed or refused once,
and used once. `GrantsRefinement` maps the approval store to its grants.

### RolePolicy and RoleGate

`Rules` are the rules that `RolePolicy::embedded` builds from the two embedded
files: one for each call a profile lists, with the roles of all profiles that
list it. A path is the sequence of its segments, since `route_matches` trims
the slashes at its ends and splits it at the others. `Allows` is what the
middleware asks. The router (axum, not part of the repository) is `Dispatched`:
it prefers literal segments to parameters, and looks at the method last.

`RoleGate` composes both with the gate: `CallOf` says which call a path of the
gate stands for, and an assumption says that the gate's `Allowed` is what the
policy permits. The documentation promises a role the handlers its profile
lists. `Given` and `Due` are the two sides of that: a call a role may have,
because the handler it reaches is listed or there is none, and a call it must
have, because it is listed itself. Between the two are calls on which router and
policy disagree, and `RolesGetTheirHandlers` says of every step of the gate that
nothing lies outside: `GET` routes answer `HEAD` (`Serves`), the policy has no
rule for it. The two embedded files are constants; the run takes those of their
lines in which literal segments stand beside parameters, one path has several
methods, or a call is in no list, and calls all of these, `HEAD` and a path that
the router answers with 405.

### Jobs

`jobs` is the store, `starter` the `start_command` handlers, `task`, `outcome`,
`child` and `pipes` the four things that make up a job at work: the phase of its
task, what the task will report, its child process and who holds the write ends
of the child's pipes. `asked` is history: the jobs whose cancellation was
accepted. Every operation on the store but `Finish` prunes first, so `Pruned`
is part of each of them. `Launch`, `Exited`, `TimesOut`, `CancelSeen`, `Kill`,
`Drained` and `Finish` are the steps of `execute_inner` and its caller; the
three branches of its `select!` compete whenever more than one is ready. A
timeout can come at any time. The child may exit, close its output, or leave
descendants that inherit it.

### EventHub and CommandEvents

An emission is three steps of its emitter: `Draw` takes a number, `Push` puts
the event into the ring under the mutex, `Send` puts it into the channel. Others
come in between, and an emitter that is dropped while it waits for the mutex
has spent its number (`Forget`). Clients `Subscribe`, `Receive` and `Leave`; one
that falls behind loses the oldest event in its channel (`Fed`). `log` is
history: everything that was ever in the ring.

In `CommandEvents` the emitters are the parts of a command: its handler, the
task of a job, its two drains, and the handler that cancels it. `cmd` is the
handler or task, `child` the process, `holders` who has the write ends of its
pipes, `drain` the two draining tasks with the output they keep, `record` the
job's record as far as the events depend on it (the store is in `Jobs`). Bytes
are numbered, so that the kept output can be compared with what was written. A
job tells each chunk before it keeps it (`TellChunk`, `KeepChunk`); a command in
the foreground just keeps it (`ReadChunk`). `Abandon` is the drop of a handler
at an `.await`: the child is killed with it, and the drains go on.

### TreeWalk

`tree` says what each name is: nothing, a directory, a link, something else, or
a file with one of a few texts, with bytes that are no text, or one that cannot
be read ("sealed"). A walk keeps a stack of the directories it is
in, each with the entries its stream may still return and those it has to,
because they were there all the time (`Frame`); an entry that comes or goes while
the stream is read may be returned or not (`Seen`). An entry is looked at by its
path in a later step (`Look`), and opened or read in another (`Open`, `Read`).
`Change` is anybody who changes the tree in between. A call of the system can
also fail where nothing changed, for want of a permission or with any other
error: at the names in `Faulty` every look and every opening may fail, and the
stream of a directory at every entry (`StreamFails`). That ends the whole walk,
as does a file that cannot be read, unless references are searched for. The five kinds of walk
differ in what they skip, where they look at their limit, and how they end at
it: a search ends every level (`CutShort`), a summary leaves its directory and
finds the limit again in the one above (`SummaryBreaks`). `steady` and `lost` are
history: the names that have not changed, and those that were removed or replaced
by a link, since the walk began.

A file and a link can take each other's place (`Forms`), and then the read
follows the link, wherever it leads (`Reading`). A directory, a pipe or a device
is never replaced by another kind of entry under the walk. A file is read in one
piece. Walks share nothing, and there is one at a time. The
event that the map emits is left out.

### WorkspaceEdit

`req` is what a connection's handler is doing with its locals: the document it
read, the edits the server answered with (one text edit per URI, standing for
the list of its ranges), the prepared items and what is left of the loop at
hand. `server` is its language server, `disk` the files. `checked`, `fresh` and
`wrote` are history that no action reads: what the handler has read again, what
of it nobody else has touched since, and what it has replaced.

`Begin` reads the document (`prepare_document`) and `Start` spawns the server.
The phases up to `kill` are the awaits of `LspProcess`, and each has the same two
parts: something is written to the server, and for "initialize", the question
and "shutdown" an answer is awaited. `send` writes into a pipe that has room for
`PipeRoom` pieces, and `read` of the server empties it: `Send` is one piece, a
`didOpen` has as many as its text (`Size`), every other message one. No deadline
stands over a send. One stands over an awaited answer (`RequestFails`, `Listen`),
but while it runs the server may ask something itself (`ServerAsks`), which is
answered by another send. Errors end the request (`SendFails`, `RequestFails`),
except that `shutdown` goes on to "exit" and to the kill. The server may stop
reading (`ServerDeaf`) or exit (`ServerExits`) at any time and answers with
anything (`Answer`): `Fit[v][c]` is what an edit made for text `v` makes of text
`c`, if its ranges exist there at all. A connection can go away while its handler
talks to the server (`Disconnect`); applying has no await point.

`Collect`, `PrepareFile`*, `Recheck`*, `WriteItem`* are
`collect_workspace_edits` and the loops of `apply_workspace_edit`, in the order
of the `BTreeMap` of URIs; the actions named `...Refused` and `...Failed` are
their early returns. A replacement is one action, because `HashGuardedFiles`
has its system calls. `OutsideWrite` is everybody else who writes the files,
other handlers of TuxBridge included.

### TextEdits and Document

`TextEdits` translates `replace_lines`, `insert_line`, `split_lines`,
`apply_unique_replace` (and `replace_exact`, which is the same),
`agent_position_to_lsp`, `lsp_position_to_byte` and `apply_text_edits` into
operators on sequences of characters. A character has a number of UTF-16 units;
offsets count characters where the code counts bytes. `Document` is one text to
which the edits of a plan or of a server are applied, so that every short text
is a state, and at each of them the operators are compared with definitions
that know nothing of their loops: the position of an offset (`PositionOf`) and
the effect of edits applied at once (`AppliedAtOnce`).

## 3. Runs

All runs are small instances, checked exhaustively. Type invariants are proved
(section 5) and not part of a run, except in the modules without proofs, where
they were checked with the constants of the run.

| run | shows |
|---|---|
| `sessions_race` | two requests of any kind on one session, with two spellings of its file's name, a second workspace whose requests may name it, room for one, outside writers and dropped connections: edits and rollbacks replace what they verified unless somebody wrote it in between, first images are right, workspaces stay apart, every request ends |
| `sessions_files` | one request at a time over two files, one of them empty, with room for the bytes of one: limits, undo information is complete before the first write, plans and rollbacks fail half-way, a rollback that is reported restored everything, and the store implements `UndoLog` |
| `files_guard` | two clients and outsiders on one file: files stay whole over a power loss, one creation wins, a replacement is made from the named version, and replacing what a read has shown replaces only that |
| `gate_approvals` | two connections; an operator who may not push, an agent who may not decide and a caller without a key of the store; two guarded paths, two approvals, a restart: approvals are owned by one handler, one-shot, path-bound, and out of reach of requests the policy refuses; the gate implements `OneShotGrants` |
| `gate_limit` | three connections against two permits over a restart, on calls that the policy permits or not: permits are conserved, audit entries are right, and a role gets the calls its profile lists and reaches no handler that is not listed, on calls where a literal segment stands beside a parameter, `HEAD` included |
| `jobs` | three jobs, two connections, a store of one: limit, pruning, finality and truth of outcomes, and tasks end |
| `command_events` | one command of any kind, with a timeout, a cancellation, a dropped connection and pruning, told to one client: the events tell its story in order and nothing falls between list and stream, the result is what was written, nobody is left running, what is told as finished is recorded, and requests end unless, and as long as, a descendant keeps the pipes |
| `tree_walk` | one walk of any kind over any tree of five names, two changes of which happen while it runs: an answer is whole or marked, and a walk fails only where an entry was removed or replaced by a link, where a call failed, or, a search, at a file that cannot be read |
| `workspace_edit` | one connection, two files, two spellings of one of them and a URI outside the workspace: a refused edit changed nothing, replacements are of the text that was read twice, "applied" means all of it, and requests end unless they write to a full pipe whose server has stopped reading |
| `text_edits` | every text of up to four characters (a narrow one, a surrogate pair, line feed, carriage return): positions, line edits, exact replacements and combined edits of servers |
| `rollback_race` | *violation*: a rollback overwrites newer work |
| `jobs_stranded` | *violation*: a job whose start was abandoned cannot be cancelled |

**Bounds, and why they are enough.** Files, keys and contents are never
compared except for equality, so two contents tell "the named version" from
"another one"; the races of interest are between two actors on one file, and
the outside writer is always a third. Two files are needed for a plan or a
rollback that fails half-way; those runs have one request in flight, because
`sessions_race` covers the interference and no rule of the code relates two
requests and two files. Aliases matter for one file with two names. `MaxPaths`
is 1 where there is one file to name and 2 where there are two. One session
(`SessionBound`) is all the requests of those runs speak of; what two creations
do to the limit of the store is decided under the mutex, in one action. Approvals need two paths (is
the approval bound to its own?) and four requests (ask, approve, and two
retries that race); the limit on requests in flight needs one request more
than permits. A job store of one record and three ids makes starts race for
room and lets records be pruned; jobs do not interact except through the
store, and what `jobs` shows for the safety properties is proved for every
number of them. One connection is enough for `workspace_edit`: handlers share
nothing but the files, and to one of them the others are outside writers; four
URIs give every kind of entry (two spellings, another file, none). A pipe of two
pieces and documents of one and three let every send of a conversation wait for
room, and let a server that stops reading leave the handler in each of them.
What `workspace_edit` shows for safety is proved for any number of each.
`command_events` has one command, because commands share only the hub, whose
other emitters a job brings along: its handler, task, two drains and a
cancellation. A ring of two and a channel of one overflow several times in its
story; what is sent is in order because it is sent before what comes after it is
pushed (`StoryInOrder`), and that is proved for channels of every size;
a limit of one byte, chunks of up to two and two bytes to write give output
below, at and above the limit, and chunks that only partly fit. In `tree_walk` a
directory inside the root, a file in it, a link and a name to be left out give
each walk something to enter, to skip and to stop at on both levels; two changes
can take an entry away and put it back, or a link in its place. Calls may fail at
the directory, a file in it and one beside it can be unreadable. Texts
of four characters contain two lines with either ending and a surrogate pair
between other characters; replaced and inserted texts have up to two; three
edits at once on texts of up to two characters (`MaxEdited`) include every way
in which neighbours in the sorted list can touch or overlap. `SessionBound`,
`RequestBound`, `ApprovalBound`, `RestartBound`, `IdBound` and `TimeBound` only keep the state spaces finite;
the modules that have them say so where they are declared. `gate_*`, `jobs` and
`command_events` disable the check for deadlock, because these bounds end every
behaviour, and `tree_walk` because a walk ends.

**Fairness.** `CodingSessions!FairSpec` assumes strong fairness of every
request's own steps: a handler runs until it returns, and tokio's mutex serves
its waiters in order, so a step that is enabled again and again is taken. It
assumes nothing of clients, outsiders, dropped connections or restarts.
`Jobs!FairSpec` assumes weak fairness of the steps of a handler and of a task,
which the runtime polls when they can go on; it assumes nothing of the child,
its descendants, the clock or the clients. The timeout of a task is one of its
steps, enabled throughout its wait, so fairness only says that some branch of
the `select!` fires in the end. `WorkspaceEdit!FairSpec` assumes weak fairness
of the steps of each handler, and of the reads of its server while that reads at
all (`ServerReads`; a server may become deaf or exit at any time). A deadline is
one moment for the whole exchange, which each turn of the loop in `request` and
`diagnostics` compares with the clock, so a server that keeps asking cannot put
it off: strong fairness of `Deadline`. It assumes nothing of clients and
outsiders, and nothing ends a send to a server that does not read; `HandlersEnd`
names that case (`Stuck`). `CommandEvents!FairSpec` assumes weak fairness of what
the runtime does for one command as a whole: it polls one of its handler, task
and drains that can go on. It assumes nothing of children, descendants and
clients; a timeout is a step of the handler, as in `Jobs`.

## 4. What the code does not keep

* `rollback_race`: CODING_ENVIRONMENT.md:66 promises that a rollback aborts
  when a file was changed after the agent's last write. All hashes are compared
  first and the files replaced afterwards, so a change in between is lost.
  `RollbackHitsRecordedVersion` is what does hold.
* `jobs_stranded`: `start_command` inserts the record, awaits the event hub and
  only then spawns the task. When the connection drops at that await, the
  record stays Running for ever, takes one of the `max_jobs` places, and its
  cancellation succeeds without effect.

Seen while modelling, and not made into runs:

* README.md:116 promises a 409 instead of overwriting newer work. Work that
  arrives between the comparison and the rename is overwritten;
  `ReplacesNamedVersion` is what does hold.
* CODING_ENVIRONMENT.md:66 calls the hash that a session expects that of the
  agent's last written version. `code_edit_plan` records it before the write
  (code_tools.rs:77), and it stays when the write fails; a rollback of such a
  session is refused although nobody changed anything.
* An approval record is never removed (approvals.rs:31), and an approval is
  consumed before the handler runs (auth.rs:73): a connection dropped right
  after has spent it.
* A client of the event stream that falls behind is not told of its gap
  (events.rs:69-72), and Mission Control lists the events only while it has none
  (web/dashboard.html:42), so a gap stays. A listing during an emission can have
  an event that the stream then brings again.
* No message to a language server is written under a deadline (`send`,
  lsp.rs:628-635): `request` sets its own after it has sent (lsp.rs:590-598), the
  answers to a server's requests (lsp.rs:619) and `did_open` have none, and
  `shutdown` sends two messages before it kills (lsp.rs:683-688). A server that
  stops reading while its pipe is full keeps the handler, at any of these, until
  the connection drops or the server exits. No document promises a timeout there.
* axum's `get` routes answer `HEAD`, too, but role_policy.rs:91-93 compares methods,
  and no profile lists `HEAD`: whoever is not Admin is refused it for handlers
  whose `GET` the profile lists. Nothing is let through by that.
* `GET /v1/workspaces/resolve` matches the rule of `GET /v1/workspaces/{name}`
  and passes the policy; the router has only `POST` there and answers 405.
* CODING_ENVIRONMENT.md:53 says of a server's edits that symlinks are rejected.
  The test is made on the path after `canonicalize` (lsp.rs:717-724), where it is
  never true unless the file is replaced by a link in between: a link inside the
  workspace is followed, and the file it leads to is edited. `Resolved` has it so.
* Each chunk of output is decoded by itself (command.rs:89): a character cut at
  the end of a chunk becomes replacement characters.
* A command whose program cannot be launched is told as started and never as
  finished (command.rs:38-41).
* One file that is removed at the wrong moment fails a whole search with a 404
  (fs.rs:348, :356, :367), and one file or directory that TuxBridge may not read
  fails every search above it with a 403 (fs.rs:354, :367, :414), and one such
  directory every summary, map and search for references that comes to it
  (bonus.rs:280, repo_map.rs:45, code_tools.rs:93); the search for references
  skips a file it cannot read. No document says what a walk does then. A summary
  that stops at its depth does not say so, and a search that
  finds exactly as many matches as it may is marked truncated.
* An insertion behind a last line that has no line feed is joined to that line
  (`insert_line`); `LinesOutsideStay` leaves this case out.
* Of two insertions of a server at one point the later one comes first
  (`apply_text_edits`): the stable sort keeps their order and the edits are then
  applied from the end. `EditsApplyTogether` leaves this case out.
* Matches of the old text that overlap each other count as one
  (`match_indices`).
* Positions count only line feeds as ends of lines, `\r\n` included
  (`agent_position_to_lsp`, `lsp_position_to_byte`). LSP also counts a carriage
  return that stands alone, and for a server that does, the positions behind one
  are in another line. `PositionOf` follows the code.
* A server that names one file in two spellings gets two items made from the
  same text, and the second replaces what the first wrote; and its edits, made
  for the text it was shown, are applied to the text that the file holds when
  the answer arrives, if their ranges exist there.

## 5. Proofs

All theorems hold for every value of the constants that the modules' named
assumptions allow; these assumptions only give the constants their types, keep
sets finite where the code's are (requests, names), state what
`AppConfig::validate` enforces (an approval path is not a management path), and
keep values apart that the code's types keep apart (an error is neither an offset
nor a text, `RefusedAssumption`). Two say something of the world: directories are
in no loop, so that a walk has a finite tree before it (`TreeAssumption`); and of
the routes of one method no two match the same call, none is for `HEAD`, and
every call a profile lists is a route (`RoutesAssumption`). The 63 listed calls
and the router of `main.rs`:52-129 satisfy the second: where a literal segment
stands beside a parameter, the methods differ. The calls themselves are under no
assumption.
TLC evaluates them in the runs.

| module | theorem | by |
|---|---|---|
| `CodingSessionsProofs` | `TypeCorrect`, `UndoWrittenAhead` | `StoreInv` |
| | `EditsReplaceNamedVersion`, `RollbacksReplaceVerified`, `RollbacksRestoreAll`, `FirstImagesAreCurrent` | `VersionInv` |
| | `BytesStayInWorkspaces` | `OwnInv` |
| | `SessionsAreUndoLogs` | `StoreInv` |
| | `StoreIsBounded` | `StoreInv`, `Bounded` |
| `HashGuardedFilesProofs` | `TypeCorrect`, `FilesStayWhole`, `CreateHasOneWinner`, `NamedVersionIsReplaced`, `ShownTextIsReplaced` | `FilesInv` |
| `RequestGateProofs` | `TypeCorrect`, `OwnedByOne`, `PermitsAreConserved`, `GateRefinesGrants`, `RunsOncePerApproval` | `GateInv` |
| | `StrangersMoveNothing` | `Vetted` |
| | `NumbersAreAuditedOnce` | `NumbersInv` |
| | `UsedOnce` | `GrantInv` |
| | `RolesMeetTheirHandlers` | `GateInv`, `RulesFollowLists` |
| `WorkspaceEditProofs` | `TypeCorrect`, `RefusalChangesNothing`, `ReplacementIsOfRecheckedText`, `AppliedIsComplete` | `EditInv` |
| `JobsProofs` | `TypeCorrect`, `StoreStaysBounded`, `EndedChildrenAreDead`, `OnlyAskedAreCancelled`, `OutcomesAreFinal`, `YoungJobsAreKept` | `JobInv` |
| `CommandEventsProofs` | `TypeCorrect`, `NobodyIsLeftRunning`, `FinishedJobsAreRecorded`, `ListAndStreamMeet` | `EventsInv` |
| | `StoriesAreInOrder`, `ResultsAreWhole` | `TellingInv` |
| `DocumentProofs` | `DocumentIsText`, `ExactIsUnique`, `PositionsDenote`, `OtherLinesStay`, `EditsAreTogether` | `TextInv` |
| `TreeWalkProofs` | `TypeCorrect`, `FailsForCause` | `WalkInv` |
| | `NothingIsMissed` | `AnswerInv` |

* `StoreInv`. That a plan only writes what its session tracks needs two
  things about the phases before: a request handles an item that exists
  (`PhaseOK`), and the items before it are tracked already (`ItemsTracked`).
  Both must survive what others do to the store, and `Grows` says how little
  that is: sessions keep their workspace and tracked names until a restart,
  which ends every request, too.
* `VersionInv`. `fresh[r]` is the history of the files that only request `r` has
  written since it looked at them. `Held` says what the phase of a request vouches
  for on these files: what is still to be edited holds the version the client
  named (`PlanHeld`), what is still to be restored holds its last image and
  what was restored holds its first (`RollbackHeld`), what a checkpoint has read is
  what the file holds (`ReadHeld`). A step of somebody else either writes none of
  these files or takes them out of `fresh` (`Calm`). Two names of one file would
  break the rollback part, hence the premise `NoAlias` of the rollback properties.
* `OwnInv`. Every place bytes pass through on their way from a file to a snapshot
  and back (plans, contents read by a checkpoint, the snapshot a rollback works
  from) belongs to the workspace of the request that holds it, and that is the
  workspace of its session (`StoreInv`).
* `SessionsAreUndoLogs` maps the store to `UndoLog` by `LogOf`: captures are
  `Record` or change no image, finalize and commit are `Settle`, refresh and all
  other steps do not show.
* `FilesInv`. What a rename relies on is spread over the earlier steps of its
  handler. `Local` says for one client what its program counter vouches for:
  which temporary file exists, whether it is complete and synced, and, while
  the client is fresh, what the target still holds. `LocalStep` is the frame:
  a step of one client keeps `Local` of the others if it touches no file they
  work on, and takes them out of `fresh` if it does. `LoneWinner` says that a
  file with a winner exists, which is why the next create is refused.
* `GateInv`. An id that was drawn and not yet inserted belongs to one request
  and is not in the store (`IdsFresh`), or an insertion could overwrite an
  approval; a request owns nothing before it has consumed
  (`NothingOwned`). Permits are a separate count over the requests in flight.
  `GateRefinesGrants` maps each step under this invariant;
  `RunsOncePerApproval` is then a theorem about `OneShotGrants`, whose
  `Balance` counts used and unused grants against approvals.
* `Vetted`: whoever is behind the role check (the approval gate, the handler) is
  `Authorized` or asks for a public path; so the only steps a stranger can take touch neither the store nor
  a handler. `NumbersInv`: numbers in use by requests and numbers in the ring are
  pairwise different and were all drawn already, and the ring is `Pushed` once
  by each request.
* `RulesFollowLists`. The policy permits a call if it matches a rule, and any
  rule will do; the router chooses one of the routes that match, by literal
  segments first. That the two mean the same operation holds because a call
  that matches two templates of one method does not exist (`ApartMatch`), so
  the route that was chosen is the one the rule was made from. A call whose method
  is not that of the route is a `HEAD` or finds no handler, and no rule permits a
  `HEAD`. The rest is that the gate asks the policy for exactly this call.
* `JobInv`. The record, the task and the child of a job are kept together by
  the order of steps only: a task under way has a Running record (so it cannot
  have been pruned), an ended record has a task that is done and a child that
  does not run, and a record without sender was asked to be cancelled.
* `EventsInv`. The ring is the end of the log (`WindowOK`), and what has left the
  mutex is in the log (`LoggedOK`); so a listing has what a stream has not. That
  an event about the end of a job is true (`Truth`) must be known from the moment
  its number is drawn, when only its emitter has it, and `Advances` says what
  other steps may do meanwhile: nothing but pruning changes an ended record.
* `WalkInv`. A walk meets a name as an entry that a stream may still return
  (`StreamsOK`) and as what it is about to look at, open or read (`AtOK`). It was
  there when it got into either, so if it is not there now it was removed since
  the walk began; a file it is about to read that is a link now was replaced since
  it was looked at (`PhaseOK`). All other failures have their cause in the step
  that fails (`Cause`). `ChangeStep` is where the two histories are tied to the tree;
  all other steps only have to leave a sound walk (`OwnStep`).
* `AnswerInv`. What `AnswersAreWhole` says of an answer is not true of a walk under
  way, so the invariant says what is still to come. A name that has to be told
  and did not change is told already, or a stream must still return it or a
  directory that it is in (`Coming`), or the walk has such a directory in hand
  (`Leads`); `Settled` and `Busy` are the two moments of a walk, between two entries and
  with one. A directory hands this on to its entries when it is opened
  (`PushKept`, by `EntryBetween`: between a directory and a name in it is one of its
  entries), and only what is out of the scope is passed over: where a walk is in the
  scope is kept per level of the stack (`InPlace`). That nothing is told twice in a
  tree that nobody changes is `Untold`: no name that a stream may return is in another
  one that is to come, or above one that was told. `ChangeStreams` says why
  changes do no harm to the others: what is removed is empty, and what is created is in
  something that is there. `Above` is a recursive function and the numbers are
  sums over sets; lemmas at the start give induction from directories to what is in
  them (`Descent`, from the assumption that there is no loop) and from a sum to a sum
  with one more number (`TallyFacts`). TLC checked `AnswerInv` on the instance of
  `tree_walk` with one change before it was proved.
* `EditInv`. Again `Local` says for one handler what its program counter
  vouches for: which items are prepared (`PreparedOf`: what the edit makes of a
  text it fits), which files were read again (`CheckedOf`), and what those that
  nobody else has touched since hold, before and after their replacement
  (`FreshOf`). That a replacement does not disturb what is known of another
  item is where `NoAlias` is needed.
* `Bounded`. The counter `bytes` of a session is kept by adding and subtracting,
  `WithinLimits` compares it with a sum over its before-images. The sum is a fold
  over a set; `SumExists` gives the function that computes it along an
  enumeration, `SumsAgree` that the enumeration does not matter, and from them
  `SumInsert` and its like say what one more image adds. That the number of
  active sessions stays within its limit when a rolled-back session is
  re-activated, and that an image is measured before it is kept, is the part
  that depends on the order of the code.
* `TellingInv`. What a client can have been told is in the log, the log is
  longer than the ring, and events get into it in an order their emitters do not
  control. `StoryInv` says for each command and each job which of its events may
  be under way and which must be in the log already, given how far it has got;
  `ResultInv` says that of a pipe of a command everything up to its counter is
  told or about to be pushed by the task that reads it.
* `TextInv` says little: the document is a text within its bound. What the
  theorems of `DocumentProofs` rest on are lemmas about the operators, for every
  alphabet, every width of its characters and texts of every length. Texts are taken
  apart and put together by folds; a fold is unfolded by the function that computes it
  along the sequence (`FoldExists`), and the library's least element of a
  well-founded order, a statement about sets, gives induction over numbers and
  over sequences (`Induction`, `SequenceInduction`). Lines are then unique
  (`LinesAreSplit`: splitting and joining undo each other), a position is a number of
  line feeds and a width behind the last of them (`PositionAt`, `OffsetOfPosition`),
  and the offset found is the last whose position it is.
* `EditsAreTogether` compares two computations. The code sorts the edits by
  their place, from the end, and applies one after the other;
  `EditsApplyTogether` says what each offset of the original text becomes if all are
  applied at once (`PiecesFrom`: what is inserted there, then the character unless it was
  replaced). `InTurn` connects them: after some edits, the text is an untouched
  beginning of the original followed by what is made of the rest
  (`Sections`), and the next edit ends in that beginning (`EndsBefore`, which is where
  the refusal of overlaps is needed). `EditStep` is one edit; insertions at one
  offset keep the order of the list because the sort breaks ties by place.

Only model-checked: the liveness properties `RequestsEnd` (two modules),
`TasksEnd` and `HandlersEnd`; liveness under fairness is out of the prover's
reach. All other properties of the runs that pass are theorems.

## 6. What is not modelled

* The contents of requests and responses, the text of errors, logging.
* Path resolution. A request whose path does not resolve to a regular file
  inside its workspace leaves no trace; symbolic links, which make two paths
  one file, appear as aliases in `CodingSessions`.
* Sizes of files in `HashGuardedFiles` (a file that is too large is refused
  before anything happens) and the syntax trees behind a node's range.
* Durability of the rename itself: the code syncs the bytes and not the
  directory, and no document promises more than whole files. The
  model lets a rename reach the medium at once. Temporary files that a stopped
  process leaves in a directory belong to nobody afterwards and are not kept.
* The framing of the messages of a language server, the choice of the server's
  executable, and what answers to queries contain. A read that a deadline drops
  half-way loses its place in the stream of answers; `Answer` and `RequestFails`
  allow for anything after it.
* Limits on the length of texts and lists in requests, previews and counts of
  changed lines.
* Restarts of TuxBridge in `Jobs` and `CommandEvents`: nothing of a job outlives
  the process. How the bytes of a command's output become characters.
* The security profiles (`security.rs`) that refuse a command before anything
  happens.
* `hash_file`, `list`, `stat`, `get`, the reads of single files and of batches:
  they read one value, or several one after the other.
* Git mutations. They change state only through `git`, whose rules are not in
  this repository; what TuxBridge adds is a check for a clean worktree some time
  before a pull. Its children have no timeout and go on when the connection is
  dropped (git_mutation.rs:236-258).
* What parses the output of tools (`diagnostics.rs`, `verification.rs`,
  `git.rs`), reports on the host (`system.rs`, `doctor.rs`) or reads the
  configuration (`config.rs`): functions of their input, without state.
* The components PROJECT.json lists as `not_modelled`, each with its reason.

## 7. Plan

In this order:

1. `LspClient` (`lsp.rs`:492-689), below `WorkspaceEdit`: framing, and the
   deadline that drops a read half-way.
2. `GitPull` (`git_mutation.rs`): check, then pull, over an abstract repository.
3. The reads of `fs.rs` and `user_files.rs`, line ranges included, as operators
   beside `TextEdits`.
