--------------------------- MODULE MCRequestGate ---------------------------
(***************************************************************************)
(* Finite values for the constants of RequestGate and RolePolicy: some of  *)
(* the calls of openapi.yaml and of the lists of openapi-profiles.json,    *)
(* among them several methods of one path, a literal segment beside a      *)
(* parameter, and calls that no list has.                                  *)
(***************************************************************************)
EXTENDS RoleGate, TLC

CONSTANTS r1, r2, r3, operator, agent, stranger,
          push, pull, run, start, resolve, look, probe, head,
          approve, deny, ui, stream

Get(path) == [method |-> "get", path |-> path]
Post(path) == [method |-> "post", path |-> path]

Decision(id, decision) == Post(<<"v1", "approvals", id, decision>>)

MCOperations ==
    [approveOperation |-> Decision("{id}", "approve"),
     denyOperation |-> Decision("{id}", "deny"),
     listWorkspaces |-> Get(<<"v1", "workspaces">>),
     getWorkspace |-> Get(<<"v1", "workspaces", "{name}">>),
     resolveWorkspacePath |-> Post(<<"v1", "workspaces", "resolve">>),
     listCodingSessions |-> Get(<<"v1", "code", "sessions">>),
     createCodingSession |-> Post(<<"v1", "code", "sessions">>),
     getCodingSession |-> Get(<<"v1", "code", "sessions", "{id}">>),
     runCommand |-> Post(<<"v1", "commands", "run">>),
     startCommand |-> Post(<<"v1", "commands", "start">>),
     gitPull |-> Post(<<"v1", "git", "pull">>),
     gitPush |-> Post(<<"v1", "git", "push">>)]

EventStream == Get(<<"v1", "events", "stream">>)

MCProfiles ==
    [dev |-> [operations |-> {"listCodingSessions", "createCodingSession",
                              "getCodingSession", "runCommand", "gitPush"},
              support |-> {}],
     review |-> [operations |-> {"listWorkspaces", "getWorkspace"},
                 support |-> {}],
     ops |-> [operations |-> {"approveOperation", "denyOperation",
                              "listWorkspaces", "runCommand", "startCommand",
                              "gitPull"},
              support |-> {EventStream, Get(<<"v1", "code", "sessions">>)}]]

MCParameters == {"{id}", "{name}"}

MCRoutes == {MCOperations[o] : o \in DOMAIN MCOperations} \cup {EventStream}

(* Whatever approval a decision names, it is one segment of its path.  The *)
(* router has a handler for look and for resolve, none for probe (405), and*)
(* for head the one of look.                                               *)
MCCallOf ==
    [p \in Paths \ Public |->
       CASE p = push -> Post(<<"v1", "git", "push">>)
         [] p = pull -> Post(<<"v1", "git", "pull">>)
         [] p = run -> Post(<<"v1", "commands", "run">>)
         [] p = start -> Post(<<"v1", "commands", "start">>)
         [] p = resolve -> Post(<<"v1", "workspaces", "resolve">>)
         [] p = look -> Get(<<"v1", "workspaces", "web">>)
         [] p = probe -> Get(<<"v1", "workspaces", "resolve">>)
         [] p = head -> [method |-> "head", path |-> <<"v1", "workspaces", "web">>]
         [] p = stream -> EventStream
         [] p = approve -> Decision("a-1", "approve")
         [] p = deny -> Decision("a-1", "deny")]

(* One that may push, one that may decide about approvals, and both may run*)
(* commands.                                                               *)
OperatorAndAgent ==
    [c \in Principals |-> IF c = operator THEN {"Operator"} ELSE {"Developer"}]

(* One key with two roles.  Its profiles list getWorkspace, but not the    *)
(* operation whose path is a workspace's but for the literal segment.      *)
OperatorReviewer == [c \in Principals |-> {"Operator", "Reviewer"}]

MCAllowed == Permitted

RequestSymmetry == Permutations(Requests)
=============================================================================
