\* Retries of two guarded operations race for approvals and decisions race
\* for them, with dropped connections and a restart.
SPECIFICATION Spec
CONSTANTS
    r1 = r1  r2 = r2  r3 = r3  operator = operator  agent = agent
    stranger = stranger  push = push  pull = pull  run = run  start = start
    resolve = resolve  look = look  probe = probe  head = head
    approve = approve  deny = deny  ui = ui  stream = stream
    Operations <- MCOperations  Profiles <- MCProfiles
    Parameters <- MCParameters  Routes <- MCRoutes  CallOf <- MCCallOf
    RolesOf <- OperatorAndAgent
    Requests = {r1, r2}
    Credentials = {operator, agent, stranger}  Principals = {operator, agent}
    Allowed <- MCAllowed
    Paths = {push, run, approve, deny}  Public = {}
    Required = {push, run}  Blocked = {}
    Approve = approve  Deny = deny
    Unaudited = {push, run, approve, deny}
    Unannounced = {push, run, approve, deny}
    MaxInFlight = 2  MaxAudit = 1
    RequestBound = 4  ApprovalBound = 2  RestartBound = 1
SYMMETRY RequestSymmetry
INVARIANTS HandlerOwnsApproval
PROPERTIES StrangersAskNothing GrantsRefinement
\* The bound on requests ends every behaviour.
CHECK_DEADLOCK FALSE
