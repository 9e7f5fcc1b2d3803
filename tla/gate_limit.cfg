\* Three connections against two permits, on audited and unaudited paths, over
\* a restart: requests end in any order, some by a dropped connection, and ids
\* and numbers start again while clients hold old ones.  Among the calls are
\* ones of which the role policy and the router think differently.
SPECIFICATION Spec
CONSTANTS
    r1 = r1  r2 = r2  r3 = r3  operator = operator  agent = agent
    stranger = stranger  push = push  pull = pull  run = run  start = start
    resolve = resolve  look = look  probe = probe  head = head
    approve = approve  deny = deny  ui = ui  stream = stream
    Operations <- MCOperations  Profiles <- MCProfiles
    Parameters <- MCParameters  Routes <- MCRoutes  CallOf <- MCCallOf
    RolesOf <- OperatorReviewer
    Requests = {r1, r2, r3}
    Credentials = {operator}  Principals = {operator}
    Allowed <- MCAllowed
    Paths = {pull, start, resolve, look, probe, head, ui, stream, approve, deny}
    Public = {ui}
    Required = {pull}  Blocked = {start}
    Approve = approve  Deny = deny
    Unaudited = {ui, stream, approve}  Unannounced = {stream}
    MaxInFlight = 2  MaxAudit = 2
    RequestBound = 3  ApprovalBound = 1  RestartBound = 1
SYMMETRY RequestSymmetry
INVARIANTS PermitsConserved AuditedOnce
PROPERTIES RolesGetTheirHandlers
\* The bound on requests ends every behaviour.
CHECK_DEADLOCK FALSE
