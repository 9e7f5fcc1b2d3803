------------------------------ MODULE RoleGate ------------------------------
(***************************************************************************)
(* The request gate with the role policy behind it: paths are calls of     *)
(* routed operations, credentials have roles, and who may call what is     *)
(* what the policy says.                                                   *)
(***************************************************************************)
EXTENDS RequestGate, RolePolicy

CONSTANTS
    RolesOf,        \* the roles of each principal
    CallOf,         \* the call behind each path that is not public
    Routes          \* the routes behind the inner middleware, as templates

(* The role check of require_api_key: one role that permits is enough.     *)
Permitted ==
    UNION {{c} \X {p \in Paths \ Public :
                      \E role \in RolesOf[c] : Allows(role, CallOf[p])}
             : c \in Principals}

ASSUME RolesAssumption ==
    /\ RolesOf \in [Principals -> (SUBSET Role) \ {{}}]
    /\ Allowed = Permitted

(* No call matches both of two templates.                                  *)
Apart(t, u) ==
    Len(t) = Len(u) =>
      \E i \in 1..Len(t) : t[i] # u[i] /\ {t[i], u[i]} \cap Parameters = {}

(* The calls the profiles list have a route each, none of them for HEAD,   *)
(* and of the routes of one method none stands in the way of another       *)
(* (main.rs:52-129, openapi-profiles.json).                                *)
ASSUME RoutesAssumption ==
    /\ \A p \in DOMAIN Profiles : Listed(p) \subseteq Routes
    /\ \A route \in Routes : route.method # "head"
    /\ \A a, b \in Routes :
         a.method = b.method => a = b \/ Apart(a.path, b.path)

-----------------------------------------------------------------------------
(* A role may have what a call reaches if its profile lists the handler,   *)
(* and also if there is none.                                              *)
Given(role, call) ==
    \/ role = "Admin"
    \/ \E p \in DOMAIN Profiles :
         ProfileRole[p] = role /\ Dispatched(Routes, call) \subseteq Listed(p)

(* A role is due a call that is listed for it, method and path, and that   *)
(* reaches the handler of the list.                                        *)
Due(role, call) ==
    \/ role = "Admin"
    \/ \E p \in DOMAIN Profiles :
         /\ ProfileRole[p] = role
         /\ \E route \in Dispatched(Routes, call) \cap Listed(p) :
               route.method = call.method

GivenTo(r) == \E role \in RolesOf[req[r].cred] : Given(role, CallOf[req[r].path])

DueTo(r) == \E role \in RolesOf[req[r].cred] : Due(role, CallOf[req[r].path])

(* The policy matches calls by itself and before the router dispatches them*)
(* by rules of its own.  Nobody gets past the role check to a handler that *)
(* the profiles of its roles do not list, whatever the call; and nobody is *)
(* refused a call they do list.  Between the two are the calls on which    *)
(* policy and router disagree: HEAD, which a listed GET handler would      *)
(* answer and which is refused to all but Admin, and calls that pass and   *)
(* find no handler (MULTI_GPT.md:52-66; role_policy.rs:87, auth.rs:41,     *)
(* main.rs:52-129).                                                        *)
RolesGetTheirHandlers ==
    [][\A r \in Requests :
         (req[r].pc = "started" /\ req[r].path \notin Public
            /\ req[r].cred \in Principals) =>
           /\ Enter(r) => GivenTo(r)
           /\ Rejected(r) => ~DueTo(r) \/ req[r].path \in Blocked]_vars
=============================================================================
