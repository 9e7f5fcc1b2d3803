----------------------------- MODULE RolePolicy -----------------------------
(***************************************************************************)
(* What the roles of a principal permit (src/src/role_policy.rs).  The     *)
(* rules are built at the start from two embedded files: openapi.yaml maps *)
(* operation ids to calls, openapi-profiles.json lists for each profile    *)
(* the operations of its role, and calls that are no operation.  A call is *)
(* a method and a path, a path the sequence of its segments.               *)
(***************************************************************************)
EXTENDS Naturals, Sequences, FiniteSets

CONSTANTS
    Operations,     \* openapi.yaml: from operation ids to calls
    Profiles,       \* openapi-profiles.json: from profiles to their lists
    Parameters      \* the segments of templates in braces

MaxProfileOperations == 30

(* The roles by the profiles that describe them; nothing describes Admin.  *)
ProfileRole == [dev |-> "Developer", review |-> "Reviewer", ops |-> "Operator"]

Role == {"Admin"} \cup {ProfileRole[p] : p \in DOMAIN ProfileRole}

(* TuxBridge does not start with a manifest that does not satisfy this.    *)
ASSUME ManifestAssumption ==
    /\ DOMAIN Profiles \subseteq DOMAIN ProfileRole
    /\ \A p \in DOMAIN Profiles :
         /\ Profiles[p].operations \subseteq DOMAIN Operations
         /\ Cardinality(Profiles[p].operations) \in 1..MaxProfileOperations

-----------------------------------------------------------------------------
(* The calls a profile lists, as templates.                                *)
Listed(p) ==
    {Operations[o] : o \in Profiles[p].operations} \cup Profiles[p].support

(* RolePolicy::embedded: one rule for each call, with the roles of all the *)
(* profiles that list it.                                                  *)
Rules ==
    {[call |-> call,
      roles |-> {ProfileRole[p] : p \in {q \in DOMAIN Profiles : call \in Listed(q)}}]
       : call \in UNION {Listed(p) : p \in DOMAIN Profiles}}

EmptySegment == ""

(* A parameter stands for exactly one segment, any but the empty one.      *)
RouteMatches(template, path) ==
    /\ Len(template) = Len(path)
    /\ \A i \in 1..Len(path) :
         IF template[i] \in Parameters THEN path[i] # EmptySegment
                                       ELSE template[i] = path[i]

(* Mutant: a rule for a path permits every method of it.                   *)
Allows_AnyMethod(role, call) ==
    \/ role = "Admin"
    \/ \E rule \in Rules :
         role \in rule.roles /\ RouteMatches(rule.call.path, call.path)

Allows(role, call) ==
    \/ role = "Admin"
    \/ \E rule \in Rules :
         /\ rule.call.method = call.method
         /\ role \in rule.roles
         /\ RouteMatches(rule.call.path, call.path)

-----------------------------------------------------------------------------
(* The router, which chooses among the templates that match a path the one *)
(* whose first difference to another is a literal segment, and only then   *)
(* looks at the method.  A handler for GET answers HEAD as well.  A call   *)
(* for which the chosen template has no method is answered with 405.       *)

Prefers(t, u) ==
    \E i \in 1..Len(t) :
      /\ \A j \in 1..(i - 1) : t[j] = u[j]
      /\ t[i] \notin Parameters /\ u[i] \in Parameters

Serves(route, call) ==
    route.method = call.method \/ (route.method = "get" /\ call.method = "head")

Dispatched(routes, call) ==
    {route \in routes :
       /\ Serves(route, call)
       /\ RouteMatches(route.path, call.path)
       /\ \A other \in routes :
            RouteMatches(other.path, call.path) => ~Prefers(other.path, route.path)}
=============================================================================
