------------------------ MODULE MCIdempotentDispatch ------------------------
(* Small instances of idempotent dispatch for TLC: three requests, nine   *)
(* plans of what they ask and of which deployment.                         *)
EXTENDS IdempotentDispatch

CONSTANTS d1, d2, d3, fA, fB

User(t) == [tenant |-> t, roles |-> {"writer"}]
Guest(t) == [tenant |-> t, roles |-> {"guest"}]

Request(who, hint, grant, key, content) ==
  [principal |-> who, hint |-> hint, grant |-> grant, key |-> key,
   content |-> content]

Strict ==
  [keys |-> "MandatoryKey", tenants |-> "AuthenticatedOnly",
   tenant_scoped |-> TRUE, reservation |-> TRUE,
   wanted |-> [resource |-> "order", action |-> "write"],
   permissions |-> [role \in {"writer", "guest"} |->
     {[resource |-> "order", action |-> IF role = "writer" THEN "*" ELSE "read"]}]]

(* At most one failure, none where three requests or two operations meet.  *)
Plan(a, b, c, deployment, bound) ==
  [requests |-> [d \in Dispatches |->
                   CASE d = d1 -> a [] d = d2 -> b [] d = d3 -> c],
   deployment |-> deployment, faults |-> bound]

Ask(f) == Request(User("t1"), None, None, "k", f)

(* One tenant: two requests of one content and one of another.             *)
Contended == Plan(Ask(fA), Ask(fA), Ask(fB), Strict, 0)

(* A failure while two requests, of one content or of two, contend.        *)
Failing(f) ==
  Plan(Ask(fA), Ask(f), Request(Guest("t1"), None, None, "k", fA), Strict, 1)

(* One key, two tenants; a hint of another tenant is refused.              *)
CrossTenant ==
  Plan(Request(User("t1"), "blank", "t2", "k", fA),
       Request(User("t2"), "t2", None, "k", fA),
       Request(User("t1"), "t2", None, "k", fB), Strict, 0)

(* Refused: another tenant's hint, a role that may not, no tenant.         *)
Refused ==
  Plan(Request(User("t1"), "t2", "t3", "k", fA),
       Request(Guest("t1"), None, None, "k", fA),
       Request(User(None), "t1", None, "k", fA), Strict, 1)

(* The method is not tenant scoped: keyed requests are refused, a request  *)
(* without a key runs unreserved.                                          *)
Unscoped ==
  Plan(Request(User("t1"), None, None, "k", fA),
       Request(User("t2"), None, None, "k", fA),
       Request(User("t1"), None, None, None, fA),
       [Strict EXCEPT !.tenant_scoped = FALSE, !.keys = "Compatibility"], 1)

(* An internal caller without a principal meets a principal of another    *)
(* tenant with a grant; a caller that names no tenant is refused.          *)
Internal ==
  Plan(Request(None, "t1", None, "k", fA),
       Request(User("t2"), "t1", "t1", "k", fA),
       Request(None, "blank", None, "k", fA),
       [Strict EXCEPT !.wanted = None, !.tenants = "AllowSystemInternal"], 0)

(* No authorization provider, no reservations, and keys that are refused.  *)
Bare ==
  Plan(Request(User("t1"), None, None, "k", fA),
       Request(User("t1"), None, None, None, "circular"),
       Request(None, None, None, "unreadable", fA),
       [Strict EXCEPT !.wanted = None, !.reservation = FALSE,
                      !.keys = "Compatibility", !.permissions = None], 1)

Closed ==
  Plan(Request(User("t1"), None, None, "k", fA),
       Request(None, "t1", None, "k", fA),
       Request(User("t1"), None, None, None, fA),
       [Strict EXCEPT !.permissions = None], 1)

AllPlans ==
  <<Contended, Failing(fA), Failing(fB), CrossTenant, Refused, Unscoped,
    Internal, Bare, Closed>>
AllOps == {<<t, "k">> : t \in {"t1", "t2", None}}
=============================================================================
