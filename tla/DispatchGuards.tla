--------------------------- MODULE DispatchGuards ---------------------------
(***************************************************************************)
(* What a request passes before the reservation store is asked: the key    *)
(* policy at the transport's edge                                          *)
(* (crates/service-sdk/src/idempotency/extraction.rs), then the guards of  *)
(* a generated method in their order: authorization, tenant scope,         *)
(* idempotency (crates/service-sdk-macros/src/lib.rs).                     *)
(*                                                                         *)
(* A request r has a principal (None, or its tenant and roles), a tenant   *)
(* hint, the destination of a cross-tenant grant, a raw key and a content. *)
(* A deployment p has the two enforcement modes, the authorization         *)
(* provider's permissions, whether a ReservationConfig is registered, and  *)
(* the attributes of the method called.  A guard answers [ok |-> value] or *)
(* [err |-> reason].                                                       *)
(***************************************************************************)

CONSTANTS
  None,         \* Option::None
  Keys,         \* raw keys that OperationKey::parse accepts
  Serializable  \* contents that serde_json::to_value accepts

Ok(value) == [ok |-> value]
Err(reason) == [err |-> reason]
Failed(result) == "err" \in DOMAIN result

(* "Unreadable" is a header that is no text; any other raw value outside   *)
(* Keys is refused by the parser.                                          *)
resolve_operation_key(raw, mode) ==
  CASE raw \in Keys -> Ok(raw)
    [] raw = None /\ mode = "Compatibility" -> Ok(None)
    [] OTHER -> Err("BadRequest")

(* RbacProvider: a permission of one of the principal's roles names the    *)
(* resource, and the action or any action.                                 *)
RbacAllows(permissions, roles, wanted) ==
  \E role \in roles : \E perm \in permissions[role] :
    /\ perm.resource = wanted.resource
    /\ perm.action \in {wanted.action, "*"}

authorize_in_context(principal, wanted, permissions) ==
  IF RbacAllows(permissions, principal.roles, wanted)
  THEN Ok(None) ELSE Err("AuthorizationDenied")

(* #[authorize]: the security context is asked for before the provider.    *)
authorize_guard(r, p) ==
  IF p.wanted = None THEN Ok(None)
  ELSE CASE r.principal = None -> Err("MissingContext")
         [] r.principal # None /\ p.permissions = None ->
              Err("CapabilityNotEnabled")
         [] OTHER -> authorize_in_context(r.principal, p.wanted, p.permissions)

(* TenantResolver::resolve.  A blank hint is no hint of another tenant,    *)
(* and no tenant either.                                                   *)
resolve_tenant(r, mode) ==
  IF r.principal # None
  THEN CASE r.principal.tenant = None -> Err("MissingContext")
         [] r.principal.tenant # None
            /\ r.hint \in {None, "blank", r.principal.tenant} ->
              Ok(r.principal.tenant)
         [] OTHER -> IF r.grant = r.hint THEN Ok(r.grant)
                                         ELSE Err("TenantMismatch")
  ELSE IF mode = "AllowSystemInternal" /\ r.hint \notin {None, "blank"}
       THEN Ok(r.hint)
       ELSE Err("MissingContext")

(* #[tenant_scoped]: without the attribute no scope is resolved.           *)
enforce_tenant(r, p) ==
  IF p.tenant_scoped THEN resolve_tenant(r, p.tenants) ELSE Ok(None)

Unreserved == [reserved |-> FALSE]
Reserved(tenant, key) == [reserved |-> TRUE, op |-> <<tenant, key>>]

(* The last step before the store: a runtime without reservations, and a   *)
(* request without a key, run the handler unreserved; a key without a      *)
(* resolved scope is refused.  Mutated form: it is filed under no tenant.  *)
namespace_flattened(key, tenant, p) ==
  IF key = None \/ ~p.reservation THEN Ok(Unreserved)
  ELSE Ok(Reserved(tenant, key))

namespace(key, tenant, p) ==
  CASE key = None \/ ~p.reservation -> Ok(Unreserved)
    [] key # None /\ p.reservation /\ tenant = None -> Err("TenantUnresolved")
    [] OTHER -> Ok(Reserved(tenant, key))

(* All of it: the first refusal answers.                                   *)
Admission(r, p) ==
  LET key == resolve_operation_key(r.key, p.keys)
      allowed == authorize_guard(r, p)
      tenant == enforce_tenant(r, p) IN
  CASE Failed(key) -> key
    [] ~Failed(key) /\ Failed(allowed) -> allowed
    [] ~Failed(key) /\ ~Failed(allowed) /\ Failed(tenant) -> tenant
    [] OTHER -> IF r.content \notin Serializable
                THEN Err("RequestNotFingerprintable")
                ELSE namespace(key.ok, tenant.ok, p)

(* The tenants a request may act for: its principal's, and the one a grant *)
(* names; without a principal, the one an internal caller names.           *)
Entitled(r, p) ==
  IF r.principal # None
  THEN {r.principal.tenant, r.grant} \ {None}
  ELSE IF p.tenants = "AllowSystemInternal" THEN {r.hint} \ {None, "blank"}
       ELSE {}

=============================================================================
