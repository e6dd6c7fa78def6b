------------------------------- MODULE Grants -------------------------------
(***************************************************************************)
(* What a caller may do (crates/sovereign-config-server/src/auth.rs and    *)
(* values/authz.rs): the grants of a token, merged by the fold of their    *)
(* prefix, and the check every operation makes against them.               *)
(***************************************************************************)
EXTENDS ConfigPath

Permissions == {"read", "write", "manage"}

(* A raw grant is usable when its prefix is a path or the root and it names at
   least one permission; one unusable grant refuses the whole token. *)
usable_grants(raw) ==
    \A g \in raw : parse_selection(g.prefix) /\ g.permissions # {}

canonical_prefix(p) == fold(p)

validate_grants(raw) ==
    {[prefix |-> f,
      permissions |-> UNION {g.permissions : g \in {h \in raw : canonical_prefix(h.prefix) = f}}] :
        f \in {canonical_prefix(g.prefix) : g \in raw}}

allows(grants, p, permission) ==
    \E g \in grants : /\ permission \in g.permissions
                      /\ \/ g.prefix = Root
                         \/ fold(p) = g.prefix
                         \/ starts_with(fold(p), g.prefix \o Root)

(* The shape of the path first, then every permission the operation needs. *)
authorize(grants, p, permissions, allow_root) ==
    IF ~ (IF allow_root THEN parse_selection(p) ELSE parse_operation(p))
    THEN "INVALID_ARGUMENT"
    ELSE IF \E permission \in permissions : ~ allows(grants, p, permission)
    THEN "PERMISSION_DENIED"
    ELSE "OK"
=============================================================================
