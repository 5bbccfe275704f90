--------------------------- MODULE MCRowSecurity ---------------------------
EXTENDS RowSecurity, TLC

CONSTANTS g1, g2, k1, k2, t1, t2, ns, admin

Context(tenant, namespace, role) ==
    [s \in {"tenant", "namespace", "role"} |->
        CASE s = "tenant" -> tenant [] s = "namespace" -> namespace [] OTHER -> role]

\* Tenants, break-glass without a tenant, nothing at all, and a bad value
\* behind a good one.
SomeContexts ==
    {Context(t1, ns, Unset), Context(t2, Unset, Unset), Context(Unset, Unset, admin),
     Context(Unset, Unset, Unset), Context(t1, Unsafe, Unset)}

Symmetry == Permutations({g1, g2}) \cup Permutations({k1, k2})

=============================================================================
