----------------------------- MODULE MCService -----------------------------
EXTENDS Service, TLC

CONSTANTS k1, k2, k3, t1, t2

MCTenantOf == (k1 :> t1) @@ (k2 :> t2) @@ (k3 :> NoTenant)

Load(e1, e2, e3, limit) == [kind |-> (k1 :> e1) @@ (k2 :> e2) @@ (k3 :> e3), limit |-> limit]

\* Requests that compete for the limiter's window, and requests that compete for
\* connections: of two tenants, of one and a probe, of one and of none.
MCLoads ==
    {Load("schema", "schema", "schema", limit) : limit \in {1, 2}}
    \cup {Load("validate", "validate", "none", 0), Load("query", "none", "ready", 0),
          Load("none", "validate", "validate", 0)}

\* A result that is cut at the rows with the bytes just enough, and one that is cut at the bytes.
MCAnswers == {<<1, 2, 1>>, <<2, 2>>}
=============================================================================
