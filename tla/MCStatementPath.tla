--------------------------- MODULE MCStatementPath ---------------------------
EXTENDS StatementPath

CONSTANTS t1, t2

T(s, n) == [schema |-> s, name |-> n]
Plants  == T("dbo", "plants")
Regions == T("dbo", "regions")
Readings == T("dbo", "readings")

\* readings is in two schemas, and meters too, of which the default one is hidden; secrets is blocked,
\* and so is plants.hash; regions has no tenant; summary is a view, and views are left out.
MCTables ==
    {Plants, Regions, Readings, T("ops", "readings"), T("ops", "meters"), T("dbo", "meters"),
     T("dbo", "secrets"), T("sys", "objects"), T("dbo", "summary")}

MCColumnsOf ==
    [t \in MCTables |->
        CASE t = Plants  -> {"id", "tenant", "email", "hash", "kwh"}
          [] t = Regions -> {"id", "kwh", "hash"}
          [] OTHER       -> {"id", "tenant", "owner", "kwh", "mail"}]

\* Two columns of readings carry a tenant, of which tenant comes first.
MCPlace ==
    [t \in MCTables |-> [c \in MCColumnsOf[t] |->
        CHOOSE i \in 1 .. 7 : <<"id", "tenant", "owner", "kwh", "mail", "email", "hash">>[i] = c]]

Plant(i, t, k)   == [id |-> i, tenant |-> t, email |-> 7, hash |-> 8, kwh |-> k]
Region(i, k)     == [id |-> i, kwh |-> k, hash |-> 9]
Reading(i, t, k) == [id |-> i, tenant |-> t, owner |-> t2, kwh |-> k, mail |-> 7]

MCRows ==
    [t \in MCTables |->
        CASE t = Plants  -> {Plant(1, t1, 5), Plant(2, t1, 3), Plant(3, t1, 1), Plant(4, t2, 9)}
          [] t = Regions -> {Region(1, 2), Region(4, 1), Region(5, 1)}
          [] OTHER       -> {Reading(1, t1, 4), Reading(1, t2, 6), Reading(2, t2, 1), Reading(3, t1, 8),
                             Reading(6, t1, 2)}]

MCViews == {T("dbo", "summary")}
MCBlockedTables  == {<<"secrets">>, <<"dbo", "meters">>}
MCBlockedColumns == {<<"plants", "hash">>}
MCMaskedColumns  == {<<"email">>, <<"dbo", "readings", "mail">>}

Col(q, n)    == [qual |-> q, name |-> n]
Bare(n)      == Col(NoName, n)
Table(s, n)  == [ref |-> T(s, n), derived |-> FALSE, outs |-> <<>>]
Derived(s, n, c, o) == [ref |-> T(s, n), derived |-> TRUE, outs |-> (o :> c) @@ ("id" :> "id")]
NoOrder      == [term |-> "none", key |-> Bare("id")]

Simple ==
    [kind |-> "SELECT", features |-> {}, nested |-> {}, commands |-> {}, words |-> {}, star |-> FALSE,
     declared |-> {"plants"}, sources |-> ("p" :> Table(NoName, "plants")), from |-> "p",
     joinKind |-> "inner", on |-> TRUE, outputs |-> ("o" :> {Bare("kwh")}), where |-> {}, group |-> {},
     order |-> NoOrder, limit |-> NoLimit]

Ask(s, t, fs) == [st |-> s, tenant |-> t, filters |-> fs]

\* What the guard is for: one construct, one nested statement, a keyword.
GuardCases ==
    {Ask([Simple EXCEPT !.features = {f}], t1, {}) : f \in TextFaults \cup Constructs}
    \cup {Ask([Simple EXCEPT !.kind = k, !.nested = n, !.commands = c, !.words = w], t1, {}) :
            k \in {"SELECT", "DROP"}, n \in {{}, {"DELETE"}, {"SELECT"}}, c \in {{}, {"GRANT"}},
            w \in {{}, {"DROP"}, {"name"}}}
    \cup {Ask([Simple EXCEPT !.star = TRUE], t1, {}), Ask(Simple, NoTenant, {})}

OneSource ==
    {Table(s, n) : s \in {NoName, "dbo", "ops", "sys"}, n \in {"plants", "readings", "meters", "secrets", "objects", "summary"}}
    \cup {Derived(NoName, "plants", c, o) : c \in {"kwh", "email", "hash"}, o \in {"kwh", "hash", "mail"}}

\* Names: every column, bare or qualified, in every clause, over one source or two.
ColRefs == {Col(q, n) : q \in {NoName, "p", "r", "x"}, n \in {"id", "kwh", "email", "hash", "mail", "o"}}

NameCases ==
    {Ask([Simple EXCEPT !.sources = ("p" :> s), !.outputs = ("o" :> {c}), !.declared = d], t1, {}) :
        s \in OneSource, c \in ColRefs, d \in {{}, {"plants"}}}
    \cup {Ask([Simple EXCEPT !.outputs = (o :> {Bare("email")}), !.order = [term |-> u, key |-> Bare("hash")]],
              t1, {}) : o \in {"o", "hash"}, u \in {"column", "expression"}}
    \cup {Ask([Simple EXCEPT !.outputs = (o :> {Bare("email")}), !.group = {Bare(n)}], t1, {}) :
            o \in {"o", "hash"}, n \in {"kwh", "hash", "o"}}
    \cup {Ask([Simple EXCEPT !.outputs = (NoName :> {Bare("id"), Bare(n)}) @@ ("kwh" :> {Bare("kwh")})], t1, fs) :
            n \in {"email", "kwh"}, fs \in {{}, {[column |-> "kwh", valid |-> TRUE, values |-> 0 .. 4]}}}
    \cup {Ask([Simple EXCEPT !.sources = ("p" :> Table("dbo", "plants")) @@ ("r" :> s),
                             !.outputs = ("o" :> {Col("p", "id"), c}), !.where = w,
                             !.order = [term |-> u, key |-> c]], t1, {}) :
            s \in {Table(NoName, "regions"), Table("dbo", "readings"), Derived(NoName, "regions", "kwh", "email")},
            c \in ColRefs, w \in {{}, {Bare("hash")}, {Bare("email")}}, u \in {"none", "column", "expression"}}

\* Tenants, joins, filters and limits.
Joins2 ==
    {Simple}
    \cup {[Simple EXCEPT !.sources = ("p" :> l) @@ ("r" :> r), !.joinKind = k, !.on = on,
                         !.outputs = ("o" :> {Col("r", "kwh")}) @@ ("i" :> {Col("p", "id")})] :
            l \in {Table(NoName, "plants"), Table(NoName, "regions"), Derived(NoName, "plants", "kwh", "k")},
            r \in {Table("dbo", "readings"), Table(NoName, "regions"), Derived("ops", "readings", "kwh", "kwh")},
            k \in {"inner", "left", "right", "full"}, on \in BOOLEAN}

Orders == {NoOrder, [term |-> "literal", key |-> Bare("kwh")], [term |-> "column", key |-> Bare("kwh")],
           [term |-> "expression", key |-> Bare("id")]}

Filters ==
    {{}} \cup {{[column |-> c, valid |-> v, values |-> 3 .. 9]} : c \in {"o", "kwh", "none"}, v \in BOOLEAN}
    \cup {{[column |-> "kwh", valid |-> TRUE, values |-> 0 .. 4]}}

RowCases ==
    {Ask([s EXCEPT !.limit = n], t, {}) : s \in Joins2, n \in {NoLimit, 1, 3}, t \in {t1, t2}}
    \cup {Ask([Simple EXCEPT !.outputs = ("kwh" :> {Bare("kwh")}), !.order = u, !.limit = n], t, fs) :
            u \in Orders, n \in -1 .. 4, t \in {t1, t2, NoTenant}, fs \in Filters}

\* Filters over a join whose sources both have the column its order names.
LiftCases ==
    {Ask([Simple EXCEPT !.sources = ("p" :> Table(NoName, "plants")) @@ ("r" :> Table("dbo", "readings")),
                        !.joinKind = "left", !.outputs = ("kwh" :> {Col(c, "kwh")}),
                        !.order = [term |-> "column", key |-> Col(q, "kwh")]],
         t1, {[column |-> "kwh", valid |-> TRUE, values |-> 0 .. 9]}) :
        c \in {"p", "r"}, q \in {NoName, "p", "r", "x"}}

MCRequests == GuardCases \cup NameCases \cup RowCases \cup LiftCases
=============================================================================
