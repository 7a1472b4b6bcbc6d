----------------------------- MODULE Statement -----------------------------
(***************************************************************************)
(* What happens to one generated statement before it runs: the guard       *)
(* (security/sql_guard.py), resolution against the catalogue the policy    *)
(* leaves (security/policy.py, metadata/service.py), the structural        *)
(* checks, the tenant predicate (security/tenancy.py), the caller's        *)
(* filters and the row limit (pipeline/sql_validator.py).                  *)
(*                                                                         *)
(* A statement is a SELECT over one source or two joined ones; a source is *)
(* a table or a derived table, (SELECT column AS name, ... FROM table).    *)
(* st.outputs maps the name of each projection to the columns it reads:    *)
(* with one column it is that column, with more an expression.  Those      *)
(* without a name are taken together, as NoName, after the others.         *)
(* st.group holds the columns of GROUP BY and HAVING.  st.order is         *)
(* [term, key]: the term is "none", a "column", an "expression" over one,  *)
(* or a "literal", the place of the output that key.name names.            *)
(* Names are compared as the code folds them, patterns are exact names.    *)
(***************************************************************************)
EXTENDS Integers, FiniteSets, SequencesExt

CONSTANTS
    Tables,           \* the tables of the database, as [schema, name]
    Views,            \* those of them that are views
    IncludeViews,
    ColumnsOf,        \* ColumnsOf[t]: the names of the columns of t
    Place,            \* Place[t][c]: the place of column c among those of t
    DefaultSchema,
    NoName,           \* the schema, qualifier or output name that is not written
    SystemSchemas, AllowedSchemas, BlockedTables, BlockedColumns, MaskedColumns,
    TenantColumns,
    AllowedKinds,     \* allowed_statements
    BlockedKeywords,
    Tolerated,        \* the constructs that allow_* settings let through
    TenancyEnabled, RequireTenant,
    NoTenant,
    MaxRows, MaxTables, MaxJoins, MaxDepth

NoLimit == -1

(***************************************************************************)
(* The policy, and the catalogue it leaves.  A pattern is a sequence of    *)
(* parts that is compared with the last parts of a name.                   *)
(***************************************************************************)
Matches(pattern, parts) ==
    /\ Len(pattern) <= Len(parts)
    /\ pattern = SubSeq(parts, Len(parts) - Len(pattern) + 1, Len(parts))

SchemaAllowed(schema) ==
    /\ schema \in SystemSchemas => "system_catalog_not_allowed" \in Tolerated
    /\ AllowedSchemas = {} \/ schema \in AllowedSchemas

TableAllowed(t) ==
    /\ SchemaAllowed(t.schema)
    /\ \A p \in BlockedTables : ~ Matches(p, <<t.schema, t.name>>)

ColumnAllowed(t, c) ==
    /\ TableAllowed(t)
    /\ \A p \in BlockedColumns : ~ Matches(p, <<t.schema, t.name, c>>)

ColumnMasked(schema, table, c) == \E p \in MaskedColumns : Matches(p, <<schema, table, c>>)

VisibleColumns(t) == {c \in ColumnsOf[t] : ColumnAllowed(t, c)}

\* What introspection reports (metadata/introspector.py).
Discovered == {t \in Tables : SchemaAllowed(t.schema) /\ (t \in Views => IncludeViews)}

Catalog == {t \in Discovered : TableAllowed(t) /\ VisibleColumns(t) # {}}

Named(name) == {t \in Catalog : t.name = name}

Ambiguous(ref) == ref.schema = NoName /\ Cardinality(Named(ref.name)) > 1

\* The table a reference resolves to, as a set of at most one.
Resolve(ref) ==
    LET inDefault == {t \in Named(ref.name) : t.schema = DefaultSchema} IN
    IF ref.schema # NoName THEN {t \in Named(ref.name) : t.schema = ref.schema}
    ELSE IF inDefault # {} THEN inDefault
    ELSE {t \in Named(ref.name) : ~ Ambiguous(ref)}

(***************************************************************************)
(* The guard.  st.features holds the constructs the text contains, named   *)
(* by the issue they give rise to, st.nested the kinds of the statements   *)
(* inside it, st.commands the names of what parses as a command only,      *)
(* st.words the keywords among its tokens.                                 *)
(***************************************************************************)
TextFaults ==
    {"empty_statement", "statement_too_long", "reserved_marker_present", "syntax_error",
     "multiple_statements"}

Constructs ==
    {"select_into_not_allowed", "function_not_allowed", "table_function_not_allowed",
     "cross_database_reference", "temp_table_not_allowed", "system_catalog_not_allowed",
     "variables_not_allowed", "placeholder_not_allowed", "blocked_identifier"}

\* A keyword that names a permitted statement is not blocked.
BlockedWords ==
    BlockedKeywords \ (AllowedKinds
        \cup (IF "EXEC" \in AllowedKinds THEN {"EXECUTE"} ELSE {})
        \cup (IF "TRUNCATE" \in AllowedKinds THEN {"TRUNCATE TABLE"} ELSE {}))

\* The kinds of the nodes that are looked for inside a statement (_WRITE_NODES).
WriteKinds ==
    {"INSERT", "UPDATE", "DELETE", "MERGE", "CREATE", "DROP", "ALTER", "TRUNCATE", "EXEC", "DECLARE"}

\* Faulty variant: inside the statement only commands are looked for.
NestedCommandsOnly(st) == IF st.commands \subseteq AllowedKinds THEN {} ELSE {"command_not_allowed"}

NestedIssues(st) ==
    IF (st.nested \cap WriteKinds) \ AllowedKinds # {} THEN {"nested_statement_not_allowed"}
    ELSE IF st.commands \subseteq AllowedKinds THEN {} ELSE {"command_not_allowed"}

\* A reference to a system schema is refused whatever allow_system_catalogs says.
ConstructIssues(st) ==
    st.features \cap (Constructs \ (Tolerated \ {"system_catalog_not_allowed"}))

KeywordIssues(st) == IF st.words \cap BlockedWords = {} THEN {} ELSE {"blocked_keyword"}

GuardIssues(st) ==
    IF st.features \cap TextFaults # {} THEN st.features \cap TextFaults
    ELSE IF st.kind \notin AllowedKinds THEN {"statement_not_allowed"}
    ELSE NestedIssues(st) \cup ConstructIssues(st) \cup KeywordIssues(st)

(***************************************************************************)
(* Resolution.  st.sources maps an alias to [ref, derived, outs]: outs     *)
(* maps the names a derived table produces to the columns they are.        *)
(***************************************************************************)
Aliases(st) == DOMAIN st.sources
Source(st, a) == st.sources[a]
OutputNames(st) == DOMAIN st.outputs \ {NoName}
ResolvedTo(st, a) == IF Ambiguous(Source(st, a).ref) THEN {} ELSE Resolve(Source(st, a).ref)

TableIssues(st) ==
    UNION {IF Ambiguous(Source(st, a).ref) THEN {"ambiguous_table"}
           ELSE IF ResolvedTo(st, a) = {} THEN {"table_not_allowed"} ELSE {} : a \in Aliases(st)}

TablesRead(st) == UNION {ResolvedTo(st, a) : a \in Aliases(st)}

\* The tables of the outer SELECT, of those that resolved, that have the column; and its derived tables that do.
TablesWith(st, name, as) ==
    {a \in as : ~ Source(st, a).derived /\ \E t \in ResolvedTo(st, a) : name \in VisibleColumns(t)}

DerivedWith(st, name, as) ==
    {a \in as : Source(st, a).derived /\ name \in DOMAIN Source(st, a).outs}

\* col binds to a column of the tables in `base`, or to a name a derived table or the projection vouches for.
Binding(st, col, mayBeAlias) ==
    LET as   == IF col.qual = NoName THEN Aliases(st) ELSE Aliases(st) \cap {col.qual}
        base == TablesWith(st, col.name, as)
        made == DerivedWith(st, col.name, as) IN
    IF Cardinality(base) = 1
    THEN {<<t.schema, t.name, col.name>> : t \in UNION {ResolvedTo(st, a) : a \in base}}
    ELSE IF base = {} /\ made # {}
    THEN {<<NoName, col.qual, col.name>>}
    ELSE IF base = {} /\ mayBeAlias /\ col.qual = NoName /\ col.name \in OutputNames(st)
    THEN {<<NoName, NoName, col.name>>}
    ELSE {}

\* A qualifier that matches no source, or a source that did not resolve, is not reported here.
ColumnIssue(st, col, mayBeAlias) ==
    LET as == IF col.qual = NoName THEN Aliases(st) ELSE Aliases(st) \cap {col.qual} IN
    IF Binding(st, col, mayBeAlias) # {} THEN {}
    ELSE IF Cardinality(TablesWith(st, col.name, as)) > 1 THEN {"ambiguous_column"}
    ELSE IF col.qual # NoName /\ \A a \in as : ~ Source(st, a).derived /\ ResolvedTo(st, a) = {}
    THEN {} ELSE {"column_not_allowed"}

OutputReads(st) == UNION {st.outputs[o] : o \in DOMAIN st.outputs}

OrderReads(st) == IF st.order.term = "column" \/ st.order.term = "expression" THEN {st.order.key} ELSE {}

\* Faulty variant: a derived table is taken to produce what it names.
InnerUnresolved(st) == {}

\* The columns inside a derived table are bare, in a scope whose only source is its table.
InnerIssues(st) ==
    UNION {IF ~ Source(st, a).derived \/ ResolvedTo(st, a) = {} THEN {}
           ELSE UNION {IF \E t \in ResolvedTo(st, a) : Source(st, a).outs[o] \in VisibleColumns(t)
                       THEN {} ELSE {"column_not_allowed"} : o \in DOMAIN Source(st, a).outs}
           : a \in Aliases(st)}

ResolveIssues(st) ==
    UNION ({TableIssues(st), InnerIssues(st)}
           \cup {ColumnIssue(st, c, FALSE) : c \in OutputReads(st) \cup st.where}
           \cup {ColumnIssue(st, c, TRUE) : c \in OrderReads(st) \cup st.group})

(***************************************************************************)
(* The structural checks, and the warning about the tables the model says  *)
(* it read.                                                                *)
(***************************************************************************)
StarIssues(st) == IF st.star THEN {"select_star_not_allowed"} \ Tolerated ELSE {}

Joins(st) == Cardinality(Aliases(st)) - 1

CostIssues(st) ==
    (IF Joins(st) > MaxJoins THEN {"too_many_joins"} ELSE {})
    \cup (IF Joins(st) > 0 /\ ~ st.on THEN {"cartesian_join"} \ Tolerated ELSE {})
    \cup (IF Cardinality(TablesRead(st)) > MaxTables THEN {"too_many_tables"} ELSE {})
    \cup (IF MaxDepth = 0 /\ \E a \in Aliases(st) : Source(st, a).derived
          THEN {"subquery_too_deep"} ELSE {})

DeclaredWarning(st) ==
    IF st.declared \subseteq {t.name : t \in TablesRead(st)} THEN {} ELSE {"declared_tables_mismatch"}

(***************************************************************************)
(* Rewriting.  A query is a statement with what was added to it: scoped,   *)
(* the aliases whose table is bound to the tenant; filters, the conditions *)
(* of the wrapping SELECT, if any; what stays inside it (inner...) and     *)
(* what is outside.                                                        *)
(***************************************************************************)
\* The first column of a table that carries a tenant, as a set of at most one.
FirstTenant(t, cols) ==
    {c \in cols \cap TenantColumns : \A d \in cols \cap TenantColumns : Place[t][c] <= Place[t][d]}

TenantColumn(t) == FirstTenant(t, VisibleColumns(t))

\* Faulty variant: the predicate goes to the table of FROM only.
ScopeFirst(st, tenant) ==
    IF ~ TenancyEnabled \/ tenant = NoTenant THEN {}
    ELSE {a \in {st.from} : \E t \in Resolve(Source(st, a).ref) : TenantColumn(t) # {}}

Scope(st, tenant) ==
    IF ~ TenancyEnabled \/ tenant = NoTenant THEN {}
    ELSE {a \in Aliases(st) : \E t \in Resolve(Source(st, a).ref) : TenantColumn(t) # {}}

\* Faulty variant: only an output that is a column is looked at, and not an expression over it.
MaskedColumnsOnly(st) ==
    {o \in OutputNames(st) : Cardinality(st.outputs[o]) = 1 /\ \E c \in st.outputs[o] :
        \E b \in Binding(st, c, FALSE) : ColumnMasked(b[1], b[2], b[3])}

\* A projection without a name is skipped.  find(exp.Select) is the outer SELECT: what a derived table does
\* to a masked column is not seen.
MaskedOutputs(st) ==
    {o \in OutputNames(st) : \E c \in st.outputs[o] :
        \E b \in Binding(st, c, FALSE) : ColumnMasked(b[1], b[2], b[3])}

FilterIssues(st, filters) ==
    UNION {IF f.column \notin OutputNames(st) THEN {"filter_column_unknown"}
           ELSE IF ~ f.valid THEN {"filter_invalid"} ELSE {} : f \in filters}

\* Of a column only the name is looked at, whatever its qualifier.
Liftable(st) ==
    \/ st.order.term \in {"none", "literal"}
    \/ st.order.term = "column" /\ st.order.key.name \in OutputNames(st)

Unordered == [term |-> "none", key |-> [qual |-> NoName, name |-> ""]]

\* The key becomes the wrapped query's output of its name.
LiftOrder(order) == [order EXCEPT !.key.qual = NoName]

Plain(st, tenant) ==
    [st |-> st, tenant |-> tenant, scoped |-> Scope(st, tenant), filters |-> {},
     innerOrder |-> Unordered, innerLimit |-> NoLimit, order |-> st.order, limit |-> st.limit]

\* An ORDER BY on output columns moves out of the wrapped query; any other stays, under a limit of max_rows.
ApplyFilters(q, filters) ==
    IF filters = {} THEN q
    ELSE IF Liftable(q.st)
    THEN [q EXCEPT !.filters = filters, !.order = LiftOrder(q.order),
                   !.innerLimit = q.limit, !.limit = NoLimit]
    ELSE [q EXCEPT !.filters = filters, !.order = Unordered, !.innerOrder = q.order,
                   !.innerLimit = MaxRows, !.limit = NoLimit]

\* The wrapping SELECT names the outputs it passes on.
Produced(q) == IF q.filters = {} THEN DOMAIN q.st.outputs ELSE OutputNames(q.st)

\* Faulty variant: off by one.
RowLimitOneOver(limit) == IF 0 < limit /\ limit <= MaxRows + 1 THEN limit ELSE MaxRows

RowLimit(limit) == IF 0 < limit /\ limit <= MaxRows THEN limit ELSE MaxRows

\* Faulty variant: no row more is read than is shown.
ApplyRowLimitOnly(q) ==
    IF 0 < q.limit /\ q.limit <= MaxRows THEN q ELSE [q EXCEPT !.limit = MaxRows]

\* execution_sql reads one row more than display_sql shows, to see that there was one.
ApplyRowLimit(q) ==
    IF 0 < q.limit /\ q.limit <= MaxRows THEN q ELSE [q EXCEPT !.limit = MaxRows + 1]

StructureIssues(st) == ResolveIssues(st) \cup StarIssues(st) \cup CostIssues(st)

\* The issues validate() stops at, in the order in which it looks for them.
Errors(st, filters) ==
    IF GuardIssues(st) # {} THEN GuardIssues(st)
    ELSE IF StructureIssues(st) # {} THEN StructureIssues(st)
    ELSE FilterIssues(st, filters)

Rewritten(st, tenant, filters) == ApplyRowLimit(ApplyFilters(Plain(st, tenant), filters))
=============================================================================
