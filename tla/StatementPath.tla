--------------------------- MODULE StatementPath ---------------------------
(***************************************************************************)
(* A generated statement from validation to the rows the caller sees:      *)
(* SQLValidator.validate (pipeline/sql_validator.py), the execution of     *)
(* what it returned with its row limit (pipeline/orchestrator.py,          *)
(* pipeline/sql_executor.py), and the masking of the result                *)
(* (pipeline/result_validator.py).                                         *)
(***************************************************************************)
EXTENDS StatementMeaning

CONSTANT Requests  \* the generated statements, each with a tenant and the caller's filters

AllTables == [schema : STRING, name : STRING]
ColumnRef == [qual : STRING \cup {NoName}, name : STRING]

\* What is nested in a statement is a query, or a kind the guard has a node for, or a command.
IsStatement(s) ==
    /\ \E b \in DOMAIN s.sources : DOMAIN s.sources = {s.from, b}
    /\ NoName \notin DOMAIN s.sources
    /\ \A a \in DOMAIN s.sources :
          /\ s.sources[a].ref \in [schema : STRING \cup {NoName}, name : STRING]
          /\ s.sources[a].derived \in BOOLEAN
    /\ DOMAIN s.outputs \subseteq STRING \cup {NoName}
    /\ \A o \in DOMAIN s.outputs : s.outputs[o] \subseteq ColumnRef
    /\ s.where \subseteq ColumnRef /\ s.group \subseteq ColumnRef
    /\ s.order \in [term : {"none", "literal", "column", "expression"}, key : ColumnRef]
    /\ s.nested \subseteq WriteKinds \cup {"SELECT"}
    /\ s.limit \in Nat \cup {NoLimit}

\* The checks an allow_* setting switches off.
Settable ==
    {"select_star_not_allowed", "system_catalog_not_allowed", "cross_database_reference",
     "cartesian_join", "variables_not_allowed", "temp_table_not_allowed"}

ASSUME StatementAssumption ==
    /\ Tables \subseteq AllTables
    /\ \A t \in Tables : Place[t] \in [ColumnsOf[t] -> Nat] /\ IsInjective(Place[t])
    /\ DefaultSchema \in STRING
    /\ Tolerated \subseteq Settable
    /\ MaxRows \in Nat \ {0}
    /\ \A r \in Requests : IsStatement(r.st)

VARIABLES
    request,
    phase,    \* "generated", then "refused", "valid", "failed", "executed", "shown"
    report,   \* the ValidationReport
    result,   \* the ExecutionResult
    shown,    \* the outputs the caller sees in clear
    written   \* the database was changed

vars == <<request, phase, report, result, shown, written>>

NoReport == [issues |-> {}, warnings |-> {}, query |-> {}, masked |-> {}, applied |-> 0]
NoResult == [rows |-> {}, truncated |-> FALSE]

st == request.st

Init ==
    /\ request \in Requests
    /\ phase = "generated"
    /\ report = NoReport /\ result = NoResult /\ shown = {} /\ written = FALSE

\* TenantScoper.apply raises TenantContextError.
TenantMissing ==
    /\ TenancyEnabled /\ RequireTenant /\ request.tenant = NoTenant
    /\ GuardIssues(st) \cup StructureIssues(st) = {}

Refuse ==
    /\ phase = "generated"
    /\ Errors(st, request.filters) # {} \/ TenantMissing
    /\ phase' = "refused"
    /\ report' = [NoReport EXCEPT !.issues =
                    IF TenantMissing THEN {"tenant_required"} ELSE Errors(st, request.filters)]
    /\ UNCHANGED <<request, result, shown, written>>

Validate ==
    /\ phase = "generated"
    /\ Errors(st, request.filters) = {} /\ ~ TenantMissing
    /\ phase' = "valid"
    /\ report' = [issues   |-> {},
                  warnings |-> DeclaredWarning(st)
                               \cup (IF request.filters = {} \/ Liftable(st) THEN {}
                                     ELSE {"ordering_not_preserved"}),
                  query    |-> Rewritten(st, request.tenant, request.filters),
                  masked   |-> MaskedOutputs(st),
                  applied  |-> RowLimit(ApplyFilters(Plain(st, request.tenant), request.filters).limit)]
    /\ UNCHANGED <<request, result, shown, written>>

\* execute() keeps the first max_rows of what the database returns and says whether there was more.
Execute ==
    /\ phase = "valid"
    /\ DbAccepts(report.query)
    /\ \E all \in Results(report.query, Rows) :
          \E kept \in Take(st, report.query.order, all, report.applied) :
              result' = [rows |-> kept, truncated |-> Cardinality(all) > report.applied]
    /\ phase' = "executed"
    /\ written' = Writes(st)
    /\ UNCHANGED <<request, report, shown>>

\* The database may fail at any time, and refuses names it cannot bind.
Fail ==
    /\ phase = "valid"
    /\ phase' = "failed"
    /\ UNCHANGED <<request, report, result, shown, written>>

Show ==
    /\ phase = "executed"
    /\ phase' = "shown"
    /\ shown' = Produced(report.query) \ report.masked
    /\ UNCHANGED <<request, report, result, written>>

Next == Refuse \/ Validate \/ Execute \/ Fail \/ Show

Spec == Init /\ [][Next]_vars

(***************************************************************************)
(* Properties                                                              *)
(***************************************************************************)
TypeOK ==
    /\ phase \in {"generated", "refused", "valid", "failed", "executed", "shown"}
    /\ report.applied \in 0 .. MaxRows
    /\ phase \in {"valid", "executed", "shown"} =>
          /\ report.query.st = st
          /\ report.query.scoped \subseteq Aliases(st)
          /\ report.query.limit \in 1 .. MaxRows + 1
    /\ Cardinality(result.rows) <= report.applied
    /\ shown \subseteq DOMAIN st.outputs
    /\ written \in BOOLEAN

Ran == phase \in {"executed", "shown"}

\* The table an unqualified name means to the validator is the one it means to the database, unless
\* the default schema has a table of that name that the policy hides.
Unshadowed(ref) == ref.schema = NoName /\ DbTable(ref) \in Tables => DbTable(ref) \in Catalog

Agreed == \A a \in Aliases(st) : Unshadowed(Source(st, a).ref)

\* The columns and tables the database reads are those the policy allows.
ReadsVisible(q) ==
    /\ \A a \in Aliases(q.st) :
          /\ TableAllowed(TableOf(q.st, a))
          /\ Source(q.st, a).derived =>
                \A o \in DOMAIN Source(q.st, a).outs : ColumnAllowed(TableOf(q.st, a), Source(q.st, a).outs[o])
    /\ \A c \in BaseReads(q) : \A a \in DbBinding(q.st, c) :
          ColumnAllowed(TableOf(q.st, a), BaseColumn(q.st, a, c.name))

\* A bare name the validator takes for an output and the database for a column: in GROUP BY, in HAVING or in
\* an ORDER BY expression, the name both of an output and of a column that is hidden.
Mistaken(c) ==
    /\ c.qual = NoName /\ c.name \in OutputNames(st)
    /\ ColumnIssue(st, c, FALSE) # {} /\ DbBinding(st, c) # {}

\* Whatever names a statement uses, the tables and the columns the database reads for it, bound by the
\* database's rules and not by the validator's, are those the policy allows.  Left out: names that are
\* Mistaken: sql_validator.py:322 accepts them, so they are read although the policy hides them.
OnlyVisibleDataRead ==
    /\ Ran /\ Agreed
    /\ \A c \in st.group \cup OrderBase(st, report.query.order) \cup OrderBase(st, report.query.innerOrder) :
          ~ Mistaken(c)
    => ReadsVisible(report.query)

\* A statement of a kind that is not permitted, at the root, nested or as SELECT INTO, never changes
\* the database (README: "read only").
NeverWrites == AllowedKinds = {"SELECT"} => ~ written

\* An output that reads a masked column of a table of its SELECT.
ReadsMasked(o) ==
    \E c \in st.outputs[o] : \E a \in DbBinding(st, c) :
        ~ Source(st, a).derived /\ ColumnMasked(TableOf(st, a).schema, TableOf(st, a).name, c.name)

\* A named output computed from a masked column of a table its SELECT reads is never shown in clear, alone or
\* inside an expression (_masked_outputs, ResultValidator.check).  Left out: outputs without a name
\* (sql_validator.py:475 passes over them, so they are shown).
MaskedNeverInClear ==
    phase = "shown" /\ Agreed => \A o \in shown \ {NoName} : ~ ReadsMasked(o)

\* The rows of each table that are the tenant's, by the first of its columns that carries a tenant.
OwnRows ==
    [t \in Tables |->
        IF TenancyEnabled /\ request.tenant # NoTenant
        THEN {r \in Rows[t] : \A c \in FirstTenant(t, ColumnsOf[t]) : r[c] = request.tenant}
        ELSE Rows[t]]

TenantsShown == \A a \in Aliases(st) :
    LET t == TableOf(st, a) IN TenantColumn(t) = FirstTenant(t, ColumnsOf[t])

\* What the statement would answer if the database held the tenant's rows only: its own result, of
\* which the filters keep some, of which the first MaxRows are returned.
Whole ==
    LET plain == [Plain(st, request.tenant) EXCEPT !.scoped = {}] IN
    {{j \in T : Passes(st, request.filters, j)} : T \in Results(plain, OwnRows)}

Exact ==
    \E T \in Whole :
        /\ result.rows \in Take(st, st.order, T, MaxRows)
        /\ result.truncated = (Cardinality(T) > MaxRows)

ScopedTables == {a \in Scope(st, request.tenant) : ~ Source(st, a).derived}

KeepsUnmatched == st.joinKind \in {"right", "full"}

\* What is left out of the comparison of an answer with the statement's own: groups; a statement the database
\* does not accept as it was written; LIMIT 0, which becomes MaxRows; a table whose tenant column the policy
\* hides, which is read whole; a right or full join with a predicate outside a derived table, which the
\* WHERE applies to missing rows and the ON not to unmatched ones (OnlyTenantsRows).
Comparable ==
    /\ Ran /\ Agreed /\ DbAccepts(Plain(st, request.tenant))
    /\ st.group = {} /\ st.limit # 0
    /\ TenantsShown
    /\ KeepsUnmatched => ScopedTables = {}

\* The output that the wrapping SELECT orders by is the column the statement orders by.
LiftKeepsOrder ==
    st.order.term = "column" /\ st.order.key.qual # NoName =>
        \E c \in st.outputs[st.order.key.name] :
            /\ st.outputs[st.order.key.name] = {c}
            /\ c.name = st.order.key.name /\ DbBinding(st, c) = DbBinding(st, st.order.key)

\* Tenant predicates, filters and row limit leave the statement's answer as it is: what was executed is
\* what the statement itself answers over the tenant's rows, cut at MaxRows, and truncated says whether it
\* was cut.  Left out, besides what is not Comparable, are filters: over a limited query
\* (FiltersKeepTheTopRows); over one whose order cannot move out (the warning ordering_not_preserved says so)
\* or becomes another in moving (sql_validator.py:597, 609); and over outputs without a name, which are dropped.
AnswerIsExact ==
    /\ Comparable
    /\ request.filters # {} =>
          st.limit = NoLimit /\ Liftable(st) /\ LiftKeepsOrder /\ NoName \notin DOMAIN st.outputs
    => Exact

\* sql_validator.py:493: "Wrap the query so caller filters apply to its result columns."  The result of
\* a query that orders its rows and limits them is its first rows.
FiltersKeepTheTopRows ==
    /\ Comparable /\ st.order.term # "none" /\ st.limit > 0
    /\ Liftable(st) /\ LiftKeepsOrder
    => Exact

RowsAreTheTenants ==
    \A j \in result.rows : \A a \in Aliases(st) : j[a] = NoRow \/ j[a] \in OwnRows[TableOf(st, a)]

\* tenancy.py:8-12: "every table that carries a tenant column gains a predicate binding that column", in the
\* WHERE or, "so an outer join keeps its semantics", in the ON.  So whatever the join, no row of another tenant
\* is in a result.
OnlyTenantsRows == Ran /\ Agreed /\ TenantsShown => RowsAreTheTenants

\* No row of another tenant is in a result, under any filter, order or limit.  Left out is the one form in
\* which one is (OnlyTenantsRows): a right or full join whose first source has no predicate in the outer
\* WHERE (no tenant column, or a derived table) and whose second has its own in the ON.
TenantsRowsButUnmatched ==
    Ran /\ Agreed /\ TenantsShown /\ (KeepsUnmatched => ScopedTables = {} \/ st.from \in ScopedTables)
    => RowsAreTheTenants
=============================================================================
