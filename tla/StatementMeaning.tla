-------------------------- MODULE StatementMeaning --------------------------
(***************************************************************************)
(* External: what the database does with a statement.  Its tables have     *)
(* rows, a joined row maps the alias of each source to the row it takes,   *)
(* or to NoRow where an outer join found none.  Which rows the statement's *)
(* own WHERE keeps, and which groups it makes, is left out: its clauses    *)
(* read columns and keep every row.                                        *)
(***************************************************************************)
EXTENDS Statement

CONSTANTS
    Rows,        \* Rows[t]: the rows of t, each a function of its columns
    NoRow,
    JoinColumn   \* the column an ON condition compares

\* Of a value only its place in the order counts, so values are integers.
ASSUME RowsAssumption ==
    \A t \in Tables :
        /\ IsFiniteSet(Rows[t]) /\ Rows[t] \subseteq [ColumnsOf[t] -> Int]
        /\ NoRow \notin Rows[t]

\* An unqualified name is looked up in the default schema only.
DbTable(ref) == [schema |-> IF ref.schema = NoName THEN DefaultSchema ELSE ref.schema, name |-> ref.name]

TableOf(st, a) == DbTable(Source(st, a).ref)

DbColumns(st, a) ==
    IF Source(st, a).derived THEN DOMAIN Source(st, a).outs ELSE ColumnsOf[TableOf(st, a)]

\* The column of the table behind a source that a name of the source stands for.
BaseColumn(st, a, name) == IF Source(st, a).derived THEN Source(st, a).outs[name] ELSE name

DbBinding(st, col) ==
    {a \in Aliases(st) : col.qual \in {NoName, a} /\ col.name \in DbColumns(st, a)}

\* Inside an expression, and in GROUP BY and HAVING, a bare name is a column if a source has one of that
\* name, and an output only if none has (or nothing, as the database may be).
OnlyOutput(st, col) ==
    col.qual = NoName /\ col.name \in OutputNames(st) /\ DbBinding(st, col) = {}

\* ORDER BY ranks by an output where the whole term is its name or its place.
OrdersByOutput(st, order) ==
    /\ order.key.name \in OutputNames(st)
    /\ \/ order.term = "literal"
       \/ order.term = "column" /\ order.key.qual = NoName
       \/ order.term = "expression" /\ OnlyOutput(st, order.key)

OrderBase(st, order) ==
    IF order.term \notin {"column", "expression"} \/ OrdersByOutput(st, order) THEN {} ELSE {order.key}

\* The columns of its sources that a query reads.
BaseReads(q) ==
    OutputReads(q.st) \cup q.st.where
    \cup {c \in q.st.group : ~ OnlyOutput(q.st, c)}
    \cup OrderBase(q.st, q.order) \cup OrderBase(q.st, q.innerOrder)

DbAccepts(q) ==
    /\ \A a \in Aliases(q.st) :
          /\ TableOf(q.st, a) \in Tables
          /\ Source(q.st, a).derived =>
                \A o \in DOMAIN Source(q.st, a).outs : Source(q.st, a).outs[o] \in ColumnsOf[TableOf(q.st, a)]
    /\ \A c \in BaseReads(q) : Cardinality(DbBinding(q.st, c)) = 1

Own(q, a, row) ==
    a \in q.scoped =>
        /\ row # NoRow
        /\ \A t \in ResolvedTo(q.st, a) : \A c \in TenantColumn(t) : row[c] = q.tenant

\* The predicate of a derived table is in its own WHERE, that of the first table in the outer WHERE,
\* that of a joined one in its ON.
From(q, rows, a) == {r \in rows[TableOf(q.st, a)] : Source(q.st, a).derived => Own(q, a, r)}

On(q, a, x, y) ==
    /\ q.st.on => x[JoinColumn] = y[JoinColumn]
    /\ ~ Source(q.st, a).derived => Own(q, a, y)

Pair(st, b, x, y) == [a \in Aliases(st) |-> IF a = b THEN y ELSE x]

Matching(q, rows, b) == {p \in From(q, rows, q.st.from) \X From(q, rows, b) : On(q, b, p[1], p[2])}

JoinedWith(q, rows, b) ==
    LET pairs == Matching(q, rows, b)
        alone(kind, S) == IF q.st.joinKind \in {kind, "full"} THEN S ELSE {} IN
    {Pair(q.st, b, p[1], p[2]) : p \in pairs}
    \cup {Pair(q.st, b, x, NoRow) :
            x \in alone("left", {x \in From(q, rows, q.st.from) : \A p \in pairs : p[1] # x})}
    \cup {Pair(q.st, b, NoRow, y) :
            y \in alone("right", {y \in From(q, rows, b) : \A p \in pairs : p[2] # y})}

Joined(q, rows) ==
    LET l   == q.st.from
        all == IF Aliases(q.st) = {l} THEN {[a \in {l} |-> x] : x \in From(q, rows, l)}
               ELSE UNION {JoinedWith(q, rows, b) : b \in Aliases(q.st) \ {l}} IN
    {j \in all : Source(q.st, l).derived \/ Own(q, l, j[l])}

\* The source whose column a name is.
BoundTo(st, col) == CHOOSE a \in DbBinding(st, col) : TRUE

IsNull(st, j, col) == j[BoundTo(st, col)] = NoRow

Value(st, j, col) ==
    IF IsNull(st, j, col) THEN 0
    ELSE LET a == BoundTo(st, col) IN j[a][BaseColumn(st, a, col.name)]

\* What an order ranks by, highest first; no order, or an output that reads no column, ranks all alike.
OrderKeys(st, order) ==
    IF OrdersByOutput(st, order) THEN st.outputs[order.key.name] ELSE OrderBase(st, order)

Rank(st, order, j) ==
    IF OrderKeys(st, order) = {} THEN 0 ELSE Value(st, j, CHOOSE c \in OrderKeys(st, order) : TRUE)

\* The sets of rows that "the first n rows of S" may be.
Take(st, order, S, n) ==
    IF n < 0 \/ n >= Cardinality(S) THEN {S}
    ELSE {T \in kSubset(n, S) : \A x \in T, y \in S \ T : Rank(st, order, x) >= Rank(st, order, y)}

Passes(st, filters, j) ==
    \A f \in filters : \A c \in st.outputs[f.column] : ~ IsNull(st, j, c) /\ Value(st, j, c) \in f.values

\* The results a query may have.
Results(q, rows) ==
    UNION {Take(q.st, q.order, {j \in T : Passes(q.st, q.filters, j)}, q.limit)
           : T \in Take(q.st, q.innerOrder, Joined(q, rows), q.innerLimit)}

\* What a statement does besides reading.
Writes(st) ==
    \/ (st.nested \cup st.commands \cup {st.kind}) \ {"SELECT"} # {}
    \/ "select_into_not_allowed" \in st.features
=============================================================================
