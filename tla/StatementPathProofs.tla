------------------------ MODULE StatementPathProofs ------------------------
(***************************************************************************)
(* What a statement that ran has read and done, for every catalogue,       *)
(* policy and set of statements.  The argument: a report is only made for  *)
(* a statement without issues; a statement without issues resolves each    *)
(* reference to the table the database takes, and each column to one the   *)
(* catalogue shows; and the catalogue shows what the policy allows.        *)
(***************************************************************************)
EXTENDS StatementPath, DataInduction

(***************************************************************************)
(* Lemmas on one statement                                                 *)
(***************************************************************************)

\* A statement without table issues resolves each reference, and to the table the database takes when
\* no hidden table of the default schema has its name.
LEMMA ResolvesAlike ==
    ASSUME NEW s, IsStatement(s), TableIssues(s) = {}, NEW a \in Aliases(s),
           TableOf(s, a) \in Tables, Unshadowed(Source(s, a).ref)
    PROVE  /\ ResolvedTo(s, a) = {TableOf(s, a)}
           /\ TableOf(s, a) \in Catalog
<1> DEFINE ref == Source(s, a).ref
           t   == TableOf(s, a)
<1>1. ref \in [schema : STRING \cup {NoName}, name : STRING]
  BY DEF IsStatement, Aliases, Source
<1>2. ~ Ambiguous(ref) /\ ResolvedTo(s, a) # {}
  BY DEF TableIssues
<1>3. ResolvedTo(s, a) = Resolve(ref)
  BY <1>2 DEF ResolvedTo
<1>4. t.name = ref.name /\ t.schema = (IF ref.schema = NoName THEN DefaultSchema ELSE ref.schema)
  BY DEF TableOf, DbTable
<1>5. \A u \in Named(ref.name) : u \in Catalog /\ u \in AllTables /\ u.name = ref.name
  BY StatementAssumption DEF Named, Catalog, Discovered
<1>6. \A u \in AllTables : u.schema = t.schema /\ u.name = t.name => u = t
  BY StatementAssumption DEF AllTables, TableOf, DbTable
<1>7. CASE ref.schema # NoName
  <2>1. Resolve(ref) = {u \in Named(ref.name) : u.schema = ref.schema}
    BY <1>7 DEF Resolve
  <2>2. \A u \in Resolve(ref) : u = t
    BY <1>4, <1>5, <1>6, <1>7, <2>1
  <2>3. PICK u \in Resolve(ref) : TRUE
    BY <1>2, <1>3
  <2> QED BY <1>3, <1>5, <2>1, <2>2, <2>3
<1>8. CASE ref.schema = NoName
  <2>1. t \in Catalog
    BY <1>8 DEF Unshadowed, TableOf
  <2>2. t \in Named(ref.name) /\ t.schema = DefaultSchema
    BY <1>4, <1>8, <2>1 DEF Named
  <2> DEFINE inDefault == {u \in Named(ref.name) : u.schema = DefaultSchema}
  <2>3. inDefault = {t}
    BY <1>4, <1>5, <1>6, <1>8, <2>2
  <2>4. Resolve(ref) = inDefault
    BY <1>8, <2>3 DEF Resolve
  <2> QED BY <1>3, <2>1, <2>3, <2>4
<1> QED BY <1>7, <1>8

\* A table of the catalogue is allowed, and so is each of its visible columns.
LEMMA CatalogIsAllowed ==
    ASSUME NEW t \in Catalog
    PROVE  TableAllowed(t) /\ \A c \in VisibleColumns(t) : ColumnAllowed(t, c)
BY DEF Catalog, VisibleColumns

\* A statement has finitely many sources.
LEMMA FiniteSources ==
    ASSUME NEW s, IsStatement(s)
    PROVE  IsFiniteSet(Aliases(s))
<1>1. PICK b : Aliases(s) = {s.from} \cup {b}
  BY DEF IsStatement, Aliases
<1>2. IsFiniteSet({s.from}) /\ IsFiniteSet({b})
  BY FS_Singleton
<1>3. IsFiniteSet({s.from} \cup {b})
  BY <1>2, FS_Union
<1> QED BY <1>1, <1>3

\* The aliases of a set that has the cardinality one are one alias.
LEMMA OneAlias ==
    ASSUME NEW s, IsStatement(s), NEW S \in SUBSET Aliases(s), Cardinality(S) = 1
    PROVE  \E a \in Aliases(s) : S = {a}
<1>1. IsFiniteSet(S)
  BY FiniteSources, FS_Subset
<1>2. \E a : S = {a}
  BY <1>1, FS_Singleton
<1> QED BY <1>2

\* When the validator and the database both accept a column of an output or of the WHERE, and the
\* database takes it from a table, the validator has bound it to the same column of the same table.
LEMMA BindsAlike ==
    ASSUME NEW s, IsStatement(s), TableIssues(s) = {},
           \A b \in Aliases(s) : TableOf(s, b) \in Tables /\ Unshadowed(Source(s, b).ref),
           NEW c \in ColumnRef, NEW mayBeAlias \in BOOLEAN,
           mayBeAlias => c.qual # NoName \/ c.name \notin OutputNames(s),
           ColumnIssue(s, c, mayBeAlias) = {},
           Cardinality(DbBinding(s, c)) = 1,
           NEW a \in DbBinding(s, c), ~ Source(s, a).derived
    PROVE  /\ c.name \in VisibleColumns(TableOf(s, a))
           /\ Binding(s, c, mayBeAlias) = {<<TableOf(s, a).schema, TableOf(s, a).name, c.name>>}
<1> DEFINE as   == IF c.qual = NoName THEN Aliases(s) ELSE Aliases(s) \cap {c.qual}
           base == TablesWith(s, c.name, as)
           made == DerivedWith(s, c.name, as)
<1>1. \A b \in Aliases(s) : ResolvedTo(s, b) = {TableOf(s, b)}
  BY ResolvesAlike
<1>2. DbBinding(s, c) = {a} /\ a \in Aliases(s)
  BY OneAlias DEF DbBinding
<1>3. a \in as
  BY <1>2 DEF DbBinding
<1>4. as \subseteq {b \in Aliases(s) : c.qual \in {NoName, b}}
  OBVIOUS
<1>5. base \subseteq {a}
  <2> SUFFICES ASSUME NEW b \in base PROVE b = a
    OBVIOUS
  <2>1. b \in as /\ ~ Source(s, b).derived /\ \E t \in ResolvedTo(s, b) : c.name \in VisibleColumns(t)
    BY DEF TablesWith
  <2>2. c.name \in ColumnsOf[TableOf(s, b)]
    BY <1>1, <1>4, <2>1 DEF VisibleColumns
  <2>3. b \in DbBinding(s, c)
    BY <1>4, <2>1, <2>2 DEF DbBinding, DbColumns
  <2> QED BY <1>2, <2>3
<1>6. made = {}
  <2> SUFFICES ASSUME NEW b \in made PROVE FALSE
    OBVIOUS
  <2>1. b \in as /\ Source(s, b).derived /\ c.name \in DOMAIN Source(s, b).outs
    BY DEF DerivedWith
  <2>2. b \in DbBinding(s, c)
    BY <1>4, <2>1 DEF DbBinding, DbColumns
  <2> QED BY <1>2, <2>1, <2>2
<1>7. base = {a}
  <2> SUFFICES ASSUME base = {} PROVE FALSE
    BY <1>5
  <2>1. Cardinality(base) = 0
    BY FS_EmptySet
  <2>2. Binding(s, c, mayBeAlias) = {}
    BY <1>6, <2>1 DEF Binding
  <2>3. ~ (c.qual # NoName /\ \A b \in as : ~ Source(s, b).derived /\ ResolvedTo(s, b) = {})
    BY <1>1, <1>2, <1>3
  <2>4. ColumnIssue(s, c, mayBeAlias) # {}
    BY <2>2, <2>3 DEF ColumnIssue
  <2> QED BY <2>4
<1>8. c.name \in VisibleColumns(TableOf(s, a))
  <2>1. \E t \in ResolvedTo(s, a) : c.name \in VisibleColumns(t)
    BY <1>7 DEF TablesWith
  <2> QED BY <1>1, <1>2, <2>1
<1>9. Binding(s, c, mayBeAlias) = {<<TableOf(s, a).schema, TableOf(s, a).name, c.name>>}
  <2>1. Cardinality(base) = 1
    BY <1>7, FS_Singleton
  <2>2. UNION {ResolvedTo(s, b) : b \in base} = {TableOf(s, a)}
    BY <1>1, <1>2, <1>7
  <2>3. Binding(s, c, mayBeAlias)
            = {<<t.schema, t.name, c.name>> : t \in UNION {ResolvedTo(s, b) : b \in base}}
    BY <2>1 DEF Binding
  <2> QED BY <2>2, <2>3
<1> QED BY <1>8, <1>9

\* Rewriting leaves no column to order by that the statement did not order by.
LEMMA OrdersWithin ==
    ASSUME NEW s, IsStatement(s), NEW tenant, NEW filters, NEW q, q = Rewritten(s, tenant, filters)
    PROVE  /\ q.st = s
           /\ OrderBase(s, q.order) \cup OrderBase(s, q.innerOrder) \subseteq OrderBase(s, s.order)
<1> DEFINE p == Plain(s, tenant)
           f == ApplyFilters(p, filters)
<1>1. q.st = f.st /\ q.order = f.order /\ q.innerOrder = f.innerOrder
  BY DEF Rewritten, ApplyRowLimit, ApplyFilters, Plain
<1>2. OrderBase(s, Unordered) = {}
  BY DEF OrderBase, Unordered
<1>3. CASE filters = {}
  BY <1>1, <1>2, <1>3 DEF ApplyFilters, Plain
<1>4. CASE filters # {} /\ Liftable(s)
  <2>1. f.st = s /\ f.innerOrder = Unordered /\ f.order = LiftOrder(s.order)
    BY <1>4 DEF ApplyFilters, Plain
  <2>2. OrderBase(s, LiftOrder(s.order)) = {}
    <3>1. /\ LiftOrder(s.order).term = s.order.term
          /\ LiftOrder(s.order).key.name = s.order.key.name
          /\ LiftOrder(s.order).key.qual = NoName
      BY DEF LiftOrder, IsStatement, ColumnRef
    <3> QED BY <1>4, <3>1 DEF OrderBase, OrdersByOutput, Liftable
  <2> QED BY <1>1, <1>2, <2>1, <2>2
<1>5. CASE filters # {} /\ ~ Liftable(s)
  BY <1>1, <1>2, <1>5 DEF ApplyFilters, Plain
<1> QED BY <1>3, <1>4, <1>5

\* What the database reads for a statement without issues is what the policy allows, if no name is one
\* that it takes for a column and the validator for an output.
LEMMA ReadsAreAllowed ==
    ASSUME NEW q, NEW s, q.st = s, IsStatement(s), StructureIssues(s) = {}, DbAccepts(q),
           \A b \in Aliases(s) : Unshadowed(Source(s, b).ref),
           OrderBase(s, q.order) \cup OrderBase(s, q.innerOrder) \subseteq OrderBase(s, s.order),
           \A c \in s.group \cup OrderBase(s, q.order) \cup OrderBase(s, q.innerOrder) :
               c.qual = NoName /\ c.name \in OutputNames(s) /\ DbBinding(s, c) # {}
                   => ColumnIssue(s, c, FALSE) = {}
    PROVE  ReadsVisible(q)
<1>1. /\ TableIssues(s) = {} /\ InnerIssues(s) = {}
      /\ \A c \in OutputReads(s) \cup s.where : ColumnIssue(s, c, FALSE) = {}
      /\ \A c \in OrderReads(s) \cup s.group : ColumnIssue(s, c, TRUE) = {}
  <2> DEFINE parts == {TableIssues(s), InnerIssues(s)}
                      \cup {ColumnIssue(s, c, FALSE) : c \in OutputReads(s) \cup s.where}
                      \cup {ColumnIssue(s, c, TRUE) : c \in OrderReads(s) \cup s.group}
  <2>1. UNION parts = {}
    BY DEF StructureIssues, ResolveIssues
  <2>2. \A X \in parts : X = {}
    <3> HIDE DEF parts
    <3> QED BY <2>1
  <2>3. TableIssues(s) \in parts /\ InnerIssues(s) \in parts
    OBVIOUS
  <2>4. \A c \in OutputReads(s) \cup s.where : ColumnIssue(s, c, FALSE) \in parts
    OBVIOUS
  <2>5. \A c \in OrderReads(s) \cup s.group : ColumnIssue(s, c, TRUE) \in parts
    OBVIOUS
  <2> HIDE DEF parts
  <2> QED BY <2>2, <2>3, <2>4, <2>5
<1>2. \A a \in Aliases(s) : TableOf(s, a) \in Tables
  BY DEF DbAccepts
<1>3. \A a \in Aliases(s) : ResolvedTo(s, a) = {TableOf(s, a)} /\ TableOf(s, a) \in Catalog
  BY <1>1, <1>2, ResolvesAlike
<1>4. ASSUME NEW a \in Aliases(s), Source(s, a).derived, NEW o \in DOMAIN Source(s, a).outs
      PROVE  ColumnAllowed(TableOf(s, a), Source(s, a).outs[o])
  <2>1. \E t \in ResolvedTo(s, a) : Source(s, a).outs[o] \in VisibleColumns(t)
    BY <1>1, <1>3, <1>4 DEF InnerIssues
  <2> QED BY <1>3, <2>1, CatalogIsAllowed
<1>5. ASSUME NEW c \in BaseReads(q), NEW a \in DbBinding(s, c)
      PROVE  ColumnAllowed(TableOf(s, a), BaseColumn(s, a, c.name))
  <2>1. a \in Aliases(s) /\ c.name \in DbColumns(s, a)
    BY DEF DbBinding
  <2>2. CASE Source(s, a).derived
    <3>1. c.name \in DOMAIN Source(s, a).outs
      BY <2>1, <2>2 DEF DbColumns
    <3> QED BY <1>4, <2>1, <2>2, <3>1 DEF BaseColumn
  <2>3. CASE ~ Source(s, a).derived
    <3>1. Cardinality(DbBinding(s, c)) = 1
      BY DEF DbAccepts
    <3>2. PICK alias \in BOOLEAN :
            /\ alias => c.qual # NoName \/ c.name \notin OutputNames(s)
            /\ ColumnIssue(s, c, alias) = {}
      <4>1. CASE c \in OutputReads(s) \cup s.where
        BY <1>1, <4>1
      <4>2. CASE c \in s.group \cup OrderBase(s, q.order) \cup OrderBase(s, q.innerOrder)
        <5>1. c \in OrderReads(s) \cup s.group
          BY <4>2 DEF OrderBase, OrderReads
        <5>2. CASE c.qual = NoName /\ c.name \in OutputNames(s)
          <6>1. ColumnIssue(s, c, FALSE) = {}
            BY <4>2, <5>2
          <6> QED BY <6>1
        <5>3. CASE ~ (c.qual = NoName /\ c.name \in OutputNames(s))
          <6>1. ColumnIssue(s, c, TRUE) = {}
            BY <1>1, <5>1
          <6> QED BY <5>3, <6>1
        <5> QED BY <5>2, <5>3
      <4> QED BY <4>1, <4>2 DEF BaseReads
    <3>3. c \in ColumnRef
      BY DEF BaseReads, OutputReads, OrderBase, IsStatement
    <3>4. c.name \in VisibleColumns(TableOf(s, a))
      BY <1>1, <1>2, <2>3, <3>1, <3>2, <3>3, BindsAlike
    <3> QED BY <1>3, <2>1, <2>3, <3>4, CatalogIsAllowed DEF BaseColumn
  <2> QED BY <2>2, <2>3
<1> QED BY <1>3, <1>4, <1>5, CatalogIsAllowed DEF ReadsVisible

\* A statement the guard passes where only SELECT is allowed changes nothing.
LEMMA GuardedReadsOnly ==
    ASSUME NEW s, IsStatement(s), GuardIssues(s) = {}, AllowedKinds = {"SELECT"}
    PROVE  ~ Writes(s)
<1>1. s.features \cap TextFaults = {} /\ s.kind \in AllowedKinds
  BY DEF GuardIssues
<1>2. NestedIssues(s) = {} /\ ConstructIssues(s) = {}
  BY <1>1 DEF GuardIssues
<1>3. s.nested \subseteq {"SELECT"} /\ s.commands \subseteq {"SELECT"}
  BY <1>2 DEF NestedIssues, IsStatement
<1>4. "select_into_not_allowed" \notin s.features
  BY <1>2, StatementAssumption DEF ConstructIssues, Constructs, Settable
<1> QED BY <1>1, <1>3, <1>4 DEF Writes

\* Taking the first n rows of a set leaves at most n.
LEMMA TakeBounds ==
    ASSUME NEW s, NEW S, NEW order, NEW n \in Nat, NEW T \in Take(s, order, S, n)
    PROVE  Cardinality(T) <= n
<1>1. CASE n >= Cardinality(S)
  BY <1>1 DEF Take
<1>2. CASE ~ (n < 0 \/ n >= Cardinality(S))
  <2>1. T \in kSubset(n, S)
    BY <1>2 DEF Take
  <2> QED BY <2>1 DEF kSubset
<1> QED BY <1>1, <1>2

(***************************************************************************)
(* Lemmas on the joined rows                                               *)
(***************************************************************************)

\* A joined row takes for each source a row of its table, or none.
LEMMA JoinedShape ==
    ASSUME NEW q, IsStatement(q.st), NEW rows, NEW j \in Joined(q, rows)
    PROVE  /\ j = [a \in Aliases(q.st) |-> j[a]]
           /\ \A a \in Aliases(q.st) : j[a] = NoRow \/ j[a] \in rows[TableOf(q.st, a)]
<1> DEFINE l == q.st.from
<1>1. PICK c : Aliases(q.st) = {l, c}
  BY DEF IsStatement, Aliases
<1>2. \A a : From(q, rows, a) \subseteq rows[TableOf(q.st, a)]
  BY DEF From
<1>3. CASE Aliases(q.st) = {l}
  <2>1. PICK x \in From(q, rows, l) : j = [a \in {l} |-> x]
    BY <1>3 DEF Joined
  <2> QED BY <1>2, <1>3, <2>1
<1>4. CASE Aliases(q.st) # {l}
  <2>1. PICK b \in Aliases(q.st) \ {l} : j \in JoinedWith(q, rows, b)
    BY <1>4 DEF Joined
  <2>2. PICK x \in From(q, rows, l) \cup {NoRow}, y \in From(q, rows, b) \cup {NoRow} : j = Pair(q.st, b, x, y)
    BY <2>1 DEF JoinedWith, Matching
  <2>3. Aliases(q.st) = {l, b}
    BY <1>1, <2>1
  <2>4. j = [a \in Aliases(q.st) |-> IF a = b THEN y ELSE x]
    BY <2>2 DEF Pair
  <2>5. j[b] = y /\ j[l] = x
    BY <2>1, <2>3, <2>4
  <2> QED BY <1>2, <2>2, <2>3, <2>4, <2>5
<1> QED BY <1>3, <1>4

\* Finitely many rows join to finitely many.
LEMMA JoinedFinite ==
    ASSUME NEW q, IsStatement(q.st), NEW rows, \A a \in Aliases(q.st) : IsFiniteSet(rows[TableOf(q.st, a)])
    PROVE  IsFiniteSet(Joined(q, rows))
<1> DEFINE l == q.st.from
<1>1. PICK b : Aliases(q.st) = {l, b}
  BY DEF IsStatement, Aliases
<1> DEFINE X == rows[TableOf(q.st, l)] \cup {NoRow}
           Y == rows[TableOf(q.st, b)] \cup {NoRow}
           row == [p \in X \X Y |-> Pair(q.st, b, p[1], p[2])]
           image == {row[p] : p \in X \X Y}
<1>2. IsFiniteSet(X \X Y)
  <2>1. IsFiniteSet(X) /\ IsFiniteSet(Y)
    BY <1>1, FS_Singleton, FS_Union
  <2> HIDE DEF X, Y
  <2> QED BY <2>1, FS_Product
<1>3. IsFiniteSet(image)
  <2>1. row \in Surjection(X \X Y, image)
    BY DEF Surjection
  <2> HIDE DEF X, Y, row, image
  <2> QED BY <1>2, <2>1, FS_Surjection
<1>4. Joined(q, rows) \subseteq image
  <2> SUFFICES ASSUME NEW j \in Joined(q, rows) PROVE j \in image
    OBVIOUS
  <2>1. j = [a \in Aliases(q.st) |-> j[a]] /\ j[l] \in X /\ j[b] \in Y
    BY <1>1, JoinedShape
  <2>2. j = [a \in Aliases(q.st) |-> IF a = b THEN j[b] ELSE j[l]]
    <3>1. \A a \in Aliases(q.st) : j[a] = IF a = b THEN j[b] ELSE j[l]
      BY <1>1
    <3> QED BY <2>1, <3>1
  <2>3. <<j[l], j[b]>> \in X \X Y /\ j = row[<<j[l], j[b]>>]
    BY <2>1, <2>2 DEF Pair
  <2> HIDE DEF row
  <2> QED BY <2>3
<1> QED BY <1>3, <1>4, FS_Subset

\* The order ranks every joined row of a query the database accepts.
LEMMA RanksAreInts ==
    ASSUME NEW q, IsStatement(q.st), DbAccepts(q), NEW rows,
           \A a \in Aliases(q.st) : rows[TableOf(q.st, a)] \subseteq Rows[TableOf(q.st, a)],
           NEW j \in Joined(q, rows)
    PROVE  Rank(q.st, q.order, j) \in Int
<1> DEFINE s == q.st
           keys == OrderKeys(s, q.order)
<1> SUFFICES ASSUME keys # {} PROVE Rank(s, q.order, j) \in Int
  BY DEF Rank
<1>1. PICK c \in keys : Rank(s, q.order, j) = Value(s, j, c)
  BY DEF Rank
<1>2. c \in BaseReads(q)
  <2>1. OrdersByOutput(s, q.order) => c \in OutputReads(s)
    BY DEF OrderKeys, OrdersByOutput, OutputReads, OutputNames
  <2>2. ~ OrdersByOutput(s, q.order) => c \in OrderBase(s, q.order)
    BY DEF OrderKeys
  <2> QED BY <2>1, <2>2 DEF BaseReads
<1>3. DbBinding(s, c) # {}
  <2>1. Cardinality(DbBinding(s, c)) = 1
    BY <1>2 DEF DbAccepts
  <2> QED BY <2>1, FS_EmptySet
<1>4. PICK a \in DbBinding(s, c) : Value(s, j, c) = IF j[a] = NoRow THEN 0 ELSE j[a][BaseColumn(s, a, c.name)]
  BY <1>3 DEF Value, IsNull, BoundTo
<1>5. a \in Aliases(s) /\ c.name \in DbColumns(s, a)
  BY DEF DbBinding
<1>6. TableOf(s, a) \in Tables /\ BaseColumn(s, a, c.name) \in ColumnsOf[TableOf(s, a)]
  BY <1>5 DEF DbAccepts, DbColumns, BaseColumn
<1>7. j[a] = NoRow \/ j[a] \in [ColumnsOf[TableOf(s, a)] -> Int]
  BY <1>5, <1>6, JoinedShape, RowsAssumption
<1>8. Value(s, j, c) \in Int
  BY <1>4, <1>6, <1>7
<1> QED BY <1>1, <1>8

\* What the rows of one join are.
LEMMA JoinedWithIs ==
    ASSUME NEW q, NEW rows, NEW b, NEW j
    PROVE  j \in JoinedWith(q, rows, b) <=>
              \/ \E x, y : <<x, y>> \in Matching(q, rows, b) /\ j = Pair(q.st, b, x, y)
              \/ /\ q.st.joinKind \in {"left", "full"}
                 /\ \E x \in From(q, rows, q.st.from) :
                       (\A y : <<x, y>> \notin Matching(q, rows, b)) /\ j = Pair(q.st, b, x, NoRow)
              \/ /\ q.st.joinKind \in {"right", "full"}
                 /\ \E y \in From(q, rows, b) :
                       (\A x : <<x, y>> \notin Matching(q, rows, b)) /\ j = Pair(q.st, b, NoRow, y)
<1> DEFINE pairs == Matching(q, rows, b)
<1>1. \A p \in pairs : p = <<p[1], p[2]>>
  BY DEF Matching
<1>2. \A x : (\A p \in pairs : p[1] # x) <=> \A y : <<x, y>> \notin pairs
  BY <1>1
<1>3. \A y : (\A p \in pairs : p[2] # y) <=> \A x : <<x, y>> \notin pairs
  BY <1>1
<1>4. (\E p \in pairs : j = Pair(q.st, b, p[1], p[2])) <=> \E x, y : <<x, y>> \in pairs /\ j = Pair(q.st, b, x, y)
  BY <1>1
<1>5. j \in JoinedWith(q, rows, b) <=>
         \/ \E p \in pairs : j = Pair(q.st, b, p[1], p[2])
         \/ /\ q.st.joinKind \in {"left", "full"}
            /\ \E x \in From(q, rows, q.st.from) : (\A p \in pairs : p[1] # x) /\ j = Pair(q.st, b, x, NoRow)
         \/ /\ q.st.joinKind \in {"right", "full"}
            /\ \E y \in From(q, rows, b) : (\A p \in pairs : p[2] # y) /\ j = Pair(q.st, b, NoRow, y)
  BY DEF JoinedWith
<1> HIDE DEF pairs
<1>6. QED BY <1>2, <1>3, <1>4, <1>5 DEF pairs

\* Scoping every source of a statement joins the rows its tables would join if they held the tenant's only.
LEMMA JoinsAlike ==
    ASSUME NEW q, NEW p, NEW s, q.st = s, p.st = s, p.scoped = {}, NEW own,
           \A a \in Aliases(s) : own[TableOf(s, a)] = {r \in Rows[TableOf(s, a)] : Own(q, a, r)},
           s.from \in Aliases(s),
           s.joinKind \in {"right", "full"} => \A a \in q.scoped \cap Aliases(s) : Source(s, a).derived
    PROVE  Joined(q, Rows) = Joined(p, own)
<1> DEFINE l == s.from
           O(a) == own[TableOf(s, a)]
           keeps(j) == Source(s, l).derived \/ Own(q, l, j[l])
<1>1. \A a, r : Own(p, a, r)
  BY DEF Own
<1>2. \A a \in Aliases(s) : From(p, own, a) = O(a)
  BY <1>1 DEF From
<1>3. \A a \in Aliases(s) : \A r : r \in O(a) <=> r \in From(q, Rows, a) /\ (Source(s, a).derived \/ Own(q, a, r))
  BY DEF From
<1>4. \A b \in Aliases(s) : \A x, y :
          <<x, y>> \in Matching(p, own, b) <=> <<x, y>> \in Matching(q, Rows, b) /\ x \in O(l)
  <2> SUFFICES ASSUME NEW b \in Aliases(s), NEW x, NEW y
               PROVE  <<x, y>> \in Matching(p, own, b) <=> <<x, y>> \in Matching(q, Rows, b) /\ x \in O(l)
    OBVIOUS
  <2>1. <<x, y>> \in Matching(p, own, b)
            <=> x \in O(l) /\ y \in O(b) /\ (s.on => x[JoinColumn] = y[JoinColumn])
    BY <1>1, <1>2 DEF Matching, On
  <2>2. <<x, y>> \in Matching(q, Rows, b)
            <=> /\ x \in From(q, Rows, l) /\ y \in From(q, Rows, b)
                /\ s.on => x[JoinColumn] = y[JoinColumn]
                /\ ~ Source(s, b).derived => Own(q, b, y)
    BY DEF Matching, On
  <2>3. x \in O(l) => x \in From(q, Rows, l)
    BY <1>3
  <2>4. y \in O(b) <=> y \in From(q, Rows, b) /\ (~ Source(s, b).derived => Own(q, b, y))
    BY <1>3
  <2> QED BY <2>1, <2>2, <2>3, <2>4
<1>5. \A b \in Aliases(s) \ {l} : \A x, y : Pair(s, b, x, y)[l] = x
  BY DEF Pair
<1>6. \A b : \A x, y : <<x, y>> \in Matching(q, Rows, b) => x \in From(q, Rows, l)
  BY DEF Matching
<1>7. \A b \in Aliases(s) \ {l} : \A j :
          j \in JoinedWith(q, Rows, b) /\ keeps(j) <=> j \in JoinedWith(p, own, b)
  <2> SUFFICES ASSUME NEW b \in Aliases(s) \ {l}, NEW j
               PROVE  j \in JoinedWith(q, Rows, b) /\ keeps(j) <=> j \in JoinedWith(p, own, b)
    OBVIOUS
  <2> DEFINE M  == Matching(q, Rows, b)
             M0 == Matching(p, own, b)
  <2>1. \A x, y : <<x, y>> \in M0 <=> <<x, y>> \in M /\ x \in O(l)
    BY <1>4
  <2>2. \A x, y : <<x, y>> \in M => x \in From(q, Rows, l)
    BY <1>6
  <2>3. \A x, y : j = Pair(s, b, x, y) => (keeps(j) <=> Source(s, l).derived \/ Own(q, l, x))
    BY <1>5
  <2>4. \A x : x \in O(l) <=> x \in From(q, Rows, l) /\ (Source(s, l).derived \/ Own(q, l, x))
    BY <1>3
  <2>5. s.joinKind \in {"right", "full"} =>
           /\ \A a \in Aliases(s) : \A x : Source(s, a).derived \/ Own(q, a, x)
           /\ \A x : x \in O(l) <=> x \in From(q, Rows, l)
           /\ \A y : y \in O(b) <=> y \in From(q, Rows, b)
    BY <1>3 DEF Own
  <2>6. From(p, own, l) = O(l) /\ From(p, own, b) = O(b)
    BY <1>2
  <2> HIDE DEF M, M0, O, keeps
  <2>7. ASSUME j \in JoinedWith(q, Rows, b), keeps(j) PROVE j \in JoinedWith(p, own, b)
    <3>1. CASE \E x, y : <<x, y>> \in M /\ j = Pair(s, b, x, y)
      <4>1. PICK x, y : <<x, y>> \in M /\ j = Pair(s, b, x, y)
        BY <3>1
      <4>2. <<x, y>> \in M0
        BY <2>1, <2>2, <2>3, <2>4, <2>7, <4>1
      <4> QED BY <4>1, <4>2, JoinedWithIs DEF M0
    <3>2. CASE /\ s.joinKind \in {"left", "full"}
               /\ \E x \in From(q, Rows, l) : (\A y : <<x, y>> \notin M) /\ j = Pair(s, b, x, NoRow)
      <4>1. PICK x \in From(q, Rows, l) : (\A y : <<x, y>> \notin M) /\ j = Pair(s, b, x, NoRow)
        BY <3>2
      <4>2. x \in O(l) /\ \A y : <<x, y>> \notin M0
        BY <2>1, <2>3, <2>4, <2>7, <4>1
      <4> QED BY <2>6, <3>2, <4>1, <4>2, JoinedWithIs DEF M0
    <3>3. CASE /\ s.joinKind \in {"right", "full"}
               /\ \E y \in From(q, Rows, b) : (\A x : <<x, y>> \notin M) /\ j = Pair(s, b, NoRow, y)
      <4>1. PICK y \in From(q, Rows, b) : (\A x : <<x, y>> \notin M) /\ j = Pair(s, b, NoRow, y)
        BY <3>3
      <4>2. y \in O(b) /\ \A x : <<x, y>> \notin M0
        BY <2>1, <2>5, <3>3, <4>1
      <4> QED BY <2>6, <3>3, <4>1, <4>2, JoinedWithIs DEF M0
    <3>4. \/ \E x, y : <<x, y>> \in M /\ j = Pair(q.st, b, x, y)
          \/ /\ q.st.joinKind \in {"left", "full"}
             /\ \E x \in From(q, Rows, q.st.from) : (\A y : <<x, y>> \notin M) /\ j = Pair(q.st, b, x, NoRow)
          \/ /\ q.st.joinKind \in {"right", "full"}
             /\ \E y \in From(q, Rows, b) : (\A x : <<x, y>> \notin M) /\ j = Pair(q.st, b, NoRow, y)
      BY <2>7, JoinedWithIs DEF M
    <3> QED BY <3>1, <3>2, <3>3, <3>4
  <2>8. ASSUME j \in JoinedWith(p, own, b) PROVE j \in JoinedWith(q, Rows, b) /\ keeps(j)
    <3>1. CASE \E x, y : <<x, y>> \in M0 /\ j = Pair(s, b, x, y)
      <4>1. PICK x, y : <<x, y>> \in M0 /\ j = Pair(s, b, x, y)
        BY <3>1
      <4>2. <<x, y>> \in M /\ keeps(j)
        BY <2>1, <2>3, <2>4, <4>1
      <4> QED BY <4>1, <4>2, JoinedWithIs DEF M
    <3>2. CASE /\ s.joinKind \in {"left", "full"}
               /\ \E x \in O(l) : (\A y : <<x, y>> \notin M0) /\ j = Pair(s, b, x, NoRow)
      <4>1. PICK x \in O(l) : (\A y : <<x, y>> \notin M0) /\ j = Pair(s, b, x, NoRow)
        BY <3>2
      <4>2. x \in From(q, Rows, l) /\ keeps(j) /\ \A y : <<x, y>> \notin M
        BY <2>1, <2>3, <2>4, <4>1
      <4> QED BY <3>2, <4>1, <4>2, JoinedWithIs DEF M
    <3>3. CASE /\ s.joinKind \in {"right", "full"}
               /\ \E y \in O(b) : (\A x : <<x, y>> \notin M0) /\ j = Pair(s, b, NoRow, y)
      <4>1. PICK y \in O(b) : (\A x : <<x, y>> \notin M0) /\ j = Pair(s, b, NoRow, y)
        BY <3>3
      <4>2. y \in From(q, Rows, b) /\ keeps(j)
        BY <2>3, <2>5, <3>3, <4>1
      <4>3. \A x : <<x, y>> \notin M
        BY <2>1, <2>2, <2>4, <2>5, <3>3, <4>1
      <4> QED BY <3>3, <4>1, <4>2, <4>3, JoinedWithIs DEF M
    <3>4. \/ \E x, y : <<x, y>> \in M0 /\ j = Pair(p.st, b, x, y)
          \/ /\ p.st.joinKind \in {"left", "full"}
             /\ \E x \in From(p, own, p.st.from) : (\A y : <<x, y>> \notin M0) /\ j = Pair(p.st, b, x, NoRow)
          \/ /\ p.st.joinKind \in {"right", "full"}
             /\ \E y \in From(p, own, b) : (\A x : <<x, y>> \notin M0) /\ j = Pair(p.st, b, NoRow, y)
      BY <2>8, JoinedWithIs DEF M0
    <3> QED BY <2>6, <3>1, <3>2, <3>3, <3>4
  <2> QED BY <2>7, <2>8
<1>8. CASE Aliases(s) = {l}
  <2>1. Joined(q, Rows) = {j \in {[a \in {l} |-> x] : x \in From(q, Rows, l)} : keeps(j)}
    BY <1>8 DEF Joined
  <2>2. Joined(p, own) = {[a \in {l} |-> x] : x \in O(l)}
    <3>1. Joined(p, own) = {j \in {[a \in {l} |-> x] : x \in From(p, own, l)} :
                               Source(s, l).derived \/ Own(p, l, j[l])}
      BY <1>8 DEF Joined
    <3>2. From(p, own, l) = O(l)
      BY <1>2
    <3> HIDE DEF O
    <3> QED BY <1>1, <3>1, <3>2
  <2>3. \A x : [a \in {l} |-> x][l] = x
    OBVIOUS
  <2>4. \A x : x \in O(l) <=> x \in From(q, Rows, l) /\ keeps([a \in {l} |-> x])
    BY <1>3, <2>3
  <2> HIDE DEF O, keeps
  <2>5. \A j : j \in Joined(q, Rows) <=> \E x \in From(q, Rows, l) : j = [a \in {l} |-> x] /\ keeps(j)
    BY <2>1
  <2>6. \A j : j \in Joined(p, own) <=> \E x \in O(l) : j = [a \in {l} |-> x]
    BY <2>2
  <2>7. ASSUME NEW j PROVE j \in Joined(q, Rows) <=> j \in Joined(p, own)
    <3>1. ASSUME j \in Joined(q, Rows) PROVE j \in Joined(p, own)
      <4>1. PICK x \in From(q, Rows, l) : j = [a \in {l} |-> x] /\ keeps(j)
        BY <2>5, <3>1
      <4>2. x \in O(l)
        BY <2>4, <4>1
      <4> QED BY <2>6, <4>1, <4>2
    <3>2. ASSUME j \in Joined(p, own) PROVE j \in Joined(q, Rows)
      <4>1. PICK x \in O(l) : j = [a \in {l} |-> x]
        BY <2>6, <3>2
      <4>2. x \in From(q, Rows, l) /\ keeps(j)
        BY <2>4, <4>1
      <4> QED BY <2>5, <4>1, <4>2
    <3> QED BY <3>1, <3>2
  <2> QED BY <2>7
<1>9. CASE Aliases(s) # {l}
  <2>1. \A j : j \in Joined(q, Rows) <=> \E b \in Aliases(s) \ {l} : j \in JoinedWith(q, Rows, b) /\ keeps(j)
    BY <1>9 DEF Joined
  <2>2. \A j : j \in Joined(p, own) <=> \E b \in Aliases(s) \ {l} : j \in JoinedWith(p, own, b)
    BY <1>1, <1>9 DEF Joined
  <2> HIDE DEF keeps
  <2>3. \A j : j \in Joined(q, Rows) <=> j \in Joined(p, own)
    BY <1>7, <2>1, <2>2
  <2> QED BY <2>3
<1> QED BY <1>8, <1>9

(***************************************************************************)
(* Lemmas on the first rows of a set                                       *)
(***************************************************************************)

Ranks(s, order, S) == [x \in S |-> Rank(s, order, x)]

\* A limit that is none, or that is not reached, takes everything.
LEMMA TakeAll ==
    ASSUME NEW s, NEW S, NEW order, NEW n, n < 0 \/ n >= Cardinality(S)
    PROVE  Take(s, order, S, n) = {S}
BY DEF Take

\* Any other limit takes n rows, of the highest ranks where there is an order.
LEMMA TakeSome ==
    ASSUME NEW s, NEW S, NEW order, NEW n \in Nat, ~ (n >= Cardinality(S)), NEW T
    PROVE  T \in Take(s, order, S, n)
              <=> /\ T \in SUBSET S /\ Cardinality(T) = n
                  /\ \A x \in T : \A y \in S \ T : Rank(s, order, x) >= Rank(s, order, y)
BY DEF Take, kSubset

\* The first m rows are among the first n, where n is more or no limit.
LEMMA TakeWidens ==
    ASSUME NEW s, NEW order, NEW S, IsFiniteSet(S), \A x \in S : Rank(s, order, x) \in Int,
           NEW m \in Nat, NEW some \in Take(s, order, S, m), NEW n \in Int, n < 0 \/ n >= m
    PROVE  \E T \in Take(s, order, S, n) : T \in SUBSET S /\ some \subseteq T /\ (Cardinality(S) <= m => T = S)
<1>0. Cardinality(S) \in Nat
  BY FS_CardinalityType
<1>1. some \in SUBSET S
  BY <1>0, TakeAll, TakeSome
<1>2. CASE n < 0 \/ n >= Cardinality(S)
  <2>1. Take(s, order, S, n) = {S}
    BY <1>2, TakeAll
  <2> QED BY <1>1, <2>1
<1>3. CASE ~ (n < 0 \/ n >= Cardinality(S))
  <2>1. n \in Nat /\ m <= n /\ n <= Cardinality(S) /\ ~ (m >= Cardinality(S))
    BY <1>0, <1>3
  <2>2. Cardinality(some) = m /\ Top(some, S, Ranks(s, order, S))
    <3>1. /\ Cardinality(some) = m
          /\ \A x \in some : \A y \in S \ some : Rank(s, order, x) >= Rank(s, order, y)
      BY <2>1, TakeSome
    <3> QED BY <1>1, <3>1 DEF Top, Ranks
  <2>3. Ranks(s, order, S) \in [S -> Int]
    BY DEF Ranks
  <2>4. PICK T \in SUBSET S : /\ some \subseteq T /\ Cardinality(T) = n
                              /\ Top(T, S, Ranks(s, order, S))
    BY <1>1, <2>1, <2>2, <2>3, TopExtends
  <2>5. \A x \in T : \A y \in S \ T : Rank(s, order, x) >= Rank(s, order, y)
    BY <2>4 DEF Top, Ranks
  <2>6. T \in Take(s, order, S, n)
    BY <1>3, <2>1, <2>4, <2>5, TakeSome
  <2>7. ~ (Cardinality(S) <= m)
    BY <1>0, <2>1
  <2> QED BY <2>4, <2>6, <2>7
<1> QED BY <1>2, <1>3

\* Of the first n + 1 rows of S, the first n are the first n of any set between, and there is a last one
\* exactly when that set has more than n.
LEMMA OneMoreTells ==
    ASSUME NEW s, NEW S, IsFiniteSet(S), NEW order, NEW n \in Nat, NEW some \in Take(s, order, S, n + 1),
           NEW T \in SUBSET S, some \subseteq T, Cardinality(S) <= n + 1 => T = S,
           NEW kept \in Take(s, order, some, n)
    PROVE  kept \in Take(s, order, T, n) /\ (Cardinality(some) > n <=> Cardinality(T) > n)
<1>0. Cardinality(S) \in Nat /\ IsFiniteSet(T) /\ Cardinality(T) \in Nat
  BY FS_CardinalityType, FS_Subset
<1>1. CASE Cardinality(S) <= n + 1
  <2>1. some = S
    BY <1>0, <1>1, TakeAll
  <2> QED BY <1>1, <2>1
<1>2. CASE ~ (Cardinality(S) <= n + 1)
  <2>1. ~ (n + 1 >= Cardinality(S)) /\ n + 1 \in Nat
    BY <1>0, <1>2
  <2>2. /\ some \in SUBSET S /\ Cardinality(some) = n + 1
        /\ \A x \in some : \A y \in S \ some : Rank(s, order, x) >= Rank(s, order, y)
    BY <2>1, TakeSome
  <2>3. Cardinality(some) <= Cardinality(T)
    BY <1>0, FS_Subset
  <2>4. ~ (n >= Cardinality(some)) /\ ~ (n >= Cardinality(T)) /\ Cardinality(some) > n /\ Cardinality(T) > n
    BY <1>0, <2>2, <2>3
  <2>5. /\ kept \in SUBSET some /\ Cardinality(kept) = n
        /\ \A x \in kept : \A y \in some \ kept : Rank(s, order, x) >= Rank(s, order, y)
    BY <2>4, TakeSome
  <2>6. \A x \in kept : \A y \in T \ kept : Rank(s, order, x) >= Rank(s, order, y)
    BY <2>2, <2>5
  <2>7. kept \in Take(s, order, T, n)
    BY <2>4, <2>5, <2>6, TakeSome
  <2> QED BY <2>4, <2>7
<1> QED BY <1>1, <1>2

\* A query that limits nothing inside answers the first rows of those its filters keep.
LEMMA ResultsAre ==
    ASSUME NEW q, NEW rows, q.innerLimit = NoLimit
    PROVE  Results(q, rows) = Take(q.st, q.order, {j \in Joined(q, rows) : Passes(q.st, q.filters, j)}, q.limit)
<1>1. NoLimit < 0
  BY DEF NoLimit
<1>2. Take(q.st, q.innerOrder, Joined(q, rows), q.innerLimit) = {Joined(q, rows)}
  BY <1>1, TakeAll
<1> QED BY <1>2 DEF Results

LEMMA NoFilterKeepsAll ==
    ASSUME NEW s, NEW S
    PROVE  {j \in S : Passes(s, {}, j)} = S
BY DEF Passes

(***************************************************************************)
(* The invariant                                                           *)
(***************************************************************************)
\* What was executed is a result of the query, cut at the row limit.
Answered ==
    \E all \in Results(report.query, Rows) :
        \E kept \in Take(st, report.query.order, all, report.applied) :
            result = [rows |-> kept, truncated |-> Cardinality(all) > report.applied]

StatementInv ==
    /\ request \in Requests
    /\ phase \in {"generated", "refused", "valid", "failed", "executed", "shown"}
    /\ phase \in {"generated", "refused"} => report.masked = {} /\ report.applied = 0
    /\ phase \notin {"generated", "refused"} =>
          /\ GuardIssues(st) = {} /\ StructureIssues(st) = {}
          /\ report.query = Rewritten(st, request.tenant, request.filters)
          /\ report.masked = MaskedOutputs(st)
          /\ report.applied = RowLimit(ApplyFilters(Plain(st, request.tenant), request.filters).limit)
          /\ report.applied \in 1 .. MaxRows
    /\ Ran => DbAccepts(report.query) /\ Answered /\ Cardinality(result.rows) <= report.applied
    /\ ~ Ran => result = NoResult
    /\ phase = "shown" => shown = Produced(report.query) \ report.masked
    /\ phase # "shown" => shown = {}
    /\ written \in BOOLEAN
    /\ written => Ran /\ Writes(st)

\* RowLimit stays between one and MaxRows.
LEMMA RowLimitBounds ==
    ASSUME NEW n \in Int
    PROVE  RowLimit(n) \in 1 .. MaxRows
BY StatementAssumption DEF RowLimit

\* The limit that is left outside is an integer, whatever the filters.
LEMMA LimitIsInt ==
    ASSUME NEW s, IsStatement(s), NEW t, NEW fs
    PROVE  ApplyFilters(Plain(s, t), fs).limit \in Int
BY DEF ApplyFilters, Plain, NoLimit, IsStatement

\* StatementInv is an invariant of the specification.
THEOREM StatementInvariant == Spec => []StatementInv
<1>1. Init => StatementInv
  <2> SUFFICES ASSUME Init PROVE StatementInv
    OBVIOUS
  <2>1. /\ request \in Requests /\ phase = "generated" /\ report.masked = {} /\ report.applied = 0
        /\ result = NoResult /\ shown = {} /\ ~ Ran
    BY DEF Init, NoReport, Ran
  <2>2. ~ written /\ written \in BOOLEAN
    BY DEF Init
  <2> QED BY <2>1, <2>2 DEF StatementInv
<1>2. StatementInv /\ [Next]_vars => StatementInv'
  <2> SUFFICES ASSUME StatementInv, [Next]_vars
               PROVE  StatementInv'
    OBVIOUS
  <2>0. IsStatement(st)
    BY StatementAssumption DEF StatementInv, st
  <2>1. CASE Refuse
    BY <2>1 DEF Refuse, StatementInv, Ran, NoReport, st
  <2>2. CASE Validate
    <3>1. GuardIssues(st) = {} /\ StructureIssues(st) = {}
      BY <2>2 DEF Validate, Errors
    <3>2. report'.applied \in 1 .. MaxRows
      BY <2>0, <2>2, LimitIsInt, RowLimitBounds DEF Validate
    <3>3. /\ report'.query = Rewritten(st, request.tenant, request.filters)
          /\ report'.masked = MaskedOutputs(st)
          /\ report'.applied = RowLimit(ApplyFilters(Plain(st, request.tenant), request.filters).limit)
      BY <2>2 DEF Validate
    <3>4. UNCHANGED <<request, result, shown, written>> /\ phase = "generated" /\ phase' = "valid"
      BY <2>2 DEF Validate
    <3> QED BY <3>1, <3>2, <3>3, <3>4 DEF StatementInv, Ran, st
  <2>3. CASE Execute
    <3>1. phase = "valid" /\ phase' = "executed" /\ written' = Writes(st) /\ DbAccepts(report.query)
          /\ UNCHANGED <<request, report, shown>>
      BY <2>3 DEF Execute
    <3>2. Cardinality(result'.rows) <= report.applied
      <4>1. PICK all \in Results(report.query, Rows) :
              \E kept \in Take(st, report.query.order, all, report.applied) :
                  result' = [rows |-> kept, truncated |-> Cardinality(all) > report.applied]
        BY <2>3 DEF Execute
      <4>2. report.applied \in Nat
        BY <3>1, StatementAssumption DEF StatementInv
      <4>3. PICK kept \in Take(st, report.query.order, all, report.applied) : result'.rows = kept
        BY <4>1
      <4> QED BY <4>2, <4>3, <3>1, TakeBounds
    <3>3. Writes(st) \in BOOLEAN
      BY DEF Writes
    <3>4. Answered'
      BY <2>3, <3>1 DEF Execute, Answered, st
    <3> QED BY <3>1, <3>2, <3>3, <3>4 DEF StatementInv, Ran, st
  <2>4. CASE Fail
    BY <2>4 DEF Fail, StatementInv, Ran, st
  <2>5. CASE Show
    BY <2>5 DEF Show, StatementInv, Answered, Ran, st
  <2>6. CASE UNCHANGED vars
    BY <2>6 DEF vars, StatementInv, Answered, Ran, st
  <2> QED BY <2>1, <2>2, <2>3, <2>4, <2>5, <2>6 DEF Next
<1> QED BY <1>1, <1>2, PTL DEF Spec

\* For every catalogue, policy and statement, the database reads only what the policy allows, but for names it
\* takes for a hidden column where the validator takes them for an output.
THEOREM ReadsOnlyVisible == Spec => []OnlyVisibleDataRead
<1>1. StatementInv => OnlyVisibleDataRead
  <2> DEFINE q == report.query
             ordering == OrderBase(st, q.order) \cup OrderBase(st, q.innerOrder)
  <2> SUFFICES ASSUME StatementInv, Ran, Agreed, \A c \in st.group \cup ordering : ~ Mistaken(c)
               PROVE  ReadsVisible(q)
    BY DEF OnlyVisibleDataRead
  <2>1. IsStatement(st)
    BY StatementAssumption DEF StatementInv, st
  <2>2. StructureIssues(st) = {} /\ DbAccepts(q) /\ q = Rewritten(st, request.tenant, request.filters)
    BY DEF StatementInv, Ran
  <2>3. q.st = st /\ ordering \subseteq OrderBase(st, st.order)
    BY <2>1, <2>2, OrdersWithin
  <2>4. \A c \in st.group \cup ordering :
            c.qual = NoName /\ c.name \in OutputNames(st) /\ DbBinding(st, c) # {}
                => ColumnIssue(st, c, FALSE) = {}
    BY DEF Mistaken
  <2> HIDE DEF q
  <2> QED BY <2>1, <2>2, <2>3, <2>4, ReadsAreAllowed DEF Agreed
<1> QED BY <1>1, StatementInvariant, PTL

\* Where only SELECT is allowed, no statement changes the database.
THEOREM DatabaseIsReadOnly == Spec => []NeverWrites
<1>1. StatementInv => NeverWrites
  BY GuardedReadsOnly, StatementAssumption DEF StatementInv, NeverWrites, Ran, st
<1> QED BY <1>1, StatementInvariant, PTL

\* A named output that reads a masked column of a table of its own SELECT is masked, whatever the statement
\* calls the table or the column.
THEOREM MasksWhatItReads == Spec => []MaskedNeverInClear
<1>1. StatementInv => MaskedNeverInClear
  <2> SUFFICES ASSUME StatementInv, phase = "shown", Agreed, NEW o \in shown \ {NoName}, ReadsMasked(o)
               PROVE  FALSE
    BY DEF MaskedNeverInClear
  <2>0. PICK c \in st.outputs[o] : \E a \in DbBinding(st, c) :
            ~ Source(st, a).derived /\ ColumnMasked(TableOf(st, a).schema, TableOf(st, a).name, c.name)
    BY DEF ReadsMasked
  <2>a. PICK a \in DbBinding(st, c) :
            ~ Source(st, a).derived /\ ColumnMasked(TableOf(st, a).schema, TableOf(st, a).name, c.name)
    BY <2>0
  <2>1. IsStatement(st)
    BY StatementAssumption DEF StatementInv, st
  <2>2. /\ StructureIssues(st) = {} /\ DbAccepts(report.query) /\ report.masked = MaskedOutputs(st)
        /\ report.query = Rewritten(st, request.tenant, request.filters)
        /\ shown = Produced(report.query) \ report.masked
    BY DEF StatementInv, Ran
  <2>b. report.query.st = st
    BY <2>1, <2>2, OrdersWithin
  <2>c. o \in OutputNames(st) /\ o \notin report.masked
    BY <2>2, <2>b DEF Produced, OutputNames
  <2>3. c \in OutputReads(st) /\ c \in BaseReads(report.query) /\ c \in ColumnRef
    BY <2>1, <2>b, <2>c DEF OutputReads, OutputNames, BaseReads, IsStatement
  <2>4. TableIssues(st) = {} /\ ColumnIssue(st, c, FALSE) = {}
    BY <2>2, <2>3 DEF StructureIssues, ResolveIssues
  <2>5. Cardinality(DbBinding(st, c)) = 1 /\ \A b \in Aliases(st) : TableOf(st, b) \in Tables
    BY <2>2, <2>3, <2>b DEF DbAccepts
  <2>6. Binding(st, c, FALSE) = {<<TableOf(st, a).schema, TableOf(st, a).name, c.name>>}
    BY <2>1, <2>3, <2>4, <2>5, <2>a, BindsAlike DEF Agreed
  <2>7. o \in MaskedOutputs(st)
    <3> DEFINE b == <<TableOf(st, a).schema, TableOf(st, a).name, c.name>>
    <3>1. b \in Binding(st, c, FALSE) /\ ColumnMasked(b[1], b[2], b[3])
      BY <2>6, <2>a
    <3> HIDE DEF b
    <3> QED BY <2>c, <3>1 DEF MaskedOutputs
  <2> QED BY <2>2, <2>7, <2>c
<1> QED BY <1>1, StatementInvariant, PTL

\* The types, and with them: never more rows than MaxRows.
THEOREM StatementTypes == Spec => []TypeOK
<1>1. StatementInv => TypeOK
  <2> SUFFICES ASSUME StatementInv PROVE TypeOK
    OBVIOUS
  <2>0. IsStatement(st) /\ MaxRows \in Nat
    BY StatementAssumption DEF StatementInv, st
  <2>1. report.applied \in 0 .. MaxRows
    BY <2>0 DEF StatementInv
  <2>2. ASSUME phase \in {"valid", "executed", "shown"}
        PROVE  /\ report.query.st = st
               /\ report.query.scoped \subseteq Aliases(st)
               /\ report.query.limit \in 1 .. MaxRows + 1
    <3> DEFINE p == Plain(st, request.tenant)
               f == ApplyFilters(p, request.filters)
    <3>1. report.query = ApplyRowLimit(f)
      BY <2>2 DEF StatementInv, Rewritten
    <3>2. f.limit \in Int
      BY <2>0, LimitIsInt
    <3>3. f.st = st /\ f.scoped = Scope(st, request.tenant)
      BY DEF ApplyFilters, Plain
    <3>4. DOMAIN f = DOMAIN p /\ "limit" \in DOMAIN f
      BY DEF ApplyFilters, Plain
    <3>5. report.query.limit \in 1 .. MaxRows + 1
      BY <2>0, <3>1, <3>2, <3>4, StatementAssumption DEF ApplyRowLimit
    <3>6. report.query.st = f.st /\ report.query.scoped = f.scoped
      BY <3>1 DEF ApplyRowLimit
    <3>7. Scope(st, request.tenant) \subseteq Aliases(st)
      BY DEF Scope
    <3> QED BY <3>3, <3>5, <3>6, <3>7
  <2>3. Cardinality(result.rows) <= report.applied
    <3>1. CASE Ran
      BY <3>1 DEF StatementInv
    <3>2. CASE ~ Ran
      <4>1. Cardinality(result.rows) = 0
        BY <3>2, FS_EmptySet DEF StatementInv, NoResult
      <4> QED BY <2>1, <4>1, <2>0
    <3> QED BY <3>1, <3>2
  <2>4. shown \subseteq DOMAIN st.outputs /\ written \in BOOLEAN
    <3>1. written \in BOOLEAN
      BY DEF StatementInv
    <3>2. CASE phase # "shown"
      BY <3>2 DEF StatementInv
    <3>3. CASE phase = "shown"
      <4>1. shown = Produced(report.query) \ report.masked /\ report.query.st = st
        BY <2>2, <3>3 DEF StatementInv
      <4> QED BY <3>1, <4>1 DEF Produced, OutputNames
    <3> QED BY <3>1, <3>2, <3>3 DEF StatementInv
  <2>5. phase \in {"generated", "refused", "valid", "failed", "executed", "shown"}
    BY DEF StatementInv
  <2> QED BY <2>1, <2>2, <2>3, <2>4, <2>5 DEF TypeOK
<1> QED BY <1>1, StatementInvariant, PTL

(***************************************************************************)
(* The answer                                                              *)
(***************************************************************************)
Checked == phase \notin {"generated", "refused"}

\* Filters only over a query without a limit, whose order can move out and is kept.
FiltersFit == request.filters # {} => st.limit = NoLimit /\ Liftable(st) /\ LiftKeepsOrder

\* What validate() makes of a statement, and the limit it reports.
LEMMA QueryIs ==
    ASSUME StatementInv, Checked
    PROVE  /\ report.query.st = st /\ report.query.tenant = request.tenant
           /\ report.query.scoped = Scope(st, request.tenant) /\ report.query.filters = request.filters
           /\ request.filters = {} => report.query.order = st.order
           /\ request.filters # {} /\ Liftable(st) => report.query.order = LiftOrder(st.order)
           /\ FiltersFit =>
                 /\ report.query.innerLimit = NoLimit
                 /\ report.query.limit = IF 0 < st.limit /\ st.limit <= MaxRows THEN st.limit ELSE MaxRows + 1
                 /\ report.applied = IF 0 < st.limit /\ st.limit <= MaxRows THEN st.limit ELSE MaxRows
<1> DEFINE p == Plain(st, request.tenant)
           f == ApplyFilters(p, request.filters)
<1>1. report.query = ApplyRowLimit(f) /\ report.applied = RowLimit(f.limit)
  BY DEF StatementInv, Rewritten, Checked
<1>2. /\ f.st = st /\ f.tenant = request.tenant /\ f.scoped = Scope(st, request.tenant)
      /\ f.filters = request.filters /\ "limit" \in DOMAIN f
      /\ request.filters = {} => f.order = st.order
      /\ request.filters # {} /\ Liftable(st) => f.order = LiftOrder(st.order)
      /\ FiltersFit => f.innerLimit = NoLimit /\ f.limit = st.limit
  <2>1. CASE request.filters = {}
    BY <2>1 DEF ApplyFilters, Plain
  <2>2. CASE request.filters # {} /\ Liftable(st)
    BY <2>2 DEF ApplyFilters, Plain, FiltersFit
  <2>3. CASE request.filters # {} /\ ~ Liftable(st)
    BY <2>3 DEF ApplyFilters, Plain, FiltersFit
  <2> QED BY <2>1, <2>2, <2>3
<1>3. report.query = IF 0 < f.limit /\ f.limit <= MaxRows THEN f ELSE [f EXCEPT !.limit = MaxRows + 1]
  BY <1>1, <1>2 DEF ApplyRowLimit
<1> HIDE DEF f
<1> QED BY <1>1, <1>2, <1>3 DEF RowLimit

\* Where filters fit, the executed query ranks rows as the statement does.
LEMMA RanksAlike ==
    ASSUME StatementInv, Checked, FiltersFit, NEW j
    PROVE  Rank(st, report.query.order, j) = Rank(st, st.order, j)
<1>0. IsStatement(st)
  BY StatementAssumption DEF StatementInv, st
<1> DEFINE o == st.order
           l == LiftOrder(st.order)
<1>1. o.key \in ColumnRef /\ l.term = o.term /\ l.key.name = o.key.name /\ l.key.qual = NoName
  BY <1>0 DEF IsStatement, LiftOrder, ColumnRef
<1>2. CASE request.filters = {}
  BY <1>2, QueryIs
<1>3. CASE request.filters # {}
  <2>1. report.query.order = l /\ Liftable(st) /\ LiftKeepsOrder
    BY <1>3, QueryIs DEF FiltersFit
  <2>2. CASE o.term = "none"
    BY <1>1, <2>1, <2>2 DEF Rank, OrderKeys, OrdersByOutput, OrderBase
  <2>3. CASE o.term = "literal"
    <3>1. OrderKeys(st, l) = OrderKeys(st, o)
      BY <1>1, <2>3 DEF OrderKeys, OrdersByOutput, OrderBase
    <3> HIDE DEF l, o
    <3> QED BY <2>1, <3>1 DEF Rank, o
  <2>4. CASE o.term = "column" /\ o.key.qual = NoName
    <3>1. OrderKeys(st, l) = OrderKeys(st, o)
      BY <1>1, <2>1, <2>4 DEF OrderKeys, OrdersByOutput, Liftable
    <3> HIDE DEF l, o
    <3> QED BY <2>1, <3>1 DEF Rank, o
  <2>5. CASE o.term = "column" /\ o.key.qual # NoName
    <3>1. PICK c : /\ st.outputs[o.key.name] = {c}
                   /\ c.name = o.key.name /\ DbBinding(st, c) = DbBinding(st, o.key)
      BY <2>1, <2>5 DEF LiftKeepsOrder
    <3>2. OrderKeys(st, l) = {c}
      BY <1>1, <2>1, <2>5, <3>1 DEF OrderKeys, OrdersByOutput, Liftable
    <3>3. OrderKeys(st, o) = {o.key}
      BY <2>5 DEF OrderKeys, OrdersByOutput, OrderBase
    <3>4. Value(st, j, c) = Value(st, j, o.key)
      BY <3>1 DEF Value, IsNull, BoundTo
    <3>5. Rank(st, l, j) = Value(st, j, c) /\ Rank(st, o, j) = Value(st, j, o.key)
      BY <3>2, <3>3 DEF Rank
    <3> QED BY <2>1, <3>4, <3>5
  <2> QED BY <2>1, <2>2, <2>3, <2>4, <2>5 DEF Liftable
<1> QED BY <1>2, <1>3

\* A row is one of the tenant's exactly when the predicate of its source keeps it.
LEMMA OwnRowsAre ==
    ASSUME StatementInv, Checked, Agreed, DbAccepts(report.query), TenantsShown, NEW a \in Aliases(st)
    PROVE  OwnRows[TableOf(st, a)] = {r \in Rows[TableOf(st, a)] : Own(report.query, a, r)}
<1> DEFINE t == TableOf(st, a)
           tenant == request.tenant
<1>0. report.query.st = st /\ report.query.tenant = tenant /\ report.query.scoped = Scope(st, tenant)
  BY QueryIs
<1>1. IsStatement(st) /\ TableIssues(st) = {} /\ t \in Tables
  BY <1>0, StatementAssumption DEF StatementInv, Checked, st, StructureIssues, ResolveIssues, DbAccepts
<1>2. ResolvedTo(st, a) = {t}
  BY <1>1, ResolvesAlike DEF Agreed
<1>3. Resolve(Source(st, a).ref) = {t}
  BY <1>2 DEF ResolvedTo
<1>5. TenantColumn(t) = FirstTenant(t, ColumnsOf[t])
  BY DEF TenantsShown
<1>6. NoRow \notin Rows[t]
  BY <1>1, RowsAssumption
<1>7. CASE ~ TenancyEnabled \/ tenant = NoTenant
  <2>1. OwnRows[t] = Rows[t]
    BY <1>1, <1>7 DEF OwnRows
  <2>2. a \notin report.query.scoped
    BY <1>0, <1>7 DEF Scope
  <2> QED BY <2>1, <2>2 DEF Own
<1>8. CASE TenancyEnabled /\ tenant # NoTenant
  <2>1. OwnRows[t] = {r \in Rows[t] : \A c \in FirstTenant(t, ColumnsOf[t]) : r[c] = tenant}
    BY <1>1, <1>8 DEF OwnRows
  <2>2. a \in report.query.scoped <=> TenantColumn(t) # {}
    BY <1>0, <1>3, <1>8 DEF Scope
  <2>3. ASSUME NEW r \in Rows[t]
        PROVE  Own(report.query, a, r) <=> \A c \in TenantColumn(t) : r[c] = tenant
    <3>1. Own(report.query, a, r)
             <=> (a \in report.query.scoped => r # NoRow /\ \A c \in TenantColumn(t) : r[c] = tenant)
      BY <1>0, <1>2 DEF Own
    <3> QED BY <1>6, <2>2, <3>1
  <2> QED BY <1>5, <2>1, <2>3
<1> QED BY <1>7, <1>8

\* Tenant predicates, filters and row limit leave a statement's answer as it is, for any database, policy,
\* statement and limit (sql_validator.py, validate; sql_executor.py, _fetch).
THEOREM AnswersExactly == Spec => []AnswerIsExact
<1>1. StatementInv => AnswerIsExact
  <2> SUFFICES ASSUME StatementInv, Comparable, FiltersFit PROVE Exact
    BY DEF AnswerIsExact, FiltersFit
  <2> DEFINE q == report.query
             p == [Plain(st, request.tenant) EXCEPT !.scoped = {}]
             J == Joined(q, Rows)
             F == {j \in J : Passes(st, request.filters, j)}
             n == st.limit
  <2>0. Ran /\ Agreed /\ TenantsShown /\ n # 0 /\ (KeepsUnmatched => ScopedTables = {})
    BY DEF Comparable
  <2>1. IsStatement(st) /\ DbAccepts(q) /\ Answered /\ Checked /\ MaxRows \in Nat \ {0}
    BY <2>0, StatementAssumption DEF StatementInv, Ran, Checked, st
  <2>2. /\ q.st = st /\ q.scoped = Scope(st, request.tenant) /\ q.filters = request.filters
        /\ q.innerLimit = NoLimit
        /\ q.limit = IF 0 < n /\ n <= MaxRows THEN n ELSE MaxRows + 1
        /\ report.applied = IF 0 < n /\ n <= MaxRows THEN n ELSE MaxRows
    BY <2>1, QueryIs
  <2>3. /\ p.st = st /\ p.scoped = {} /\ p.filters = {} /\ p.order = st.order /\ p.innerLimit = NoLimit
        /\ p.limit = n
    BY DEF Plain
  <2>a. \A S, m : Take(st, q.order, S, m) = Take(st, st.order, S, m)
    <3>1. \A j : Rank(st, q.order, j) = Rank(st, st.order, j)
      BY <2>1, RanksAlike
    <3> TAKE S, m
    <3>2. \A T : (\A x \in T, y \in S \ T : Rank(st, q.order, x) >= Rank(st, q.order, y))
                <=> \A x \in T, y \in S \ T : Rank(st, st.order, x) >= Rank(st, st.order, y)
      BY <3>1
    <3> HIDE DEF q
    <3> QED BY <3>2 DEF Take
  <2>4. Joined(p, OwnRows) = J
    <3>1. \A a \in Aliases(st) : OwnRows[TableOf(st, a)] = {r \in Rows[TableOf(st, a)] : Own(q, a, r)}
      BY <2>0, <2>1, OwnRowsAre
    <3>2. st.joinKind \in {"right", "full"} => \A a \in q.scoped \cap Aliases(st) : Source(st, a).derived
      BY <2>0, <2>2 DEF KeepsUnmatched, ScopedTables
    <3>3. st.from \in Aliases(st)
      BY <2>1 DEF IsStatement, Aliases
    <3> HIDE DEF q, p
    <3> QED BY <2>2, <2>3, <3>1, <3>2, <3>3, JoinsAlike
  <2>5. IsFiniteSet(F) /\ \A j \in F : Rank(st, st.order, j) \in Int
    <3>1. \A a \in Aliases(st) : IsFiniteSet(Rows[TableOf(st, a)])
      BY <2>1, <2>2, RowsAssumption DEF DbAccepts
    <3>2. IsFiniteSet(J)
      BY <2>1, <2>2, <3>1, JoinedFinite
    <3>3. \A j \in J : Rank(st, q.order, j) \in Int
      BY <2>1, <2>2, RanksAreInts
    <3>4. \A j \in J : Rank(st, st.order, j) \in Int
      BY <2>1, <3>3, RanksAlike
    <3> HIDE DEF J
    <3> QED BY <3>2, <3>4, FS_Subset
  <2>6. \A T \in Take(st, st.order, F, n) : T \in Whole
    <3>1. Results(p, OwnRows) = Take(st, st.order, J, n)
      <4>1. Results(p, OwnRows) = Take(p.st, p.order, {j \in J : Passes(p.st, p.filters, j)}, p.limit)
        BY <2>3, <2>4, ResultsAre
      <4>2. {j \in J : Passes(p.st, p.filters, j)} = J
        BY <2>3, NoFilterKeepsAll
      <4> HIDE DEF p, J
      <4> QED BY <2>3, <4>1, <4>2
    <3>2. Whole = {{j \in T : Passes(st, request.filters, j)} : T \in Take(st, st.order, J, n)}
      BY <3>1 DEF Whole
    <3> HIDE DEF J
    <3>3. CASE request.filters = {}
      <4>1. F = J /\ \A T : {j \in T : Passes(st, request.filters, j)} = T
        BY <3>3, NoFilterKeepsAll
      <4> HIDE DEF F
      <4> QED BY <3>2, <4>1
    <3>4. CASE request.filters # {}
      <4>1. n < 0
        BY <3>4 DEF FiltersFit, NoLimit
      <4>2. Take(st, st.order, J, n) = {J} /\ Take(st, st.order, F, n) = {F}
        BY <4>1, TakeAll
      <4>3. F \in Whole
        BY <3>2, <4>2
      <4> HIDE DEF F
      <4> QED BY <4>2, <4>3
    <3> QED BY <3>3, <3>4
  <2>7. PICK all \in Take(st, st.order, F, q.limit) :
            \E kept \in Take(st, st.order, all, report.applied) :
                result = [rows |-> kept, truncated |-> Cardinality(all) > report.applied]
    <3>1. Results(q, Rows) = Take(st, q.order, F, q.limit)
      BY <2>2, ResultsAre
    <3>2. PICK all \in Take(st, q.order, F, q.limit) :
              \E kept \in Take(st, q.order, all, report.applied) :
                  result = [rows |-> kept, truncated |-> Cardinality(all) > report.applied]
      BY <2>1, <3>1 DEF Answered
    <3> HIDE DEF F, q
    <3> QED BY <2>a, <3>2
  <2>8. PICK kept \in Take(st, st.order, all, report.applied) :
            result = [rows |-> kept, truncated |-> Cardinality(all) > report.applied]
    BY <2>7
  <2> HIDE DEF F, q
  <2>9. (n \in Nat \/ n < 0) /\ n # 0
    BY <2>0, <2>1 DEF IsStatement, NoLimit
  <2>10. n \in Int
    BY <2>1 DEF IsStatement, NoLimit
  <2>11. CASE 0 < n /\ n <= MaxRows
    <3>0. q.limit = n /\ report.applied = n /\ n \in Nat
      BY <2>2, <2>9, <2>10, <2>11
    <3>1. all \in Take(st, st.order, F, n) /\ kept \in Take(st, st.order, all, n)
          /\ result.truncated = (Cardinality(all) > n) /\ result.rows = kept
      BY <2>8, <3>0
    <3>2. Cardinality(all) <= n /\ Cardinality(all) \in Nat
      <4>1. all \in SUBSET F
        BY <2>5, <3>0, <3>1, FS_CardinalityType, TakeAll, TakeSome
      <4> QED BY <2>5, <3>0, <3>1, <4>1, TakeBounds, FS_Subset, FS_CardinalityType
    <3>3. ~ (Cardinality(all) > n) /\ ~ (Cardinality(all) > MaxRows) /\ n >= Cardinality(all)
          /\ MaxRows >= Cardinality(all)
      BY <2>1, <2>11, <3>0, <3>2
    <3>4. kept = all /\ Take(st, st.order, all, MaxRows) = {all}
      BY <3>1, <3>3, TakeAll
    <3>5. result.truncated = (Cardinality(all) > MaxRows)
      BY <3>1, <3>3
    <3>6. all \in Whole
      BY <2>6, <3>1
    <3>7. result.rows \in Take(st, st.order, all, MaxRows)
      BY <3>1, <3>4
    <3> QED BY <3>5, <3>6, <3>7 DEF Exact
  <2>12. CASE ~ (0 < n /\ n <= MaxRows)
    <3>1. all \in Take(st, st.order, F, MaxRows + 1) /\ kept \in Take(st, st.order, all, MaxRows)
          /\ result.truncated = (Cardinality(all) > MaxRows)
      BY <2>2, <2>8, <2>12
    <3>2. MaxRows + 1 \in Nat /\ (n < 0 \/ n >= MaxRows + 1)
      BY <2>1, <2>9, <2>12
    <3>3. PICK T \in Take(st, st.order, F, n) :
             T \in SUBSET F /\ all \subseteq T /\ (Cardinality(F) <= MaxRows + 1 => T = F)
      <4> DEFINE m == MaxRows + 1
      <4>1. m \in Nat /\ (n < 0 \/ n >= m) /\ all \in Take(st, st.order, F, m)
        BY <3>1, <3>2
      <4> HIDE DEF m, n
      <4>2. \E T \in Take(st, st.order, F, n) : T \in SUBSET F /\ all \subseteq T /\ (Cardinality(F) <= m => T = F)
        BY <2>5, <2>10, <4>1, TakeWidens
      <4> QED BY <4>2 DEF m
    <3>4. kept \in Take(st, st.order, T, MaxRows) /\ (Cardinality(all) > MaxRows <=> Cardinality(T) > MaxRows)
      BY <2>1, <2>5, <3>1, <3>3, OneMoreTells
    <3>5. T \in Whole /\ result.rows = kept
      BY <2>6, <2>8, <3>3
    <3>6. result.truncated = (Cardinality(T) > MaxRows)
      BY <3>1, <3>4
    <3> QED BY <3>4, <3>5, <3>6 DEF Exact
  <2> QED BY <2>11, <2>12
<1> QED BY <1>1, StatementInvariant, PTL

(***************************************************************************)
(* Whose rows                                                              *)
(***************************************************************************)
\* A row that a join takes from a source passes the source's predicate, unless it is one that a right or full
\* join keeps unmatched and only an ON would refuse.
LEMMA JoinedRowsPass ==
    ASSUME NEW q, NEW s, q.st = s, IsStatement(s), NEW j \in Joined(q, Rows), NEW a \in Aliases(s),
           j[a] # NoRow,
           s.joinKind \in {"right", "full"} =>
              \/ \A c \in q.scoped \cap Aliases(s) : Source(s, c).derived
              \/ s.from \in q.scoped /\ ~ Source(s, s.from).derived
    PROVE  Own(q, a, j[a])
<1> DEFINE l == s.from
<1>1. Source(s, l).derived \/ Own(q, l, j[l])
  BY DEF Joined
<1>2. \A c : \A x \in From(q, Rows, c) : Source(s, c).derived => Own(q, c, x)
  BY DEF From
<1>3. CASE Aliases(s) = {l}
  <2>1. PICK x \in From(q, Rows, l) : j = [c \in {l} |-> x]
    BY <1>3 DEF Joined
  <2> QED BY <1>1, <1>2, <1>3, <2>1
<1>4. CASE Aliases(s) # {l}
  <2>1. PICK b \in Aliases(s) \ {l} : j \in JoinedWith(q, Rows, b)
    BY <1>4 DEF Joined
  <2>2. Aliases(s) = {l, b}
    BY <2>1 DEF IsStatement, Aliases
  <2>3. \A x, y : (Pair(s, b, x, y))[l] = x /\ (Pair(s, b, x, y))[b] = y
    BY <2>1, <2>2 DEF Pair
  <2>4. \A x, y : <<x, y>> \in Matching(q, Rows, b) => x \in From(q, Rows, l) /\ Own(q, b, y)
    BY <1>2 DEF Matching, On
  <2>5. CASE \E x, y : <<x, y>> \in Matching(q, Rows, b) /\ j = Pair(s, b, x, y)
    BY <1>1, <1>2, <2>2, <2>3, <2>4, <2>5
  <2>6. CASE \E x \in From(q, Rows, l) : j = Pair(s, b, x, NoRow)
    BY <1>1, <1>2, <2>2, <2>3, <2>6
  <2>7. CASE s.joinKind \in {"right", "full"} /\ \E y \in From(q, Rows, b) : j = Pair(s, b, NoRow, y)
    <3>1. PICK y \in From(q, Rows, b) : j = Pair(s, b, NoRow, y)
      BY <2>7
    <3>2. j[l] = NoRow /\ j[b] = y /\ a = b
      BY <2>2, <2>3, <3>1
    <3>3. CASE Source(s, b).derived
      BY <1>2, <3>1, <3>2, <3>3
    <3>4. CASE ~ Source(s, b).derived /\ \A c \in q.scoped \cap Aliases(s) : Source(s, c).derived
      BY <3>2, <3>4 DEF Own
    <3>5. CASE s.from \in q.scoped /\ ~ Source(s, s.from).derived
      <4>1. Own(q, l, NoRow)
        BY <1>1, <3>2, <3>5
      <4> QED BY <3>5, <4>1 DEF Own
    <3> QED BY <2>7, <3>3, <3>4, <3>5
  <2>8. \/ \E x, y : <<x, y>> \in Matching(q, Rows, b) /\ j = Pair(q.st, b, x, y)
        \/ /\ q.st.joinKind \in {"left", "full"}
           /\ \E x \in From(q, Rows, q.st.from) :
                 (\A y : <<x, y>> \notin Matching(q, Rows, b)) /\ j = Pair(q.st, b, x, NoRow)
        \/ /\ q.st.joinKind \in {"right", "full"}
           /\ \E y \in From(q, Rows, b) :
                 (\A x : <<x, y>> \notin Matching(q, Rows, b)) /\ j = Pair(q.st, b, NoRow, y)
    BY <2>1, JoinedWithIs
  <2> QED BY <2>5, <2>6, <2>7, <2>8
<1> QED BY <1>3, <1>4

\* No row of another tenant is in a result, for any database, policy, statement, filters and limits, but for
\* unmatched rows of a right or full join whose first source has no predicate in the outer WHERE
\* (tenancy.py, apply).
THEOREM RowsOfTheTenant == Spec => []TenantsRowsButUnmatched
<1>1. StatementInv => TenantsRowsButUnmatched
  <2> SUFFICES ASSUME StatementInv, Ran, Agreed, TenantsShown,
                      KeepsUnmatched => ScopedTables = {} \/ st.from \in ScopedTables,
                      NEW j \in result.rows, NEW a \in Aliases(st), j[a] # NoRow
               PROVE  j[a] \in OwnRows[TableOf(st, a)]
    BY DEF TenantsRowsButUnmatched, RowsAreTheTenants
  <2> DEFINE q == report.query
  <2>1. IsStatement(st) /\ DbAccepts(q) /\ Answered /\ Checked
    BY StatementAssumption DEF StatementInv, Ran, Checked, st
  <2>2. q.st = st /\ q.scoped = Scope(st, request.tenant)
    BY <2>1, QueryIs
  <2>3. \A s, order, S, n : \A T \in Take(s, order, S, n) : T \subseteq S
    BY DEF Take, kSubset
  <2>4. j \in Joined(q, Rows)
    <3>1. PICK all \in Results(q, Rows) : result.rows \subseteq all
      BY <2>1, <2>3 DEF Answered
    <3>2. PICK T \in Take(q.st, q.innerOrder, Joined(q, Rows), q.innerLimit) :
              all \in Take(q.st, q.order, {k \in T : Passes(q.st, q.filters, k)}, q.limit)
      BY <3>1 DEF Results
    <3>3. all \subseteq {k \in T : Passes(q.st, q.filters, k)} /\ T \subseteq Joined(q, Rows)
      BY <2>3, <3>2
    <3> QED BY <3>1, <3>3
  <2>5. j[a] \in Rows[TableOf(st, a)]
    BY <2>1, <2>2, <2>4, JoinedShape
  <2>6. Own(q, a, j[a])
    <3>1. st.joinKind \in {"right", "full"} =>
             \/ \A c \in q.scoped \cap Aliases(st) : Source(st, c).derived
             \/ st.from \in q.scoped /\ ~ Source(st, st.from).derived
      BY <2>2 DEF KeepsUnmatched, ScopedTables
    <3> HIDE DEF q
    <3> QED BY <2>1, <2>2, <2>4, <3>1, JoinedRowsPass
  <2>7. OwnRows[TableOf(st, a)] = {r \in Rows[TableOf(st, a)] : Own(q, a, r)}
    BY <2>1, OwnRowsAre
  <2> HIDE DEF q
  <2> QED BY <2>5, <2>6, <2>7
<1> QED BY <1>1, StatementInvariant, PTL
=============================================================================
