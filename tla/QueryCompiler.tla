--------------------------- MODULE QueryCompiler ---------------------------
(***************************************************************************)
(* The query builder and compiler of components/database/query: the fluent *)
(* calls that build an expression tree (expressions/), the walk over that  *)
(* tree (QueryVisitor), the generator the walk drives (SqlGeneratorVisitor)*)
(* and the two entry points of QueryCompiler.                              *)
(*                                                                         *)
(* An expression is a record whose field "kind" is its C++ class.  Names,  *)
(* aliases, table schemas and the wording of operators tell no two         *)
(* behaviours apart and are left out; a value is an opaque member of a     *)
(* small set.  SQL text is a sequence of tokens:  <<"text", t>> is literal *)
(* text, <<"value", v>> a formatted value and <<"$", n>> a placeholder.    *)
(***************************************************************************)
EXTENDS Naturals, Sequences, FiniteSets, SequencesExt, TLC

CONSTANTS Selections,   \* column lists given to select()
          Conditions,   \* conditions given to where(), on() and having()
          Subqueries,   \* finished queries used inside another one
          Criteria,     \* lists of columns, or single queries, given to group_by()
          SetOperations, \* the operators of set_op_exp.hpp in use
          Values,       \* field values given to values() and set()
          MaxCalls,     \* bound: builder calls per query
          MaxLen        \* InlineString capacity, in tokens

VARIABLES query,     \* the expression built so far
          calls,     \* builder calls made for it
          compiled   \* the result of the last compilation

vars == <<query, calls, compiled>>

NoQuery == [kind |-> "none"]
NoResult == [status |-> "none"]
Modes == {"Inline", "Tuple", "Sink"}

-----------------------------------------------------------------------------
(* Expressions. *)

Column == [kind |-> "Column"]
Literal(v) == [kind |-> "Literal", value |-> v]
ParamPlaceholder == [kind |-> "ParamPlaceholder"]
Aggregate(name) == [kind |-> "Aggregate", name |-> name]
BinaryExpr(l, op, r) == [kind |-> "BinaryExpr", left |-> l, op |-> op, right |-> r]
UnaryExpr(op, o) == [kind |-> "UnaryExpr", op |-> op, operand |-> o]
BetweenExpr(o, l, u) ==
    [kind |-> "BetweenExpr", operand |-> o, lower |-> l, upper |-> u]
InListExpr(o, vs) == [kind |-> "InListExpr", operand |-> o, values |-> vs]
Subquery(q) == [kind |-> "Subquery", query |-> q]
ExistsExpr(q) == [kind |-> "ExistsExpr", query |-> q]

\* clauses is a sequence of <<condition, value>>, else a sequence of at most one.
CaseExpr(clauses, else) ==
    [kind |-> "CaseExpr", when_clauses |-> clauses, else_clause |-> else]

SelectExpr(cols) == [kind |-> "SelectExpr", columns |-> cols]
FromTableExpr(s) == [kind |-> "FromTableExpr", select |-> s]
FromCteExpr(s, q) ==
    [kind |-> "FromCteExpr", select |-> s,
     cte_query |-> [kind |-> "CteExpr", query |-> q]]
JoinExpr(q, c) == [kind |-> "JoinExpr", query |-> q, condition |-> c]
WhereExpr(q, c) == [kind |-> "WhereExpr", query |-> q, condition |-> c]
UpdateWhereExpr(q, c) == [kind |-> "UpdateWhereExpr", query |-> q, condition |-> c]
DeleteWhereExpr(q, c) == [kind |-> "DeleteWhereExpr", query |-> q, condition |-> c]
HavingExpr(q, c) == [kind |-> "HavingExpr", query |-> q, condition |-> c]
GroupByExpr(q, cs) == [kind |-> "GroupByExpr", query |-> q, criteria |-> cs]
OrderByExpr(q) == [kind |-> "OrderByExpr", query |-> q]
LimitExpr(q, off) == [kind |-> "LimitExpr", query |-> q, offset |-> off]
SetOpExpr(l, op, r) == [kind |-> "SetOpExpr", left |-> l, op |-> op, right |-> r]
InsertExpr(rows) == [kind |-> "InsertExpr", rows |-> rows]
UpdateExpr(as) == [kind |-> "UpdateExpr", assignments |-> as]
DeleteExpr == [kind |-> "DeleteExpr"]
CreateTableExpr(f) == [kind |-> "CreateTableExpr", if_not_exists |-> f]
DropTableExpr(f, c) == [kind |-> "DropTableExpr", if_exists |-> f, cascade |-> c]

-----------------------------------------------------------------------------
(* QueryVisitor.  Each visit overload is a list of calls on the generator, *)
(* in order, with the visits of its children among them, and the children  *)
(* whose parameters it hands to cat_params, in the order it names them.    *)
(* The overloads for const& and && make the same calls.                    *)

Text(t) == <<"text", t>>
Visit(e) == <<"visit", e>>
Value(v) == <<"value", v>>

\* What the generator writes when the walk calls it.  Names of tables, columns
\* and common table expressions, their aliases and DISTINCT are left out; the
\* calls that end a clause write nothing.
visit_column_impl == Text("column")
visit_table_impl == Text("table")
visit_column_separator == Text(",")

aggregate_start(name) == <<Text(name), Text("(")>>
visit_aggregate_end == Text(")")

Clause ==
    [select |-> Text("SELECT"), from |-> Text("FROM"), where |-> Text("WHERE"),
     group_by |-> Text("GROUP BY"), having |-> Text("HAVING"), order_by |-> Text("ORDER BY")]

\* limit_clause of the dialect writes OFFSET only for a positive offset.
visit_limit_impl(offset) ==
    <<Text("LIMIT")>> \o IF offset > 0 THEN <<Text("OFFSET")>> ELSE <<>>

visit_join_start == Text("JOIN")
visit_join_on == Text("ON")

visit_insert_start == Text("INSERT INTO")
visit_insert_columns == Text("VALUES")
visit_update_start == Text("UPDATE")
visit_delete_start == Text("DELETE FROM")

Case ==
    [start |-> Text("CASE"), when |-> Text("WHEN"), then |-> Text("THEN"),
     else |-> Text("ELSE"), end |-> Text("END")]

visit_set_op_impl(op) == Text(op)

Cte == [start |-> Text("WITH"), name |-> Text("name"),
        as_start |-> <<Text("AS"), Text("(")>>, as_end |-> Text(")")]

visit_create_table_start(if_not_exists) ==
    <<Text("CREATE TABLE")>> \o IF if_not_exists THEN <<Text("IF NOT EXISTS")>> ELSE <<>>

visit_drop_table_start(if_exists) ==
    <<Text("DROP TABLE")>> \o IF if_exists THEN <<Text("IF EXISTS")>> ELSE <<>>

visit_drop_table_end(cascade) == IF cascade THEN <<Text("CASCADE")>> ELSE <<>>

\* Items with a separator between any two.
Separated(items) ==
    FlattenSeq([i \in DOMAIN items |->
        IF i = 1 THEN <<items[1]>> ELSE <<visit_column_separator, items[i]>>])

Visits(es) == [i \in DOMAIN es |-> Visit(es[i])]
visit_tuple_elements(es) == Separated(Visits(es))

visit_BinaryExpr(e) ==
    [calls |-> <<Text("("), Visit(e.left), Text(e.op), Visit(e.right), Text(")")>>,
     cat   |-> <<e.left, e.right>>]

visit_UnaryExpr(e) ==
    [calls |-> IF e.op = "NOT" THEN <<Text("NOT"), Visit(e.operand)>>
                               ELSE <<Visit(e.operand), Text(e.op)>>,
     cat   |-> <<e.operand>>]

visit_BetweenExpr(e) ==
    [calls |-> <<Visit(e.operand), Text("BETWEEN"), Visit(e.lower),
                 Text("AND"), Visit(e.upper)>>,
     cat   |-> <<e.operand, e.lower, e.upper>>]

visit_InListExpr(e) ==
    [calls |-> <<Visit(e.operand), Text("IN"), Text("(")>>
               \o visit_tuple_elements(e.values) \o <<Text(")")>>,
     cat   |-> <<e.operand>> \o e.values]

visit_Subquery(e) ==
    [calls |-> <<Text("("), Visit(e.query), Text(")")>>, cat |-> <<e.query>>]

visit_ExistsExpr(e) ==
    [calls |-> <<Text("EXISTS"), Text("("), Visit(e.query), Text(")")>>,
     cat   |-> <<e.query>>]

visit_Aggregate(e) ==
    [calls |-> aggregate_start(e.name) \o <<Visit(Column), visit_aggregate_end>>, cat |-> <<>>]

visit_single_when(w) == <<Case.when, Visit(w[1]), Case.then, Visit(w[2])>>

visit_CaseExpr(e) ==
    [calls |-> <<Case.start>>
               \o FlattenSeq([i \in DOMAIN e.when_clauses |->
                                  visit_single_when(e.when_clauses[i])])
               \o FlattenSeq([i \in DOMAIN e.else_clause |->
                                  <<Case.else, Visit(e.else_clause[i])>>])
               \o <<Case.end>>,
     cat   |-> FlattenSeq(e.when_clauses) \o e.else_clause]

visit_SelectExpr(e) ==
    [calls |-> <<Clause.select>> \o visit_tuple_elements(e.columns),
     cat   |-> e.columns]

visit_FromTableExpr(e) ==
    [calls |-> <<Visit(e.select), Clause.from, visit_table_impl>>,
     cat   |-> <<e.select>>]

visit_CteExpr(e) ==
    [calls |-> <<Cte.start, Cte.name>> \o Cte.as_start \o <<Visit(e.query), Cte.as_end>>,
     cat   |-> <<e.query>>]

\* Fault: the parameters in the order of the members, not of the text.
visit_FromCteSelectFirst(e) ==
    [calls |-> <<Visit(e.cte_query), Visit(e.select), Clause.from, Cte.name>>,
     cat   |-> <<e.select, e.cte_query>>]

\* The common table expression is written before the SELECT that reads it.
visit_FromCteExpr(e) ==
    [calls |-> <<Visit(e.cte_query), Visit(e.select), Clause.from, Cte.name>>,
     cat   |-> <<e.cte_query, e.select>>]

visit_JoinExpr(e) ==
    [calls |-> <<Visit(e.query), visit_join_start, visit_table_impl, visit_join_on,
                 Visit(e.condition)>>,
     cat   |-> <<e.query, e.condition>>]

\* WHERE, of a SELECT, an UPDATE or a DELETE.
Wheres == {"WhereExpr", "UpdateWhereExpr", "DeleteWhereExpr"}

visit_WhereExpr(e) ==
    [calls |-> <<Visit(e.query), Clause.where, Visit(e.condition)>>,
     cat   |-> <<e.query, e.condition>>]

visit_GroupByExpr(e) ==
    [calls |-> <<Visit(e.query), Clause.group_by>> \o visit_tuple_elements(e.criteria),
     cat   |-> <<e.query>> \o e.criteria]

visit_HavingExpr(e) ==
    [calls |-> <<Visit(e.query), Clause.having, Visit(e.condition)>>,
     cat   |-> <<e.query, e.condition>>]

visit_OrderByExpr(e) ==
    [calls |-> <<Visit(e.query), Clause.order_by, Visit(Column)>>,
     cat   |-> <<e.query>>]

visit_LimitExpr(e) ==
    [calls |-> <<Visit(e.query)>> \o visit_limit_impl(e.offset), cat |-> <<e.query>>]

visit_SetOpExpr(e) ==
    [calls |-> <<Visit(e.left), visit_set_op_impl(e.op), Visit(e.right)>>,
     cat   |-> <<e.left, e.right>>]

\* The rows go to visit_value_impl directly: no child returns parameters.
visit_InsertExpr(e) ==
    [calls |-> <<visit_insert_start, visit_table_impl, visit_insert_columns>>
               \o FlattenSeq([i \in DOMAIN e.rows |->
                      (IF i = 1 THEN <<>> ELSE <<visit_column_separator>>) \o <<Text("(")>>
                      \o Separated([j \in DOMAIN e.rows[i] |-> Value(e.rows[i][j])])
                      \o <<Text(")")>>]),
     cat   |-> <<>>]

visit_UpdateExpr(e) ==
    [calls |-> <<visit_update_start, visit_table_impl, Text("SET")>>
               \o Separated([i \in DOMAIN e.assignments |-> Value(e.assignments[i])]),
     cat   |-> <<>>]

visit_DeleteExpr == [calls |-> <<visit_delete_start, visit_table_impl>>, cat |-> <<>>]

visit_CreateTableExpr(e) ==
    [calls |-> visit_create_table_start(e.if_not_exists)
               \o <<visit_table_impl, Text("columns")>>,
     cat   |-> <<>>]

visit_DropTableExpr(e) ==
    [calls |-> visit_drop_table_start(e.if_exists) \o <<visit_table_impl>>
               \o visit_drop_table_end(e.cascade),
     cat   |-> <<>>]

\* The overload the class of e selects.
visit(e) ==
    CASE e.kind = "Column"           -> [calls |-> <<visit_column_impl>>, cat |-> <<>>]
      [] e.kind = "Literal"          -> [calls |-> <<Value(e.value)>>, cat |-> <<>>]
      [] e.kind = "ParamPlaceholder" -> [calls |-> <<<<"param">>>>, cat |-> <<>>]
      [] e.kind = "Aggregate"        -> visit_Aggregate(e)
      [] e.kind = "BinaryExpr"       -> visit_BinaryExpr(e)
      [] e.kind = "UnaryExpr"        -> visit_UnaryExpr(e)
      [] e.kind = "BetweenExpr"      -> visit_BetweenExpr(e)
      [] e.kind = "InListExpr"       -> visit_InListExpr(e)
      [] e.kind = "Subquery"         -> visit_Subquery(e)
      [] e.kind = "ExistsExpr"       -> visit_ExistsExpr(e)
      [] e.kind = "CaseExpr"         -> visit_CaseExpr(e)
      [] e.kind = "SelectExpr"       -> visit_SelectExpr(e)
      [] e.kind = "FromTableExpr"    -> visit_FromTableExpr(e)
      [] e.kind = "CteExpr"          -> visit_CteExpr(e)
      [] e.kind = "FromCteExpr"      -> visit_FromCteExpr(e)
      [] e.kind = "JoinExpr"         -> visit_JoinExpr(e)
      [] e.kind \in Wheres           -> visit_WhereExpr(e)
      [] e.kind = "GroupByExpr"      -> visit_GroupByExpr(e)
      [] e.kind = "HavingExpr"       -> visit_HavingExpr(e)
      [] e.kind = "OrderByExpr"      -> visit_OrderByExpr(e)
      [] e.kind = "LimitExpr"        -> visit_LimitExpr(e)
      [] e.kind = "SetOpExpr"        -> visit_SetOpExpr(e)
      [] e.kind = "InsertExpr"       -> visit_InsertExpr(e)
      [] e.kind = "UpdateExpr"       -> visit_UpdateExpr(e)
      [] e.kind = "DeleteExpr"       -> visit_DeleteExpr
      [] e.kind = "CreateTableExpr"  -> visit_CreateTableExpr(e)
      [] e.kind = "DropTableExpr"    -> visit_DropTableExpr(e)

\* All calls that accepting e makes on the generator, in order.
RECURSIVE accept(_)
accept(e) ==
    LET cs == visit(e).calls
    IN  FlattenSeq([i \in DOMAIN cs |->
            IF cs[i][1] = "visit" THEN accept(cs[i][2]) ELSE <<cs[i]>>])

capture_param(mode, v) == IF mode = "Tuple" THEN <<v>> ELSE <<>>

\* The tuple that accepting e returns: a literal captures its value, any other
\* expression concatenates what its children returned.
RECURSIVE cat_params(_, _)
cat_params(mode, e) ==
    IF e.kind = "Literal" THEN capture_param(mode, e.value)
    ELSE LET children == visit(e).cat
         IN  FlattenSeq([i \in DOMAIN children |-> cat_params(mode, children[i])])

-----------------------------------------------------------------------------
(* SqlGeneratorVisitor, over the calls cs that the walk makes on it.  Its   *)
(* counter and its sink, when a call is made, are what the calls so far left.*)

\* The calls up to the i-th that match one of the names.
Made(cs, names, i) == Cardinality({j \in 1..i : cs[j][1] \in names})

\* param_count_ after ++ in the i-th call: only Tuple mode counts values.
param_count(mode, cs, i) ==
    Made(cs, IF mode = "Tuple" THEN {"value", "param"} ELSE {"param"}, i)

\* ParamSink::push returns the number of values pushed, this one included.
push(cs, i) == Made(cs, {"value"}, i)

visit_value_impl(mode, cs, i) ==
    CASE mode = "Inline" -> cs[i]
      [] mode = "Tuple"  -> <<"$", param_count(mode, cs, i)>>
      [] mode = "Sink"   -> <<"$", push(cs, i)>>

visit_param_placeholder_impl(mode, cs, i) == <<"$", param_count(mode, cs, i)>>

sql(mode, cs) ==
    [i \in DOMAIN cs |-> CASE cs[i][1] = "text"  -> cs[i]
                           [] cs[i][1] = "value" -> visit_value_impl(mode, cs, i)
                           [] cs[i][1] = "param" -> visit_param_placeholder_impl(mode, cs, i)]

\* What the sink holds in the end.
packet(cs) ==
    LET pushed == SelectSeq(cs, LAMBDA c : c[1] = "value")
    IN  [i \in DOMAIN pushed |-> pushed[i][2]]

\* The text and the parameters an executor receives.
Compile(mode, e) ==
    LET cs == accept(e)
    IN  [sql    |-> sql(mode, cs),
         params |-> IF mode = "Sink" THEN packet(cs) ELSE cat_params(mode, e)]

-----------------------------------------------------------------------------
(* The builder.  A call is available where the class of the expression     *)
(* lists the feature in its QueryOperations base.                          *)

\* Fault: WhereExpr also lists AllowJoin.
FeaturesJoinAfterWhere ==
    [FromTableExpr |-> {"GroupBy", "OrderBy", "Limit", "Join", "Where"},
     FromCteExpr   |-> {"GroupBy", "OrderBy", "Limit", "Join", "Where"},
     JoinExpr      |-> {"GroupBy", "OrderBy", "Limit", "Join", "Where"},
     WhereExpr     |-> {"GroupBy", "OrderBy", "Limit", "Join"},
     GroupByExpr   |-> {"Having", "OrderBy", "Limit"},
     HavingExpr    |-> {"OrderBy", "Limit"},
     OrderByExpr   |-> {"Limit"},
     SetOpExpr     |-> {"OrderBy", "Limit"}]

Features ==
    [FromTableExpr |-> {"GroupBy", "OrderBy", "Limit", "Join", "Where"},
     FromCteExpr   |-> {"GroupBy", "OrderBy", "Limit", "Join", "Where"},
     JoinExpr      |-> {"GroupBy", "OrderBy", "Limit", "Join", "Where"},
     WhereExpr     |-> {"GroupBy", "OrderBy", "Limit"},
     GroupByExpr   |-> {"Having", "OrderBy", "Limit"},
     HavingExpr    |-> {"OrderBy", "Limit"},
     OrderByExpr   |-> {"Limit"},
     SetOpExpr     |-> {"OrderBy", "Limit"}]

has_feature(f) == query.kind \in DOMAIN Features /\ f \in Features[query.kind]

Build(e) ==
    /\ compiled = NoResult
    /\ calls < MaxCalls
    /\ query' = e
    /\ calls' = calls + 1
    /\ UNCHANGED compiled

Init == query = NoQuery /\ calls = 0 /\ compiled = NoResult

Select == query.kind = "none" /\ \E cols \in Selections : Build(SelectExpr(cols))
From == query.kind = "SelectExpr" /\ Build(FromTableExpr(query))
FromCte ==
    /\ query.kind = "SelectExpr"
    /\ \E q \in Subqueries : Build(FromCteExpr(query, q))
Join == has_feature("Join") /\ \E c \in Conditions : Build(JoinExpr(query, c))
Where == has_feature("Where") /\ \E c \in Conditions : Build(WhereExpr(query, c))

\* Columns, or one expression of any class: a query given here stays bare.
GroupBy == has_feature("GroupBy") /\ \E cs \in Criteria : Build(GroupByExpr(query, cs))
Having == has_feature("Having") /\ \E c \in Conditions : Build(HavingExpr(query, c))
OrderBy == has_feature("OrderBy") /\ Build(OrderByExpr(query))
Limit == has_feature("Limit") /\ Build(LimitExpr(query, 0))
Offset == query.kind = "LimitExpr" /\ Build([query EXCEPT !.offset = 1])

\* Any two finished queries combine, on either side.
Reads == DOMAIN Features \cup {"SelectExpr", "LimitExpr"}
SetOp ==
    /\ query.kind \in Reads
    /\ \E q \in Subqueries, op \in SetOperations :
          \/ Build(SetOpExpr(query, op, q))
          \/ Build(SetOpExpr(q, op, query))

Insert == query.kind = "none" /\ Build(InsertExpr(<<>>))
InsertValues ==
    /\ query.kind = "InsertExpr"
    /\ \E v, w \in Values : Build([query EXCEPT !.rows = Append(@, <<v, w>>)])
Update == query.kind = "none" /\ Build(UpdateExpr(<<>>))
Set ==
    /\ query.kind = "UpdateExpr"
    /\ \E v \in Values : Build([query EXCEPT !.assignments = Append(@, v)])
UpdateWhere ==
    query.kind = "UpdateExpr" /\ \E c \in Conditions : Build(UpdateWhereExpr(query, c))
Delete == query.kind = "none" /\ Build(DeleteExpr)
DeleteWhere ==
    query.kind = "DeleteExpr" /\ \E c \in Conditions : Build(DeleteWhereExpr(query, c))
Ddl ==
    /\ query.kind = "none"
    /\ \E f, c \in BOOLEAN : Build(CreateTableExpr(f)) \/ Build(DropTableExpr(f, c))

-----------------------------------------------------------------------------
(* QueryCompiler.  An expression passed as an rvalue is consumed. *)

Deliver(mode, capacity, moved) ==
    LET result == Compile(mode, query)
        status == IF Len(result.sql) <= capacity THEN "ok" ELSE "out_of_range"
    IN  /\ compiled = NoResult
        /\ query.kind # "none"
        /\ compiled' = [status |-> status, mode |-> mode, of |-> query] @@ result
        /\ query' = IF moved THEN NoQuery ELSE query
        /\ calls' = IF moved THEN 0 ELSE calls

\* compile_static appends to an InlineString, which throws past its capacity.
compile_static ==
    \E mode \in Modes \ {"Sink"}, moved \in BOOLEAN : Deliver(mode, MaxLen, moved)

\* A std::string grows.
compile_dynamic ==
    \E mode \in Modes \ {"Tuple"}, moved \in BOOLEAN :
        Deliver(mode, Len(accept(query)), moved)

\* The caller drops the compiled query, or the caught exception.
Release == compiled # NoResult /\ compiled' = NoResult /\ UNCHANGED <<query, calls>>

Next ==
    \/ Select \/ From \/ FromCte \/ Join \/ Where \/ GroupBy \/ Having
    \/ OrderBy \/ Limit \/ Offset \/ SetOp
    \/ Insert \/ InsertValues \/ Update \/ Set \/ UpdateWhere
    \/ Delete \/ DeleteWhere \/ Ddl
    \/ compile_static \/ compile_dynamic \/ Release

Spec == Init /\ [][Next]_vars

-----------------------------------------------------------------------------
(* Properties. *)

Placeholders(text) == {i \in DOMAIN text : text[i][1] = "$"}

\* The text with each placeholder replaced by the parameter it refers to.
Bound(c) ==
    [i \in DOMAIN c.sql |->
        IF i \in Placeholders(c.sql) /\ c.sql[i][2] \in DOMAIN c.params
        THEN <<"value", c.params[c.sql[i][2]]>>
        ELSE c.sql[i]]

\* The statement the server runs is the one with the values written in place,
\* and it is sent as many parameters as it has placeholders.
SameStatement(c) ==
    /\ Bound(c) = Compile("Inline", c.of).sql
    /\ Len(c.params) = Cardinality(Placeholders(c.sql))

\* No placeholder is left for the caller to fill.
Closed(e) == LET cs == accept(e) IN Made(cs, {"param"}, Len(cs)) = 0

\* The values of these go to the generator without being captured.
Uncaptured == {"InsertExpr", "UpdateExpr", "UpdateWhereExpr"}

\* Whatever the nesting of subqueries, common table expressions, CASE and set
\* operations, a parameterised compilation (visit_value_impl and cat_params, or
\* ParamSink::push) refers each placeholder to the value that stands there in
\* the inlined text.  INSERT and UPDATE compiled to a tuple are left out: their
\* visits return no_params().
ParamsBound ==
    (/\ compiled.status = "ok"
     /\ Closed(compiled.of)
     /\ compiled.mode = "Tuple" => compiled.of.kind \notin Uncaptured
     /\ compiled.mode # "Inline") => SameStatement(compiled)

\* The clauses of a query block in the order SQL has them.
Grammar == << {"WITH"}, {"SELECT", "UPDATE", "DELETE FROM"}, {"FROM", "SET"}, {"JOIN"},
              {"WHERE"}, {"GROUP BY"}, {"HAVING"}, {"ORDER BY"}, {"LIMIT"}, {"OFFSET"} >>
Clauses == UNION {Grammar[i] : i \in DOMAIN Grammar}
Rank(t) == CHOOSE i \in DOMAIN Grammar : t \in Grammar[i]

\* The parentheses, clauses and set operators of a text.
Outline(text) ==
    LET structural == SelectSeq(text, LAMBDA t : /\ t[1] = "text"
                                                 /\ t[2] \in {"(", ")"} \cup Clauses \cup SetOperations)
    IN  [i \in DOMAIN structural |-> structural[i][2]]

\* Reading an outline with a stack of the rank reached in each open parenthesis.
\* A set operator starts a block of its own, but one that WITH cannot open.
RECURSIVE InOrder(_, _)
InOrder(outline, ranks) ==
    IF outline = <<>> THEN Len(ranks) = 1
    ELSE LET t == Head(outline)
             rest == Tail(outline)
         IN  CASE t = "(" -> InOrder(rest, <<0>> \o ranks)
               [] t = ")" -> InOrder(rest, Tail(ranks))
               [] t \in SetOperations -> InOrder(rest, <<Rank("WITH")>> \o Tail(ranks))
               [] t \in Clauses ->
                     /\ Head(ranks) < Rank(t) \/ (t = "JOIN" /\ Head(ranks) = Rank(t))
                     /\ InOrder(rest, <<Rank(t)>> \o Tail(ranks))

Children(e) == {c[2] : c \in {d \in Range(visit(e).calls) : d[1] = "visit"}}

\* e and every expression inside it.
RECURSIVE Parts(_)
Parts(e) == {e} \cup UNION {Parts(c) : c \in Children(e)}

\* What e writes as an operand, with no parentheses of its own around it.
Operands(e) ==
    CASE e.kind = "GroupByExpr" -> Range(e.criteria)
      [] e.kind \in Reads \cup {"Subquery", "ExistsExpr", "CteExpr"} -> {}
      [] OTHER -> Children(e)

\* The three ways to write one query into another that no feature rules out
\* and no parenthesis sets apart:
\*   q.group_by(r) with a query r, not subquery(r):  ... GROUP BY SELECT ...
\*   a set operation on a query that ends in ORDER BY or LIMIT:
\*      ... LIMIT 1 EXCEPT SELECT ..., or ... EXCEPT SELECT ... LIMIT 1 ORDER BY ...
\*   a set operation whose right side reads a common table expression:
\*      ... EXCEPT WITH name AS ( ... ) SELECT ...
Unparenthesised(e) ==
    \E p \in Parts(e) :
        \/ \E q \in Operands(p) : q.kind \in Reads
        \/ /\ p.kind = "SetOpExpr"
           /\ \/ {p.left.kind, p.right.kind} \cap {"OrderByExpr", "LimitExpr"} # {}
              \/ Head(accept(p.right)) = Cte.start

\* A chain of calls the QueryOperations features admit writes the clauses of each
\* query block, WITH first, in SQL's order and none twice, and every parenthesis
\* closes - unless one query is written into another in one of the ways of
\* Unparenthesised, which the classes admit and which can be out of order.
ClauseOrder ==
    compiled.status = "ok" => InOrder(Outline(compiled.sql), <<0>>) \/ Unparenthesised(compiled.of)
=============================================================================
