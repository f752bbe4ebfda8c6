-------------------------- MODULE MCQueryCompiler --------------------------
(* A small instance of QueryCompiler: one expression of each shape, with   *)
(* values that differ from one shape to the next.                          *)
EXTENDS QueryCompiler

Age(op, v) == BinaryExpr(Column, op, Literal(v))

\* SELECT column FROM table WHERE column = v.
Inner(v) == WhereExpr(FromTableExpr(SelectExpr(<<Column>>)), Age("=", v))

MCSelections ==
    { <<Aggregate("COUNT"), Literal("s1"),
        CaseExpr(<< <<Age("<", "s2"), Literal("s3")>>, <<Age("<", "s4"), Column>> >>,
                 <<Literal("s5")>>)>> }

\* The second leaves a placeholder for the caller.
MCConditions ==
    { BinaryExpr(BinaryExpr(Age(">", "c1"), "AND",
                            UnaryExpr("NOT", BetweenExpr(Column, Literal("c2"), Literal("c3")))),
                 "OR",
                 BinaryExpr(InListExpr(Column, <<Literal("c4"), Literal("c5")>>), "OR",
                            ExistsExpr(Inner("c6")))),
      BinaryExpr(UnaryExpr("IS NULL", Column), "AND",
                 BinaryExpr(Age("=", "c7"), "AND", BinaryExpr(Column, "=", ParamPlaceholder))) }

MCSubqueries == { FromCteExpr(SelectExpr(<<Literal("q1")>>), Inner("q2")), Inner("q3") }

\* Two columns; a query in parentheses; the same query as it is.
MCCriteria == { <<Column, Column>>, <<Subquery(Inner("g1"))>>, <<Inner("g1")>> }
=============================================================================
