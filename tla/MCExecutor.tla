---------------------------- MODULE MCExecutor ----------------------------
(* Bytes of four values.  The queries: parameters of all types, two        *)
(* statements with the same values as literals, COPY, and one for another  *)
(* provider.                                                               *)
EXTENDS ExecutorResults

X(t, v) == [t |-> t, v |-> v]

Arguments ==
    <<[t |-> "monostate"], X("bool", TRUE), X("bool", FALSE), X("char", 3), X("char", 0),
      X("int16_t", -8), X("int16_t", 7), X("int32_t", -1), X("int32_t", 127), X("int64_t", -32768),
      X("uint16_t", 15), X("uint16_t", 8), X("uint32_t", 255), X("uint64_t", 65535),
      X("float", 200), X("double", 40000), X("string", <<>>), X("string_view", <<1, 2>>),
      X("vector", <<0, 3>>), X("vector", <<>>), X("span", <<2>>)>>

Query(stmts, args, bound) == [stmts |-> stmts, args |-> args, bound |-> bound, provider |-> "PostgreSQL"]

MCQueries ==
    [parameters |-> Query(<<"select">>, Arguments \o <<X("string", <<1, 0, 2>>), X("span", <<>>)>>, TRUE),
     literals   |-> Query(<<"select", "select">>, Arguments, FALSE),
     copy       |-> Query(<<"copy">>, <<>>, TRUE),
     foreign    |-> [Query(<<"select">>, <<>>, FALSE) EXCEPT !.provider = "SQLite"]]

\* A unique violation, which is not to be retried; the other errors of a query
\* that was sent, made by the executors themselves, are.
MCSqlstates == {<<"23", "505">>}
============================================================================
