-------------------------- MODULE ExecutorResults --------------------------
(***************************************************************************)
(* What the client of the executors makes of the outcomes: the fields of a *)
(* result, read with FieldCodec, and the combined outcomes of its calls.   *)
(***************************************************************************)
EXTENDS Executor, FieldCodec

\* PQsendQueryParams and PQexecParams, which ask for binary results, are used
\* for a query with parameters.
Extended(q) == Queries[q].bound /\ Queries[q].args # <<>>

\* A select returns its arguments; those of a query without parameters stand
\* in its text.
Rows ==
    [q \in DOMAIN Queries |->
        LET args   == Queries[q].args
            params == push(args)
        IN  [i \in DOMAIN args |-> IF Extended(q) THEN Echo(params[i], "binary")
                                                   ELSE Echo(format_value(args[i]), "text")]]

----------------------------------------------------------------------------
(* Properties *)

\* Whether the row that a query is answered with is read as it was sent, for
\* each query.  The four exceptions are those of FieldsRoundTrip.
ReadBack ==
    [q \in DOMAIN Queries |->
        \A c \in DOMAIN Queries[q].args :
            LET x   == Queries[q].args[c]
                row == Rows[q]
            IN  CASE x.t = "monostate" -> get_opt(row, c, "string") = Nothing /\ get(row, c, "string") = Throws
                  [] x.t = "uint64_t" /\ Extended(q) -> get(row, c, x.t) = Throws
                  [] x.t = "span" /\ ~Extended(q) -> get(row, c, x.t) = Throws
                  [] x.t \in {"vector", "span"} /\ x.v = <<>> /\ Extended(q) ->
                        get_opt(row, c, x.t) = Nothing /\ get(row, c, x.t) = Throws
                  [] x.t \in {"string", "string_view"} /\ Extended(q) ->
                        get(row, c, x.t) = Value(x.t, c_str(x.v))
                  [] OTHER -> get(row, c, x.t) = x /\ get_opt(row, c, x.t) = x]


\* The outcome of the chain is what the last function run in it returned:
\* and_then and transform do not run on an error nor or_else on a success,
\* and the error survives them.  Combined with chain_outcomes, the calls made
\* so far give the error of the first that failed or all the results.
PipelineSound ==
    LET outs   == [i \in 1 .. Cardinality(Done) |-> issued[i].out]
        failed == {i \in DOMAIN outs : is_error(outs[i])}
        all    == chain_outcomes(outs)
    IN  /\ is_success(pipe) = is_success(last)
        /\ is_success(pipe) => value(pipe) = value(last)
        /\ is_error(pipe) => error(pipe, last.error.type) = last.error
        /\ IF failed # {} THEN error(all, "ErrorContext") = outs[Min(failed)].error
           ELSE CASE outs = <<>>    -> value(all) = Void
                  [] Len(outs) = 1  -> value(all) = outs[1].value
                  [] OTHER          -> value(all).elements = [i \in DOMAIN outs |-> outs[i].value]
============================================================================
