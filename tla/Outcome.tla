------------------------------ MODULE Outcome ------------------------------
(***************************************************************************)
(* gears::Outcome (common/gears/outcome/gears_outcome.hpp): a value or one *)
(* of a list of errors, and the combinators on it.                         *)
(*                                                                         *)
(* The static type Outcome<T, Errors...> is the field errors, a set of     *)
(* error types; an error is a record with its type.  The overloads of a    *)
(* member for lvalues, const and rvalues do the same and are one operator. *)
(* The specialization Outcome<void, Errors...> has operators of its own;   *)
(* its success is the value Void.  A callable is given by what it returns  *)
(* when it is run; one that is not run leaves no trace in the outcome.     *)
(***************************************************************************)
EXTENDS Naturals, Sequences

BadOutcomeAccess == [k |-> "BadOutcomeAccess"]
BadVariantAccess == [k |-> "bad_variant_access"]
Void == [k |-> "monostate"]

----------------------------------------------------------------------------
(* Outcome<T, Errors...> *)

success(errors, value) == [errors |-> errors, ok |-> TRUE, value |-> value]

failure(errors, error) == [errors |-> errors, ok |-> FALSE, error |-> error]

is_success(o) == o.ok
is_error(o) == ~is_success(o)
holds_error(o, type) == is_error(o) /\ o.error.type = type

value(o) == IF is_success(o) THEN o.value ELSE BadOutcomeAccess

value_or(o, default) == IF is_success(o) THEN o.value ELSE default

error(o, type) == IF holds_error(o, type) THEN o.error ELSE BadVariantAccess

visit(o, onValue, onError) == IF is_success(o) THEN onValue ELSE onError

merge_all(sets) == UNION sets

\* The branch for std::monostate comes first, so an error of that type, which
\* the library itself never makes, would come out as a success.
widen_outcome(errors, o) ==
    visit(o, success(errors, o.value),
             IF o.error.type = "monostate" THEN success(errors, Void)
                                           ELSE failure(errors, o.error))

\* f is an Outcome whose errors are fErrors.
and_then(o, fErrors, f) ==
    LET errors == merge_all({o.errors, fErrors})
    IN  IF is_success(o) THEN widen_outcome(errors, f)
                         ELSE failure(errors, o.error)

or_else(o, fErrors, f) == IF is_error(o) THEN f ELSE success(fErrors, value(o))

\* f is a plain value, or Void.
transform(o, f) == IF is_success(o) THEN success(o.errors, f) ELSE o

----------------------------------------------------------------------------
(* Outcome<void, Errors...>: the callables take no argument *)

success_void(errors) == success(errors, Void)

is_success_void(o) == o.ok /\ o.value = Void

ensure_success(o) == IF is_success_void(o) THEN Void ELSE BadOutcomeAccess

error_void(o, type) == IF ~is_success_void(o) /\ o.error.type = type THEN o.error ELSE BadVariantAccess

and_then_void(o, fErrors, f) ==
    LET errors == merge_all({o.errors, fErrors})
    IN  IF is_success_void(o) THEN widen_outcome(errors, f) ELSE failure(errors, o.error)

or_else_void(o, fErrors, f) == IF is_success_void(o) THEN success_void(fErrors) ELSE f

transform_void(o, v) == IF is_success_void(o) THEN success(o.errors, v) ELSE o

----------------------------------------------------------------------------
(* chain_outcomes *)

(* Fault: a later error replaces an earlier one. *)
extract_last_error(errors, os) == failure(errors, SelectSeq(os, is_error)[Len(SelectSeq(os, is_error))].error)

extract_first_error(errors, os) == failure(errors, SelectSeq(os, is_error)[1].error)

NonVoidTypes(os) == SelectSeq(os, LAMBDA o : o.value # Void)

\* The tuple of one element is that element, the empty tuple is void.
SimplifyTuple(vs) ==
    CASE Len(vs) = 0 -> Void
      [] Len(vs) = 1 -> vs[1]
      [] OTHER       -> [k |-> "tuple", elements |-> vs]

chain_outcomes(os) ==
    LET errors == merge_all({os[i].errors : i \in DOMAIN os})
    IN  IF \E i \in DOMAIN os : is_error(os[i])
        THEN extract_first_error(errors, os)
        ELSE LET vs == NonVoidTypes(os)
             IN  success(errors, SimplifyTuple([i \in DOMAIN vs |-> value(vs[i])]))
============================================================================
