--------------------------- MODULE RouteRegistry ---------------------------
(***************************************************************************)
(* The routing table of the HTTP server                                    *)
(* (components/http/http_server: route_registry.hpp, route_registry.cpp).  *)
(*                                                                         *)
(* A registered path is a sequence of segments.  A segment has the names   *)
(* that stand in it in braces and the expression that regex_replace makes  *)
(* of it: every {name} becomes a group, and the rest of the text is left   *)
(* as it is, unescaped, so it may hold metacharacters and groups of its    *)
(* own.  The path of a request is a sequence of texts, and an expression   *)
(* is matched segment by segment: a literal that itself matches a '/' is   *)
(* left out.  A registry holds the exact routes as a map from method and   *)
(* path to the handler and the parametric ones as a list in the order of   *)
(* registration.                                                           *)
(***************************************************************************)
EXTENDS Sequences, FiniteSets, FiniteSetsExt, Functions

CONSTANTS
    RegexMatches(_, _),  \* RegexMatches(p, s): the expression p matches the text s
    Captures(_, _)       \* Captures(p, s): what its groups, in their order, hold then

Segment(names, text) == [names |-> names, text |-> text]
Literal(text) == Segment(<<>>, text)
Name(name)    == Segment(<<name>>, "([^/]+)")

\* What one call of find_handler gives: a handler with the values of the
\* names, or the exception std::out_of_range.
NotFound == [found |-> FALSE]
Found(handler, params) == [found |-> TRUE, handler |-> handler, params |-> params]

EmptyRegistry == [exact |-> <<>>, parametric |-> <<>>]

is_parametric_path(path) == \E i \in DOMAIN path : path[i].names # <<>>

make_route_key(method, texts) == <<method, texts>>

TextsOf(path) == [i \in DOMAIN path |-> path[i].text]

\* The sequences of a sequence, one after the other.
Joined(parts) ==
    LET upTo[n \in 0 .. Len(parts)] ==
            IF n = 0 THEN <<>> ELSE upTo[n - 1] \o parts[n]
    IN  upTo[Len(parts)]

\* param_names: the names from left to right.
NamesOf(path) == Joined([i \in DOMAIN path |-> path[i].names])

create_parametric_route(method, path, handler) ==
    [method |-> method, path |-> path, param_names |-> NamesOf(path),
     handler |-> handler]

\* The map with the entries of other, which replace those of the same key.
Overwritten(map, other) ==
    [k \in DOMAIN map \cup DOMAIN other |-> IF k \in DOMAIN other THEN other[k] ELSE map[k]]

add_route(registry, method, path, handler) ==
    IF is_parametric_path(path)
    THEN [registry EXCEPT !.parametric =
             Append(@, create_parametric_route(method, path, handler))]
    ELSE [registry EXCEPT !.exact =
             Overwritten(@, [k \in {make_route_key(method, TextsOf(path))} |-> handler])]

(* Fault: an exact route that is there already is kept. *)
MergeKeepsFirst(registry, other) ==
    [exact |-> Overwritten(other.exact, registry.exact),
     parametric |-> registry.parametric \o other.parametric]

\* merge(RouteRegistry&& other): the exact routes of other replace those of
\* the same key, its parametric routes come after.  The caller clears other.
merge(registry, other) ==
    [exact |-> Overwritten(registry.exact, other.exact),
     parametric |-> registry.parametric \o other.parametric]

route_count(registry) ==
    Cardinality(DOMAIN registry.exact) + Len(registry.parametric)

\* The compiled expression of the path against the whole text.
regex_match(texts, path) ==
    /\ Len(texts) = Len(path)
    /\ \A i \in DOMAIN path : RegexMatches(path[i].text, texts[i])

\* match[1], match[2], ... of a match: the groups of the whole expression,
\* those of the literal text among them.
Groups(texts, path) == Joined([i \in DOMAIN path |-> Captures(path[i].text, texts[i])])

\* The loop that fills params: the n-th name gets the n-th group, as far as
\* both go, and the later of two equal names wins.
BindNames(route, texts) ==
    LET groups == Groups(texts, route.path)
        bound  == DOMAIN route.param_names \cap DOMAIN groups
        last(n) == CHOOSE i \in bound :
                      /\ route.param_names[i] = n
                      /\ \A j \in bound : route.param_names[j] = n => j <= i
    IN  [n \in {route.param_names[i] : i \in bound} |-> groups[last(n)]]

find_handler(registry, method, texts) ==
    LET key == make_route_key(method, texts)
        matching == {i \in DOMAIN registry.parametric :
                        /\ registry.parametric[i].method = method
                        /\ regex_match(texts, registry.parametric[i].path)}
        first    == registry.parametric[Min(matching)]
    IN  IF key \in DOMAIN registry.exact
        THEN Found(registry.exact[key], <<>>)
        ELSE IF matching = {}
        THEN NotFound
        ELSE Found(first.handler, BindNames(first, texts))
=============================================================================
