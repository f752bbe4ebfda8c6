-------------------------- MODULE RequestContext --------------------------
(***************************************************************************)
(* What a handler of the HTTP server reads of its request, and the         *)
(* responses it builds (components/http/http_server: request_context.hpp,  *)
(* request_context.cpp, response_factory.cpp).                             *)
(*                                                                         *)
(* A request is a record: method, version, path (a sequence of texts),     *)
(* query (the texts between the &, each with its key, its value and        *)
(* whether it has a =), fields (the header lines), and body.  A header     *)
(* value is the set of the texts that find() is asked for in it.  The body *)
(* is given by what the parsers make of it: json is the result of the JSON *)
(* reader, form the texts between the &.                                   *)
(***************************************************************************)
EXTENDS Sequences, FiniteSets, FiniteSetsExt

CONSTANTS
    tolower(_),        \* of a header name
    StringTo(_, _)     \* StringTo(T, text): std::stoi, std::stol, std::stod as
                       \* an optional, empty when they throw

\* The names the readers below ask for are in lower case already.
ASSUME TolowerAssumption ==
    \A name \in {"content-type", "accept"} : tolower(name) = name

nullopt == [has |-> FALSE]
Some(v) == [has |-> TRUE, val |-> v]
ValueOr(opt, default) == IF opt.has THEN opt.val ELSE default

\* A map filled from a sequence of keys and values: the last entry of a key
\* stays.
LastWins(entries) ==
    LET keys    == {entries[i].key : i \in DOMAIN entries}
        last(k) == Max({i \in DOMAIN entries : entries[i].key = k})
    IN  [k \in keys |-> entries[last(k)].val]

Lookup(map, key) == IF key \in DOMAIN map THEN Some(map[key]) ELSE nullopt

----------------------------------------------------------------------------
(* Construction *)

\* Texts without a = are skipped; used for the query and for a form body.
parse_query_params(pairs) ==
    LastWins([i \in {j \in DOMAIN pairs : pairs[j].eq} |-> pairs[i]])

parse_headers(fields) ==
    LastWins([i \in DOMAIN fields |->
                 [key |-> tolower(fields[i].name), val |-> fields[i].val]])

\* RequestContext(Request), then set_path_params and set_query_params.
Context(request, path_params) ==
    [request     |-> request,
     headers     |-> parse_headers(request.fields),
     path_params |-> path_params,
     query_params |-> parse_query_params(request.query),
     json        |-> nullopt,
     form        |-> nullopt,
     multipart   |-> nullopt]

----------------------------------------------------------------------------
(* Readers *)

(* Fault: the name is looked up as it is written. *)
HeaderCaseSensitive(ctx, name) == Lookup(ctx.headers, name)

header(ctx, name) == Lookup(ctx.headers, tolower(name))

header_or(ctx, name, default) == ValueOr(header(ctx, name), default)

HeaderHas(ctx, name, texts) ==
    LET h == header(ctx, name) IN h.has /\ h.val \cap texts # {}

is_json(ctx) == HeaderHas(ctx, "content-type", {"application/json"})

is_form_data(ctx) == HeaderHas(ctx, "content-type", {"application/x-www-form-urlencoded"})

is_multipart(ctx) == HeaderHas(ctx, "content-type", {"multipart/form-data"})

accepts_json(ctx) == HeaderHas(ctx, "accept", {"application/json", "*/*"})

accepts_html(ctx) == HeaderHas(ctx, "accept", {"text/html", "*/*"})

preferred_content_type(ctx) ==
    IF accepts_json(ctx) THEN "application/json"
    ELSE IF accepts_html(ctx) THEN "text/html" ELSE "text/plain"

convert_string(T, text) == IF T = "string" THEN Some(text) ELSE StringTo(T, text)

Converted(T, opt) == IF opt.has THEN convert_string(T, opt.val) ELSE nullopt

path(ctx, T, name) == Converted(T, Lookup(ctx.path_params, name))

path_or(ctx, T, name, default) == ValueOr(path(ctx, T, name), default)

query(ctx, T, name) == Converted(T, Lookup(ctx.query_params, name))

query_or(ctx, T, name, default) == ValueOr(query(ctx, T, name), default)

\* The three body readers keep what they parsed: they return the context with
\* the cache filled, the result, and whether an exception leaves them.
Read(ctx, result, threw) == [ctx |-> ctx, result |-> result, threw |-> threw]

\* "malformed" is parseFromStream returning false; "throws" is the exception
\* the JSON reader raises itself, which is no std::runtime_error.
json(ctx) ==
    IF ~is_json(ctx) THEN Read(ctx, nullopt, FALSE)
    ELSE IF ctx.json.has THEN Read(ctx, ctx.json, FALSE)
    ELSE IF ctx.request.body.json = "throws" THEN Read(ctx, nullopt, TRUE)
    ELSE IF ctx.request.body.json = "malformed" THEN Read(ctx, nullopt, FALSE)
    ELSE LET v == Some(ctx.request.body.json)
         IN  Read([ctx EXCEPT !.json = v], v, FALSE)

parse_form_data_body(ctx) == parse_query_params(ctx.request.body.form)

form_data(ctx) ==
    IF ~is_form_data(ctx) THEN Read(ctx, nullopt, FALSE)
    ELSE LET v == IF ctx.form.has THEN ctx.form ELSE Some(parse_form_data_body(ctx))
         IN  Read([ctx EXCEPT !.form = v], v, FALSE)

\* parse_multipart_body finds the boundary and splits nothing.
multipart_data(ctx) ==
    IF ~is_multipart(ctx) THEN Read(ctx, nullopt, FALSE)
    ELSE Read([ctx EXCEPT !.multipart = Some(<<>>)], Some(<<>>), FALSE)

----------------------------------------------------------------------------
(* Responses.  What the server does with one depends on its version only:  *)
(* no function of the factory sets the Connection field, so the response   *)
(* keeps the connection when its version does by default.                  *)

Response(factory, version) == [factory |-> factory, version |-> version]

keep_alive(res) == res.version >= 11

not_found(version) == Response("not_found", version)

\* What a handler returns: ok, json, created, bad_request, internal_error,
\* redirect, no_content, unauthorized, forbidden, custom or a not_found of its
\* own, each with the version the handler passes or the default, 11.
FactoryResponses(version) == {Response("handler", v) : v \in {version, 11}}
=============================================================================
