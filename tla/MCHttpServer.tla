--------------------------- MODULE MCHttpServer ---------------------------
(* Two controllers with the same exact route and overlapping parametric    *)
(* ones, of which one has a group in its literal text and others a name in *)
(* a part of a segment; the requests meet an exact, a parametric and no    *)
(* route, and the body of one makes the JSON parser throw.                 *)
EXTENDS HttpServer

CONSTANTS c1, c2

MCRegexMatches(p, s) ==
    CASE p = "([^/]+)" -> s # ""
      [] p = "([^/]+).x" -> s = "8.x"
      [] p \in {"it.m", "(it.m)"} -> s = "item"
      [] OTHER -> p = s

MCCaptures(p, s) ==
    CASE p \in {"([^/]+)", "(it.m)"} -> <<s>>
      [] p = "([^/]+).x" -> <<"8">>
      [] OTHER -> <<>>

Mctolower(name) == IF name = "Content-Type" THEN "content-type" ELSE name
MCStringTo(T, text) == IF text = "7" THEN Some(7) ELSE nullopt

H(c, id) == [controller |-> c, id |-> id]
Route(method, p, h) == [method |-> method, path |-> p, handler |-> h]

MCRoutesOf ==
    [c \in {c1, c2} |->
        IF c = c1
        THEN <<Route("get", <<Literal("item"), Literal("7")>>, H(c1, "seven")),
               Route("get", <<Literal("(it.m)"), Name("id")>>, H(c1, "item"))>>
        ELSE <<Route("get", <<Literal("item"), Literal("7")>>, H(c2, "seven")),
               Route("get", <<Literal("it.m"), Segment(<<"id">>, "([^/]+).x")>>, H(c2, "x")),
               Route("get", <<Name("id"), Name("id")>>, H(c2, "any"))>>]

Pair(key, val, eq) == [key |-> key, val |-> val, eq |-> eq]
Field(name, val) == [name |-> name, val |-> val]

MCRequests ==
    {[method |-> "get", version |-> 11, path |-> <<"item", "7">>,
      query |-> <<Pair("q", "1", TRUE), Pair("q", "2", TRUE), Pair("q", "3", FALSE)>>,
      fields |-> <<Field("Content-Type", {"text/plain"}),
                   Field("content-type", {"application/json"})>>,
      body |-> [json |-> "doc", form |-> <<>>]],
     [method |-> "get", version |-> 10, path |-> <<"item", "8.x">>, query |-> <<>>,
      fields |-> <<Field("Content-Type", {"application/x-www-form-urlencoded"})>>,
      body |-> [json |-> "malformed", form |-> <<Pair("k", "1", TRUE)>>]],
     [method |-> "get", version |-> 11, path |-> <<"item", "8.x">>, query |-> <<>>,
      fields |-> <<Field("Content-Type", {"application/json"})>>,
      body |-> [json |-> "throws", form |-> <<>>]],
     [method |-> "get", version |-> 11, path |-> <<"none">>, query |-> <<>>,
      fields |-> <<>>, body |-> [json |-> "malformed", form |-> <<>>]]}

MCRegistrations ==
    {OnCallback(OnCallback(OnCallback(OnCallback(NoCallbacks,
        "request"), "response"), "error_async"), "stop")}
=============================================================================
