-------------------------------- MODULE MCMcp --------------------------------
(* A small instance of McpServer, with the plans of QueryExecutor. *)
EXTENDS McpQueries

CONSTANT k1

Suffixes == {<<"co", "uk">>}

Edge(a, b, kind) == [source |-> a, target |-> b, type |-> kind]
Node(type, terms) == [type |-> type, label |-> terms]
Doc(domain, terms) == [domain |-> domain, title |-> terms, authority |-> 1]
Claim(doc, terms) == [doc |-> doc, text |-> terms, confidence |-> 1]
ById(n) == [id |-> n, text |-> {"said"}]
ByText(terms) == [id |-> None, text |-> terms]

(* A cycle of three kinds of edges through a concept, and a document that  *)
(* replaces the concept its edges were drawn from; two subdomains of one   *)
(* origin.                                                                 *)
Cycle ==
    [nodes |-> "c" :> Node("concept", {"x"}),
     edges |-> {Edge("c", "d", "related"), Edge("d", "e", "derived_from"),
                Edge("e", "c", "same_as")},
     documents |-> "d" :> Doc(<<"a", "b", "org">>, {"y"}) @@ "e" :> Doc(<<"b", "org">>, {"z"}),
     claims |-> <<>>, contradictions |-> {}]

(* A chain of one kind, and two claims that contradict each other, from    *)
(* two origins under one suffix.                                           *)
Chain ==
    [nodes |-> "c" :> Node("concept", {"x"}),
     edges |-> {Edge("c", "m", "derived_from"), Edge("m", "k", "derived_from")},
     documents |-> "d" :> Doc(<<"p", "co", "uk">>, {"y"}) @@ "e" :> Doc(<<"q", "co", "uk">>, {"z"}),
     claims |-> "k" :> Claim("d", {"y"}) @@ "l" :> Claim("e", {"z"}),
     contradictions |-> {[a |-> ById("k"), b |-> ByText({"z"})],
                         [a |-> ByText({"x"}), b |-> ById("l")]}]

(* Two documents of two origins, and nothing between them. *)
Apart ==
    [nodes |-> <<>>, edges |-> {},
     documents |-> "d" :> Doc(<<"a", "b", "org">>, {"x"}) @@ "e" :> Doc(<<"c", "org">>, {"x"}),
     claims |-> <<>>, contradictions |-> {}]

Nothing == [nodes |-> <<>>, edges |-> {}, documents |-> <<>>, claims |-> <<>>,
            contradictions |-> {}]

SomeArtifacts == {Cycle, Chain, Apart, Nothing}

-----------------------------------------------------------------------------
Conn(kind, phrase) == [kind |-> kind, phrase |-> phrase]
Ask(head, connectors) == [head |-> head, connectors |-> connectors]

Scope(nonce) ==
    [graph_name |-> GraphName, capabilities |-> {}, max_results |-> None, not_before |-> 0,
     not_after |-> 0, nonce |-> nonce, signer |-> OpKey]
Read(op, scope) ==
    [frame |-> "request", method |-> "tools/call", tool |-> "read", op |-> op,
     scope |-> scope, question |-> None]
Question(q, scope) == [Read(Compile(q), scope) EXCEPT !.question = q]

Match(t) == With("MATCH", t)

(* Plans by hand: nested traversals, depth two and zero, a Boolean under a *)
(* traversal, an operator without its child; and no plan.                  *)
Plans ==
    {Over("CONNECTED_TO", 1, Over("DERIVED_FROM", 1, Match("z"))),
     Over("DERIVED_FROM", 2, Match("x")),
     Of("OR", <<Over("PATH", 2, Match("y")), Over("SAME_AS", 0, Match("z"))>>),
     Over("PATH", 1, Of("AND", <<Match("x")>>)),
     Of("NOT", <<>>), None}

(* Questions: an exclusion that takes the next connector, one that has its *)
(* own phrase, and one by source.                                          *)
Questions ==
    {Ask(None, <<Conn("EXCLUDE", None), Conn("CONNECTED", "y"), Conn("TYPE", "document")>>),
     Ask("x", <<Conn("SCORE", 0), Conn("EXCLUDE", "y")>>),
     Ask(None, <<Conn("EXCLUDE_SRC", <<"b", "org">>), Conn("NEAR", None)>>)}

(* One scope for all the plans, another for the questions; the plan with a *)
(* limit shares the nonce of the first.                                    *)
SomeReads ==
    {Read(op, Scope(1)) : op \in Plans} \cup {Question(q, Scope(2)) : q \in Questions} \cup
    {Read(Match("x"), [Scope(1) EXCEPT !.max_results = 2, !.capabilities = {"MATCH"}]),
     Read(Over("PATH", 1, Match("x")), [Scope(2) EXCEPT !.capabilities = {"MATCH"}]),
     Read(Match("x"), None), Read(Match("x"), [Scope(3) EXCEPT !.signer = NoKey]),
     Read(Match("x"), [Scope(1) EXCEPT !.graph_name = "other"])}

Command(verb, body) ==
    [verb |-> verb, scope |-> "harness", body |-> body, nonce |-> 1, stamp |-> 0,
     signer |-> CHOOSE k \in Keys : TRUE]
Write(change, cmd) ==
    [frame |-> "request", method |-> "tools/call", tool |-> "read_write",
     change |-> change, cmd |-> cmd]

SomeWrites ==
    {Write("widen", Command("harness_apply", "widen")), Write("widen", Command("halt", "widen")),
     Write("drop", Command("harness_apply", "widen")), Write("drop", None)}

Other(frame, method, tool) == [frame |-> frame, method |-> method, tool |-> tool]

SomeLines ==
    SomeReads \cup SomeWrites \cup
    {Other(frame, "none", "none") : frame \in Frame \ {"request"}} \cup
    {Other("request", "initialize", "none"), Other("request", "ping", "none")} \cup
    {Other("request", "tools/call", tool) : tool \in {"get_schema", "misshapen", "unknown"}}
=============================================================================
