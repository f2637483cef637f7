----------------------------- MODULE MCEvidence -----------------------------
(* Small instances of EvidenceService. *)
EXTENDS EvidenceService, TLC

CONSTANTS w1, w2

AnyWorker == Permutations(Workers)

(* "plan" is a query plan, "text" a question whose plan also follows       *)
(* edges; "small" holds one entity and "large" two.                        *)
TwoBodies == {"plan", "text"}
Kinds == [b \in TwoBodies |-> IF b = "plan" THEN {"MATCH"} ELSE {"MATCH", "CONNECTED_TO"}]
TwoVersions == {"small", "large"}
Sizes == [x \in TwoBodies \X TwoVersions |-> IF x[2] = "small" THEN 1 ELSE 2]

Granted(body, nonce) ==
    [body |-> body, nonce |-> nonce, graph |-> "g", capabilities |-> {},
     max_results |-> NoLimit, not_before |-> 0, not_after |-> 1, signer |-> OpKey]

Ask(route, body, scope) ==
    [body |-> body, graph |-> "g", route |-> route, scope |-> scope, parses |-> TRUE]

(* Two requests with one nonce, one with a limit that holds for one        *)
(* version of the graph only, the other with a time window; and no scope.  *)
SomeRequests ==
    {Ask("op_attested", "plan", [Granted("plan", 1) EXCEPT !.max_results = 1]),
     Ask("nl", "text", [Granted("text", 1) EXCEPT !.capabilities = Kinds["text"],
                                                  !.not_before = 1]),
     Ask("nl_attested", "text", NoScope)}

(* A scope for the plan on graph "g", shown with something else. *)
OtherQuery ==
    {Ask("nl_attested", "text", Granted("plan", 1)),
     [Ask("op", "plan", Granted("plan", 2)) EXCEPT !.graph = "h"]}
=============================================================================
