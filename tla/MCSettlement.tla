---------------------------- MODULE MCSettlement ----------------------------
(* Small deployments for Settlement: every mode of the simulator, the L2   *)
(* venue, caps at their edges, and sources that disagree.                  *)
EXTENDS Settlement

Act(id, capability, side, quantity, price, to, nonce) ==
    [id |-> id, capability |-> capability, instrument |-> "ETH", side |-> side,
     quantity |-> quantity, price |-> price, destination |-> to, nonce |-> nonce,
     grounded |-> TRUE, intended |-> None, highRisk |-> FALSE]

(* A settlement, the same with another price and with a fraction, one with *)
(* its nonce, trades with and without price and destination, a rebalance,  *)
(* and what the corroboration layer refuses.                               *)
SomeActions ==
    {Act("pay", "chain_settle", "transfer", 1, 4, "d1", 0),
     Act("pay more", "chain_settle", "transfer", 2, 8, "d1", 1),
     Act("pay a fraction", "chain_settle", "transfer", 1, 6, "d2", 2),
     Act("pay again", "chain_settle", "transfer", 1, 4, "d1", 1),
     Act("buy", "trade_execute", "buy", 1, 8, "", 3),
     Act("buy at market", "trade_execute", "buy", 2, 0, "d1", 4),
     [Act("sell", "trade_execute", "sell", 1, 4, "d1", 5) EXCEPT !.instrument = "BTC"],
     Act("nothing", "trade_execute", "transfer", 0, 4, "", 6),
     Act("rebalance", "treasury_rebalance", "transfer", 1, 4, "d1", 7),
     [Act("misquoted", "chain_settle", "transfer", 1, 4, "d1", 8) EXCEPT !.intended = 2],
     [Act("ungrounded", "chain_settle", "transfer", 1, 4, "d1", 9)
         EXCEPT !.highRisk = TRUE, !.grounded = FALSE]}

Free == [order |-> None, position |-> None, loss |-> None, exposure |-> None,
         concentration |-> None, velocity |-> None, ceiling |-> None]

Envs == {Free, [Free EXCEPT !.order = 4], [Free EXCEPT !.order = 0],
         [Free EXCEPT !.position = 8, !.loss = 4], [Free EXCEPT !.exposure = 4],
         [Free EXCEPT !.order = Bad], [Free EXCEPT !.loss = -4],
         [Free EXCEPT !.velocity = 0], [Free EXCEPT !.ceiling = 0],
         [Free EXCEPT !.ceiling = 8], [Free EXCEPT !.ceiling = Bad]}

Off == [enabled |-> FALSE, master |-> {}, feeds |-> <<>>, sources |-> <<>>,
        bps |-> 5000, quorum |-> 2]

Sources(f) == [s \in DOMAIN f |-> [i \in {"ETH"} |-> f[s]]]

Layers ==
    {[Off EXCEPT !.enabled = TRUE, !.sources = Sources(f)] :
        f \in {[s1 |-> 4], [s1 |-> 4, s2 |-> 8], [s1 |-> 4, s2 |-> 4, s3 |-> 40],
               [s1 |-> 0, s2 |-> 8, s3 |-> 8], [s1 |-> 4, feed |-> 8],
               [s1 |-> 0, s2 |-> 8, s3 |-> 4, s4 |-> 8]}}
    \cup {[Off EXCEPT !.enabled = TRUE, !.quorum = q, !.master = {"ETH"},
                      !.feeds = [ETH |-> <<4, 40, 4, 8>>]] : q \in {1, 2}}
    \cup {[Off EXCEPT !.enabled = TRUE, !.master = {"BTC"},
                      !.sources = Sources([s1 |-> 4, s2 |-> 4])]}

Deployment(env, layer, allowlist, keyed, rpc, injected, behave) ==
    [env |-> env, layer |-> layer, allowlist |-> allowlist, keyed |-> keyed,
     rpc |-> rpc, injected |-> injected, behave |-> behave]

SomeDeployments ==
    {Deployment(Free, Off, {}, keyed, FALSE, FALSE, mode) :
        keyed \in BOOLEAN, mode \in Modes}
    \cup {Deployment(env, Off, {}, TRUE, TRUE, TRUE, "faithful") :
             env \in {Free, [Free EXCEPT !.ceiling = 4]}}
    \cup {Deployment(env, Off, {}, FALSE, FALSE, FALSE, "faithful") : env \in Envs}
    \cup {Deployment(Free, layer, allowlist, FALSE, FALSE, FALSE, "faithful") :
             layer \in Layers, allowlist \in {{}, {"d1"}}}

(* The deployment of the README: the RPC is set and the tenant is live. *)
LiveDeployments == {Deployment(Free, Off, {}, TRUE, TRUE, FALSE, "faithful")}
=============================================================================
