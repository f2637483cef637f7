----------------------------- MODULE MCPipeline -----------------------------
(***************************************************************************)
(* Small instances of AuthorizationPipeline.  Each set of requests below   *)
(* is one question; the .cfg files choose among them.                      *)
(***************************************************************************)
EXTENDS AuthorizationPipeline

CONSTANTS t1, t2, k1, k2

Settle == [id |-> "x", nonce |-> 1, expiry |-> 0, capability |-> "chain_settle",
           wellFormed |-> TRUE, riskOk |-> TRUE, size |-> "small"]

-----------------------------------------------------------------------------
(* Replay: "again" takes the nonce of "pay" and carries an expiry, "trade" *)
(* shares nothing but the action id with them.                             *)
ReplayActions == {"pay", "again", "trade"}
ReplayAttr ==
    [a \in ReplayActions |->
        CASE a = "pay"   -> Settle
          [] a = "again" -> [Settle EXCEPT !.expiry = 1]
          [] a = "trade" -> [Settle EXCEPT !.nonce = 2, !.capability = "trade_execute"]]

Plain(a) ==
    [action |-> a, parses |-> TRUE, codes |-> {}, pii |-> FALSE,
     denied |-> FALSE, human |-> FALSE, approval |-> NoRecord,
     downgrade |-> NoRecord]

Unsigned(t, body) == [tenant |-> t, body |-> body, cmd |-> NoRecord]

ReplayRequests == {Unsigned(t, Plain(a)) : t \in Tenants, a \in Actions}
NoCommand == {[cmd |-> NoRecord]}

-----------------------------------------------------------------------------
(* Grants: one action for every reason to refuse, and for the settlement   *)
(* every mix of violations, approval and downgrade.                        *)
GrantActions == {"pay", "big", "odd", "bent", "risky", "mint", "move", "trade"}
GrantAttr ==
    [a \in GrantActions |->
        CASE a = "pay"   -> Settle
          [] a = "big"   -> [Settle EXCEPT !.size = "large"]
          [] a = "odd"   -> [Settle EXCEPT !.size = "malformed"]
          [] a = "bent"  -> [Settle EXCEPT !.wellFormed = FALSE]
          [] a = "risky" -> [Settle EXCEPT !.riskOk = FALSE]
          [] a = "mint"  -> [Settle EXCEPT !.capability = "other"]
          [] a = "move"  -> [Settle EXCEPT !.capability = "treasury_rebalance"]
          [] a = "trade" -> [Settle EXCEPT !.nonce = 2, !.capability = "trade_execute"]]

(* "destination" needs two operators, "price" one. *)
GrantCodes == {"price", "destination"}

ApprovalOf(t, a, decision, ok) ==
    [hash |-> <<t, a>>, decision |-> decision, sigOk |-> ok]
Release(t, a, codes, nonce, signer, second) ==
    [hash |-> <<t, a>>, released |-> codes, nonce |-> nonce,
     signer |-> signer, second |-> second]

GrantRequests ==
    {Unsigned(t1, Plain(a)) : a \in Actions}
    \cup {Unsigned(t1, [Plain("pay") EXCEPT !.denied = TRUE]),
          Unsigned(t1, [Plain("pay") EXCEPT !.parses = FALSE]),
          Unsigned(t1, [Plain("pay") EXCEPT !.pii = TRUE])}
    \cup {Unsigned(t1, [Plain("pay") EXCEPT !.human = TRUE, !.approval = ap]) :
             ap \in {NoRecord, ApprovalOf(t1, "pay", "approve", TRUE),
                     ApprovalOf(t1, "pay", "approve", FALSE),
                     ApprovalOf(t1, "pay", "reject", TRUE),
                     ApprovalOf(t1, "big", "approve", TRUE)}}

DowngradeRequests ==
    {Unsigned(t1, [Plain("pay") EXCEPT !.codes = codes, !.downgrade = d]) :
        codes \in {{"price"}, Codes},
        d \in {NoRecord, Release(t1, "big", {"price"}, 1, k1, NoKey),
               Release(t1, "pay", {"price"}, 1, k1, NoKey),
               Release(t1, "pay", Codes, 1, k1, k1),
               Release(t1, "pay", Codes, 1, k1, k2)}}

-----------------------------------------------------------------------------
(* Operators: signed commands for the tenant and for the safety verbs, a   *)
(* release, and a nonce (1) they have in common.                           *)
Signed(t, body, nonce, key) ==
    [tenant |-> t, body |-> body,
     cmd |-> [verb |-> "authorize", scope |-> t, body |-> body, nonce |-> nonce,
              stamp |-> 0, signer |-> key]]

Blocked == [Plain("pay") EXCEPT !.codes = {"price"},
                                !.downgrade = Release(t1, "pay", {"price"}, 1, k1, NoKey)]

OperatorRequests ==
    {Signed(t1, Plain("trade"), 1, k1), Signed(t1, Blocked, 2, k1),
     Signed(t1, Plain("pay"), 3, NoKey), Unsigned(t1, Blocked)}

(* The second request of a run is an operator's. *)
OperatorsLast == arrivals = 2 /\ pc # "idle" => req \in OperatorRequests

AllRequests == GrantRequests \cup DowngradeRequests \cup OperatorRequests

SafetyCommand(verb, nonce) ==
    [cmd |-> [verb |-> verb, scope |-> Safety, body |-> "safety body",
              nonce |-> nonce, stamp |-> 0, signer |-> k1]]

SafetyCommands == {SafetyCommand("halt", 1), SafetyCommand("resume", 2)}

-----------------------------------------------------------------------------
(* One request for each statement that the code does not keep. *)
(* Good until second 3 of the epoch. *)
DatedActions == {"dated"}
DatedAttr == [a \in DatedActions |-> [Settle EXCEPT !.expiry = 3]]
DatedRequests == {Unsigned(t1, Plain("dated"))}
=============================================================================
