----------------------------- MODULE Settlement -----------------------------
(***************************************************************************)
(* From an action's economics to the venue and back: the checks of         *)
(* EconomicChecks as AuthorizationPipeline.run calls them, get_venue, the  *)
(* simulated venue and RealL2Venue (src/src/venue), reconciliation and     *)
(* the summary of GET /tenants/{id}/reconciliation.                        *)
(*                                                                         *)
(* One live or simulated tenant, requests that the spine answers AUTO and  *)
(* that carry neither approval nor downgrade; AuthorizationPipeline has    *)
(* the other layers.  The handler runs on the event loop, one request at a *)
(* time; the chain goes on meanwhile, and an RPC may fail before or after  *)
(* the node has acted on it.                                               *)
(***************************************************************************)
EXTENDS EconomicChecks

CONSTANTS
    Actions,       \* the actions callers may ask for
    Deployments,   \* [env, layer, allowlist, keyed, rpc, injected, behave]
    LiveDefault,   \* live_default_max_settlement_wei
    Elsewhere,     \* the destination a venue in mode wrong_destination pays to
    NoAction,
    MaxRequests    \* bound

Modes == {"faithful", "wrong_destination", "partial", "reject", "missing_tx",
          "nonce_shift"}

Codes == {"NEVER_SUBMITTED", "VENUE_REJECTED", "MISSING_EXTERNAL_TX", "PARTIAL_EXECUTION",
          "UNEXPECTED_DESTINATION", "UNEXPECTED_AMOUNT", "NONCE_MISMATCH", "MATCH"}

(* keyed: the tenant has a settlement key; rpc: RATHNONE_L2_RPC_URL is     *)
(* set; injected: the pipeline is handed a RealL2Venue.                    *)
ASSUME SettlementAssumption ==
    /\ Actions \subseteq Action /\ NoAction \notin Actions
    /\ \A a, b \in Actions : a.id = b.id => a = b
    /\ \A d \in Deployments :
          /\ d.behave \in Modes /\ {d.keyed, d.rpc, d.injected} \subseteq BOOLEAN
          /\ d.injected => d.keyed
    /\ Elsewhere \in STRING \ {""} /\ None \notin Codes
    /\ LiveDefault \in Nat /\ MaxRequests \in Nat

(* Sources and feeds quote prices, and there are finitely many sources. *)
ASSUME LayerAssumption ==
    \A d \in Deployments :
        LET layer == d.layer
        IN  /\ layer.bps \in Nat /\ layer.quorum \in Nat /\ layer.enabled \in BOOLEAN
            /\ IsFiniteSet(DOMAIN layer.sources)
            /\ \A s \in DOMAIN layer.sources : \A i \in DOMAIN layer.sources[s] :
                  layer.sources[s][i] \in Nat
            /\ \A i \in DOMAIN layer.feeds : layer.feeds[i] \in Seq(Nat)

VARIABLES
    dep,       \* the deployment
    claimed,   \* the actions the replay registry holds
    pc, cur,   \* the request in the handler
    ledger,    \* the tenant's records: [event, action, code]
    world,     \* what happened outside: [action, to, amount, nonce, status, real]
    raised,    \* the actions whose request ended in an exception after signing
    requests

vars == <<dep, claimed, pc, cur, ledger, world, raised, requests>>

Init ==
    /\ dep \in Deployments
    /\ claimed = {} /\ pc = "idle" /\ cur = NoAction
    /\ ledger = <<>> /\ world = <<>> /\ raised = {} /\ requests = 0

Return == pc' = "idle" /\ cur' = NoAction

Raise == Return /\ raised' = raised \cup {cur} /\ UNCHANGED ledger

-----------------------------------------------------------------------------
(* authorize_action and the layers up to the signer. *)

(* The pipeline hands the engine an empty history. *)
RiskHistory == NoHistory(1)

EconomicallySound(a) ==
    /\ HygieneViolations(a, dep.layer, dep.allowlist) = {}
    /\ RiskViolations(a, FromEnv(dep.env), RiskHistory) = {}

(* Mutant of Taken: an action is taken once its outcome is recorded. *)
TakenWhenRecorded(a) ==
    \E i \in DOMAIN ledger :
        ledger[i].event = "v2_pipeline"
        /\ (ledger[i].action = a \/ ledger[i].action.nonce = a.nonce)

(* ActionRegistry.register *)
Taken(a) == a \in claimed \/ \E b \in claimed : b.nonce = a.nonce

(* as_intent and validate_settlement_intent, as_order and validate_order;  *)
(* the value of an intent is the notional rounded down.                    *)
SettlementGate(a) ==
    LET cap == Ceiling(dep.env, dep.keyed, LiveDefault)
    IN  CASE a.capability = "chain_settle" ->
                a.destination # "" /\ ~Over(Unit * (Notional(a) \div Unit), cap)
          [] a.capability = "trade_execute" ->
                a.side \in {"buy", "sell"} /\ a.quantity > 0
          [] OTHER -> TRUE

Receive ==
    /\ pc = "idle" /\ Loads(dep.env)
    /\ requests < MaxRequests
    /\ requests' = requests + 1
    /\ UNCHANGED <<dep, ledger, world, raised>>

(* 500 (the ceiling cannot be read) or 403; the registry is not touched. *)
Refuse(a) ==
    /\ Receive
    /\ ~Readable(dep.env.ceiling) \/ ~EconomicallySound(a) \/ Taken(a)
    /\ UNCHANGED <<claimed, pc, cur>>

(* The action is registered, and refused or not by the settlement gate. *)
Register(a) ==
    /\ Receive
    /\ Readable(dep.env.ceiling) /\ EconomicallySound(a) /\ ~Taken(a)
    /\ claimed' = claimed \cup {a}
    /\ IF SettlementGate(a) THEN pc' = "sign" /\ cur' = a ELSE UNCHANGED <<pc, cur>>

(* Mutant of Sign: a trade is signed without a record. *)
SignTradeUnrecorded ==
    /\ pc = "sign"
    /\ IF dep.keyed /\ cur.capability \notin {"chain_settle", "trade_execute"}
       THEN Raise
       ELSE /\ pc' = "submit"
            /\ ledger' = IF dep.keyed /\ cur.capability = "chain_settle"
                         THEN Append(ledger, [event |-> "live_sign", action |-> cur,
                                              code |-> None])
                         ELSE ledger
            /\ UNCHANGED <<cur, raised>>
    /\ UNCHANGED <<dep, claimed, world, requests>>

(* The signer of a live tenant knows two capabilities and fails for        *)
(* others; its record is in the ledger before the venue hears of anything. *)
Sign ==
    /\ pc = "sign"
    /\ IF dep.keyed /\ cur.capability \notin {"chain_settle", "trade_execute"}
       THEN Raise
       ELSE /\ pc' = "submit"
            /\ ledger' = IF dep.keyed
                         THEN Append(ledger, [event |-> "live_sign", action |-> cur,
                                              code |-> None])
                         ELSE ledger
            /\ UNCHANGED <<cur, raised>>
    /\ UNCHANGED <<dep, claimed, world, requests>>

-----------------------------------------------------------------------------
(* The venues. *)

(* get_venue wants an attribute `live` of the tenant, which a Tenant does  *)
(* not have: what it is asked for with the RPC set is the simulator too.   *)
TenantLive == FALSE
GetVenue == IF dep.rpc /\ TenantLive /\ dep.keyed THEN "l2" ELSE "simulated"
Venue == IF dep.injected THEN "l2" ELSE GetVenue

(* SimulatedVenue.submit: what it does in each mode is what it reports. *)
SubmitSimulated ==
    /\ pc = "submit" /\ Venue = "simulated"
    /\ world' = Append(world,
          [action |-> cur, real |-> FALSE,
           to |-> IF dep.behave = "wrong_destination" THEN Elsewhere ELSE cur.destination,
           amount |-> IF dep.behave = "partial" THEN Amount(cur) \div 2 ELSE Amount(cur),
           nonce |-> IF dep.behave = "nonce_shift" THEN cur.nonce + 1 ELSE cur.nonce,
           status |-> CASE dep.behave = "reject" -> "REJECTED"
                        [] dep.behave = "missing_tx" -> "ACCEPTED"
                        [] OTHER -> "SETTLED"])
    /\ pc' = "query"
    /\ UNCHANGED <<dep, claimed, cur, ledger, raised, requests>>

(* _build_raw_tx: only a settlement moves value, int(notional_value). *)
RawTx(a) ==
    [action |-> a, real |-> TRUE, to |-> a.destination, nonce |-> a.nonce,
     amount |-> IF a.capability = "chain_settle" THEN Unit * (Notional(a) \div Unit) ELSE 0,
     status |-> "SUBMITTED"]

(* RealL2Venue.submit: eth_sendRawTransaction is answered, or its answer   *)
(* is lost, or it never reached the node or was refused there.             *)
SubmitL2 ==
    /\ pc = "submit" /\ Venue = "l2" /\ cur.destination # ""
    /\ \/ /\ world' = Append(world, RawTx(cur))
          /\ pc' = "query"
          /\ UNCHANGED <<cur, ledger, raised>>
       \/ world' = Append(world, RawTx(cur)) /\ Raise
       \/ UNCHANGED world /\ Raise
    /\ UNCHANGED <<dep, claimed, requests>>

SubmitL2Nowhere ==
    /\ pc = "submit" /\ Venue = "l2" /\ cur.destination = ""
    /\ Raise
    /\ UNCHANGED <<dep, claimed, world, requests>>

(* The chain includes a transaction, or it reverts. *)
Mine ==
    \E i \in DOMAIN world, status \in {"SETTLED", "REJECTED"} :
        /\ world[i].real /\ world[i].status = "SUBMITTED"
        /\ world' = [world EXCEPT ![i].status = status]
        /\ UNCHANGED <<dep, claimed, pc, cur, ledger, raised, requests>>

-----------------------------------------------------------------------------
(* Reconciliation. *)

Latest(a) == world[CHOOSE i \in DOMAIN world :
                     /\ world[i].action = a
                     /\ \A j \in DOMAIN world : world[j].action = a => j <= i]

NoReport == [state |-> "NONE", to |-> "", amount |-> 0, nonce |-> 0]

(* Mutant of ReceiptReport: a transaction is taken for settled as soon as  *)
(* the node knows it.                                                      *)
ReceiptReportEager(tx, full) ==
    [state |-> IF tx.status = "REJECTED" THEN "REJECTED" ELSE "SETTLED",
     to |-> tx.to, amount |-> IF full THEN tx.amount ELSE 0,
     nonce |-> IF full THEN tx.nonce ELSE 0]

(* RealL2Venue.query: no receipt yet, or its status; a node need not put   *)
(* value and nonce in a receipt, and they are then read as zero.           *)
ReceiptReport(tx, full) ==
    IF tx.status = "SUBMITTED" THEN [NoReport EXCEPT !.state = "SUBMITTED"]
    ELSE [state |-> tx.status, to |-> tx.to, amount |-> IF full THEN tx.amount ELSE 0,
          nonce |-> IF full THEN tx.nonce ELSE 0]

(* What query may answer after submit, of a venue object that was made for *)
(* this request (asked for an action it was never given, NoReport).        *)
Reports ==
    IF Venue = "l2" THEN {ReceiptReport(Latest(cur), full) : full \in BOOLEAN}
    ELSE LET x == Latest(cur)
         IN  {[state |-> x.status, to |-> x.to, amount |-> x.amount, nonce |-> x.nonce]}

(* ReconciliationEngine.reconcile *)
Code(a, rep) ==
    CASE rep.state = "NONE" -> "NEVER_SUBMITTED"
      [] rep.state = "REJECTED" -> "VENUE_REJECTED"
      [] rep.state \in {"SUBMITTED", "ACCEPTED"} -> "MISSING_EXTERNAL_TX"
      [] rep.state = "PARTIAL" -> "PARTIAL_EXECUTION"
      [] OTHER ->
            IF rep.to # "" /\ a.destination # "" /\ rep.to # a.destination
            THEN "UNEXPECTED_DESTINATION"
            ELSE IF rep.amount # Amount(a) THEN "UNEXPECTED_AMOUNT"
            ELSE IF rep.nonce # a.nonce THEN "NONCE_MISMATCH"
            ELSE "MATCH"

Reconcile ==
    /\ pc = "query"
    /\ \E rep \in Reports :
          ledger' = Append(ledger, [event |-> "v2_pipeline", action |-> cur,
                                    code |-> Code(cur, rep)])
    /\ Return
    /\ UNCHANGED <<dep, claimed, world, raised, requests>>

(* eth_getTransactionReceipt fails. *)
QueryFails ==
    /\ pc = "query" /\ Venue = "l2"
    /\ Raise
    /\ UNCHANGED <<dep, claimed, world, requests>>

(* Mutant of Outcomes: what is not final is left out. *)
OutcomesFinal(records) ==
    {i \in DOMAIN records : /\ records[i].event = "v2_pipeline"
                            /\ records[i].code # "MISSING_EXTERNAL_TX"}

(* The entries that record an outcome, by their place in the ledger. *)
Outcomes(records) ==
    {i \in DOMAIN records : records[i].event = "v2_pipeline" /\ records[i].code # None}

(* summarize_reconciliation *)
Summary ==
    LET outcomes == Outcomes(ledger)
        matched == {i \in outcomes : ledger[i].code = "MATCH"}
    IN  [total |-> Cardinality(outcomes), matched |-> Cardinality(matched),
         divergences |-> {i \in outcomes : ledger[i].code # "MATCH"},
         allMatched |-> outcomes # {} /\ Cardinality(matched) = Cardinality(outcomes)]

Next ==
    \/ \E a \in Actions : Refuse(a) \/ Register(a)
    \/ Sign \/ SubmitSimulated \/ SubmitL2 \/ SubmitL2Nowhere \/ Mine
    \/ Reconcile \/ QueryFails

Spec == Init /\ [][Next]_vars

-----------------------------------------------------------------------------
(* Every variable holds a value of its type, and a request is past the     *)
(* signer only with an action the registry holds.                          *)
TypeOK ==
    /\ dep \in Deployments /\ claimed \subseteq Actions
    /\ pc \in {"idle", "sign", "submit", "query"}
    /\ IF pc = "idle" THEN cur = NoAction ELSE cur \in claimed
    /\ raised \subseteq claimed
    /\ \A i \in DOMAIN world : world[i].action \in claimed /\ world[i].amount \in Nat

(* A record that says MATCH is about something that did happen, has        *)
(* settled, and is what was authorized: its nonce, its amount and, if the  *)
(* action names one, its destination (venue/l2.py:13: "a simulated MATCH   *)
(* for an action that was never broadcast" is the worst failure).          *)
MatchIsReal ==
    \A i \in DOMAIN ledger :
        ledger[i].code = "MATCH" =>
            LET a == ledger[i].action
            IN  \E j \in DOMAIN world :
                   /\ world[j].action = a /\ world[j].status = "SETTLED"
                   /\ world[j].nonce = a.nonce /\ world[j].amount = Amount(a)
                   /\ a.destination # "" => world[j].to = a.destination

(* An action is sent out once and so is a nonce, also when the answer of   *)
(* the node is lost, the caller sees an error and asks again.              *)
SentOnce ==
    \A i, j \in DOMAIN world :
        /\ \/ world[i].action = world[j].action
           \/ world[i].action.nonce = world[j].action.nonce
        => i = j

(* Whatever goes on the chain is in the signed ledger already, whether or  *)
(* not its request lives to record the outcome.                            *)
BroadcastIsRecorded ==
    \A i \in DOMAIN world :
        world[i].real =>
            \E j \in DOMAIN ledger : /\ ledger[j].event = "live_sign"
                                     /\ ledger[j].action = world[i].action

(* Between requests the operator can account for everything that went out: *)
(* it is counted as a match, listed as a divergence, or its request ended  *)
(* in an error; and the summary claims that all is matched only when       *)
(* everything it knows of has settled.                                     *)
Accounted ==
    /\ TypeOK
    /\ pc = "idle" =>
        /\ \A i \in DOMAIN world :
              \/ world[i].action \in raised
              \/ \E j \in Outcomes(ledger) : ledger[j].action = world[i].action
        /\ Summary.total = Summary.matched + Cardinality(Summary.divergences)
        /\ Summary.allMatched =>
              \A i \in DOMAIN world :
                  world[i].action \notin raised => world[i].status = "SETTLED"

(* No venue is paid more for a priced action than any cap the operator put *)
(* in the environment, zero included, whatever the venue's mode.  (An      *)
(* action without a price limit has a notional of zero and passes them.)   *)
CapsHold ==
    \A i \in DOMAIN world :
        LET a == world[i].action
            caps == {dep.env.order, dep.env.position, dep.env.exposure}
                    \cup (IF a.side = "buy" THEN {dep.env.loss} ELSE {})
        IN  a.price # 0 => \A c \in caps \ {None} : world[i].amount <= c

(* With the corroboration layer on, sources that are wrong do not move the *)
(* price as long as they are fewer than half: what is sent out is within   *)
(* the band of any range of prices that most of the sources quote.         *)
MinorityCannotMovePrice ==
    \A i \in DOMAIN world :
        LET a == world[i].action
            quotes == Quotes(dep.layer, a.instrument)
            Within(lo, hi) == {s \in DOMAIN quotes : quotes[s] \in lo .. hi}
        IN  dep.layer.enabled =>
            /\ Cardinality(DOMAIN quotes) >= dep.layer.quorum /\ DOMAIN quotes # {}
            /\ \A s, t \in DOMAIN quotes :
                  2 * Cardinality(Within(quotes[s], quotes[t])) > Cardinality(DOMAIN quotes)
                  => /\ Basis * a.price >= quotes[s] * (Basis - dep.layer.bps)
                     /\ Basis * a.price <= quotes[t] * (Basis + dep.layer.bps)

(* What README.md:100 says of RATHNONE_L2_RPC_URL, that it "enables real   *)
(* on-chain broadcast of authorized+live-signed actions": with it, a live  *)
(* tenant's match is about a transaction that was broadcast.               *)
MatchIsBroadcast ==
    \A i \in DOMAIN ledger :
        dep.rpc /\ dep.keyed /\ ledger[i].code = "MATCH" =>
            \E j \in DOMAIN world : world[j].real /\ world[j].action = ledger[i].action
=============================================================================
