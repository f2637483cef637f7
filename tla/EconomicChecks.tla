--------------------------- MODULE EconomicChecks ---------------------------
(***************************************************************************)
(* The pure checks on an action's economics: the limits a deployment reads *)
(* from its environment (src/src/config.py), the risk engine               *)
(* (src/src/risk/engine.py) and the corroboration layer                    *)
(* (src/src/hygiene/__init__.py).                                          *)
(*                                                                         *)
(* Floats are numbers of quarters of a unit: prices, amounts and caps are  *)
(* given in whole units, so a half of a median of two is still exact.      *)
(***************************************************************************)
EXTENDS Integers, Sequences, FiniteSets, TLC, SequencesExt

CONSTANTS
    None,   \* an unset variable, an absent bound or an absent claim
    Bad     \* the text of a variable that is not a number

Unit == 4

(* The basis points of the whole. *)
Basis == 10000

(* The names of the checks that fail. *)
Failing(checks) == {c \in DOMAIN checks : checks[c]}

-----------------------------------------------------------------------------
(* FinancialAction: quantity in units, price_limit in quarters. *)
Action == [id: STRING, capability: STRING, instrument: STRING,
           side: {"buy", "sell", "transfer"}, quantity: Nat, price: Nat,
           destination: STRING, nonce: Nat, grounded: BOOLEAN,
           intended: Nat \cup {None}, highRisk: BOOLEAN]

Notional(a) == a.quantity * a.price

(* `notional_value or float(quantity)`, of the venue and of the pipeline. *)
Amount(a) == IF Notional(a) # 0 THEN Notional(a) ELSE Unit * a.quantity

-----------------------------------------------------------------------------
(* config.py: an unset variable is no bound, a text that is no number or a *)
(* negative one raises; the two rates only have to be numbers.             *)
Readable(raw) == raw \in Nat \cup {None}

ReadInt(raw, default) == IF raw = None THEN default ELSE raw

(* TenantLimits.from_env, at import: it raises, or all of them are read. *)
Loads(env) ==
    /\ \A raw \in {env.order, env.position, env.loss, env.exposure} : Readable(raw)
    /\ env.concentration # Bad /\ env.velocity # Bad

FromEnv(env) ==
    [order |-> env.order, position |-> env.position, loss |-> env.loss,
     exposure |-> env.exposure,
     concentration |-> ReadInt(env.concentration, 50),   \* per cent
     velocity |-> ReadInt(env.velocity, 1000)]

(* max_settlement_value_wei and its default for a live tenant. *)
Ceiling(env, live, liveDefault) ==
    IF env.ceiling # None THEN env.ceiling ELSE IF live THEN liveDefault ELSE None

-----------------------------------------------------------------------------
(* RiskEngine. *)

(* Mutant of Over: `if not cap` instead of `if cap is None`. *)
OverFalsy(n, cap) == cap \notin {None, 0} /\ n > cap

Over(n, cap) == cap # None /\ n > cap

(* RiskState with its permissive defaults; position holds the instruments  *)
(* that have one.                                                          *)
NoHistory(aum) ==
    [position |-> <<>>, exposure |-> 0, loss |-> 0, inWindow |-> 0, aum |-> aum]

Position(s, i) == IF i \in DOMAIN s.position THEN s.position[i] ELSE 0

RiskViolations(a, lim, s) ==
    Failing([
        MAX_ORDER_NOTIONAL |-> Over(Notional(a), lim.order),
        MAX_POSITION_SIZE |-> Over(Position(s, a.instrument) + Notional(a), lim.position),
        MAX_DAILY_LOSS |->
            Over(s.loss + (IF a.side = "buy" THEN Notional(a) ELSE 0), lim.loss),
        MAX_PORTFOLIO_EXPOSURE |-> Over(s.exposure + Notional(a), lim.exposure),
        CONCENTRATION_LIMIT |->
            /\ s.aum # 0 /\ a.instrument \in DOMAIN s.position
            /\ a.side = "buy"
            /\ 100 * s.position[a.instrument] >= lim.concentration * s.aum,
        VELOCITY_LIMIT |-> s.inWindow >= lim.velocity])

-----------------------------------------------------------------------------
(* CorroborationLayer. *)

(* Mutant of Median: the mean. *)
MedianMean(f) == FoldFunction(+, 0, f) \div Cardinality(DOMAIN f)

(* What stands at place k of the sorted values of f: fewer than k of them  *)
(* are smaller, and k or more are not larger.                              *)
Ranked(f, k) ==
    CHOOSE v \in Range(f) :
        /\ Cardinality({s \in DOMAIN f : f[s] < v}) < k
        /\ k <= Cardinality({s \in DOMAIN f : f[s] <= v})

(* _median, of the entries of a list or of the quotes of the sources. *)
Median(f) ==
    LET n == Cardinality(DOMAIN f)
        mid == n \div 2
    IN  IF n = 0 THEN 0
        ELSE IF n % 2 = 1 THEN Ranked(f, mid + 1)
        ELSE (Ranked(f, mid) + Ranked(f, mid + 1)) \div 2

(* One quote a source: an anonymous feed is the source "feed", with the    *)
(* median of its entries, unless a named source of that name replaces it.  *)
Quotes(layer, i) ==
    LET named == {s \in DOMAIN layer.sources : i \in DOMAIN layer.sources[s]}
        anonymous == IF i \in DOMAIN layer.feeds /\ layer.feeds[i] # <<>>
                     THEN {"feed"} ELSE {}
    IN  [s \in named \cup anonymous |->
            IF s \in named THEN layer.sources[s][i] ELSE Median(layer.feeds[i])]

(* The price claim: enough distinct sources, and within the band around    *)
(* their median.                                                           *)
PriceViolation(a, layer) ==
    LET quotes == Quotes(layer, a.instrument)
        mid == Median(quotes)
    IN  [price_unverifiable |->
            DOMAIN quotes = {} \/ Cardinality(DOMAIN quotes) < layer.quorum,
         price_out_of_band |->
            /\ DOMAIN quotes # {} /\ Cardinality(DOMAIN quotes) >= layer.quorum
            /\ \/ Basis * a.price < mid * (Basis - layer.bps)
               \/ Basis * a.price > mid * (Basis + layer.bps)]

(* evaluate, with an input verdict that is not BLOCKED. *)
HygieneViolations(a, layer, allowlist) ==
    IF ~layer.enabled THEN {}
    ELSE Failing(PriceViolation(a, layer)) \cup Failing([
        instrument_unknown |-> layer.master # {} /\ a.instrument \notin layer.master,
        destination_untrusted |-> a.destination # "" /\ allowlist = {},
        destination_off_allowlist |->
            a.destination # "" /\ allowlist # {} /\ a.destination \notin allowlist,
        quantity_intent_mismatch |-> a.intended # None /\ a.intended # a.quantity,
        evidence_ungrounded |-> a.highRisk /\ ~a.grounded])
=============================================================================
