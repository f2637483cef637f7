-------------------------- MODULE SettlementProofs --------------------------
(***************************************************************************)
(* Settlement for any set of actions, any deployments and any number of    *)
(* requests: what is sent, what is recorded of it, and what it may cost.   *)
(***************************************************************************)
EXTENDS Settlement, FiniteSetTheorems, WellFoundedInduction, TLAPS

Sent == [action: Actions, real: BOOLEAN, to: STRING, amount: Nat, nonce: Nat,
         status: {"SUBMITTED", "SETTLED", "REJECTED", "ACCEPTED"}]

Record == [event: {"live_sign", "v2_pipeline"}, action: Actions,
           code: Codes \cup {None}]

(* What is outside agrees with the action it was sent for, as far as the   *)
(* venue that sent it can be trusted: a transaction carries the action's   *)
(* destination and nonce, nobody pays more than the action's amount.       *)
Truthful(d, x) ==
    /\ x.amount <= Amount(x.action)
    /\ x.to \in {Elsewhere, x.action.destination}
    /\ x.real <=> d.injected
    /\ x.real => x.nonce = x.action.nonce /\ x.to = x.action.destination

Caps(a) ==
    {dep.env.order, dep.env.position, dep.env.exposure}
    \cup (IF a.side = "buy" THEN {dep.env.loss} ELSE {})

Capped(a) ==
    a.price # 0 => \A c \in Caps(a) \ {None} : c \in Nat /\ Amount(a) <= c

(* The inductive invariant.  SentOnce needs that a request which has not   *)
(* reached the venue is for an action the venue never saw, and that the    *)
(* registry holds one action a nonce; BroadcastIsRecorded, that the signer *)
(* has left its record before the venue is called; MatchIsReal, that the   *)
(* venue is asked about an action it holds exactly once, so that the       *)
(* report is about that one.                                               *)
WorldInv ==
    /\ world \in Seq(Sent)
    /\ \A i \in DOMAIN world : world[i].action \in claimed /\ Truthful(dep, world[i])
    /\ SentOnce

RegistryInv ==
    /\ \A a, b \in claimed : a.nonce = b.nonce => a = b
    /\ \A a \in claimed : Capped(a)

HandlerInv ==
    /\ pc \in {"sign", "submit"} => \A i \in DOMAIN world : world[i].action # cur
    /\ pc = "query" => \E i \in DOMAIN world : world[i].action = cur
    /\ pc = "submit" /\ dep.keyed =>
          \E j \in DOMAIN ledger : ledger[j].event = "live_sign" /\ ledger[j].action = cur

LedgerInv == ledger \in Seq(Record) /\ BroadcastIsRecorded /\ MatchIsReal

SInv == TypeOK /\ WorldInv /\ RegistryInv /\ HandlerInv /\ LedgerInv

-----------------------------------------------------------------------------
(* Arithmetic on an action's value. *)

LEMMA Halved ==
    ASSUME NEW n \in Nat
    PROVE  n \div 2 \in Nat /\ n \div 2 <= n
OBVIOUS

LEMMA RoundedDown ==
    ASSUME NEW n \in Nat
    PROVE  Unit * (n \div Unit) \in Nat /\ Unit * (n \div Unit) <= n
BY DEF Unit

LEMMA ProductType ==
    ASSUME NEW m \in Nat, NEW n \in Nat
    PROVE  m * n \in Nat /\ (m * n = 0 <=> m = 0 \/ n = 0)
OBVIOUS

LEMMA AmountType ==
    ASSUME NEW a \in Actions
    PROVE  /\ Notional(a) \in Nat /\ Amount(a) \in Nat
           /\ Notional(a) <= Amount(a)
           /\ a.price # 0 => Amount(a) = Notional(a)
<1>1. a.quantity \in Nat /\ a.price \in Nat
  BY SettlementAssumption DEF Action
<1>2. Notional(a) \in Nat /\ (Notional(a) = 0 <=> a.quantity = 0 \/ a.price = 0)
  BY <1>1, ProductType DEF Notional
<1> QED
  BY <1>1, <1>2 DEF Amount, Unit

(* What the venues send for an action is truthful and has its type. *)
LEMMA SimulatedIsSent ==
    ASSUME NEW a \in Actions, NEW to \in {Elsewhere, a.destination},
           NEW amount \in {Amount(a), Amount(a) \div 2},
           NEW nonce \in {a.nonce, a.nonce + 1},
           NEW status \in {"REJECTED", "ACCEPTED", "SETTLED"},
           NEW x, x = [action |-> a, real |-> FALSE, to |-> to, amount |-> amount,
                       nonce |-> nonce, status |-> status],
           dep \in Deployments, ~dep.injected
    PROVE  x \in Sent /\ Truthful(dep, x) /\ x.action = a /\ ~x.real
<1>1. a.destination \in STRING /\ a.nonce \in Nat /\ Elsewhere \in STRING
  BY SettlementAssumption DEF Action
<1>2. amount \in Nat /\ amount <= Amount(a)
  BY AmountType, Halved
<1>3. to \in STRING /\ nonce \in Nat
  BY <1>1
<1>4. x \in Sent
  BY <1>2, <1>3 DEF Sent
<1> QED
  BY <1>2, <1>4 DEF Truthful

LEMMA RawTxIsSent ==
    ASSUME NEW a \in Actions, dep \in Deployments, dep.injected
    PROVE  RawTx(a) \in Sent /\ Truthful(dep, RawTx(a)) /\ RawTx(a).action = a
<1>1. a.destination \in STRING /\ a.nonce \in Nat
  BY SettlementAssumption DEF Action
<1>2. Unit * (Notional(a) \div Unit) \in Nat /\ Unit * (Notional(a) \div Unit) <= Amount(a)
  BY AmountType, RoundedDown
<1>3. 0 <= Amount(a)
  BY AmountType
<1> DEFINE paid == IF a.capability = "chain_settle" THEN Unit * (Notional(a) \div Unit) ELSE 0
<1>4. paid \in Nat /\ paid <= Amount(a)
  BY <1>2, <1>3
<1>5. RawTx(a) = [action |-> a, real |-> TRUE, to |-> a.destination, nonce |-> a.nonce,
                  amount |-> paid, status |-> "SUBMITTED"]
  BY DEF RawTx
<1> HIDE DEF paid
<1> QED
  BY <1>1, <1>4, <1>5 DEF Sent, Truthful

-----------------------------------------------------------------------------
(* The risk engine, with the empty history the pipeline gives it. *)

LEMMA CapsChecked ==
    ASSUME NEW a \in Actions, dep \in Deployments, Loads(dep.env), EconomicallySound(a)
    PROVE  Capped(a)
<1> DEFINE lim == FromEnv(dep.env)
           n == Notional(a)
<1>1. RiskViolations(a, lim, RiskHistory) = {}
  BY DEF EconomicallySound
<1>2. /\ ~Over(n, lim.order)
      /\ ~Over(Position(RiskHistory, a.instrument) + n, lim.position)
      /\ ~Over(RiskHistory.loss + (IF a.side = "buy" THEN n ELSE 0), lim.loss)
      /\ ~Over(RiskHistory.exposure + n, lim.exposure)
  BY <1>1 DEF RiskViolations, Failing
<1>3. n \in Nat
  BY AmountType
<1>4. Position(RiskHistory, a.instrument) + n = n
  BY <1>3 DEF Position, RiskHistory, NoHistory
<1>5. RiskHistory.loss + n = n /\ RiskHistory.exposure + n = n
  BY <1>3 DEF RiskHistory, NoHistory
<1>6. /\ lim.order = dep.env.order /\ lim.position = dep.env.position
      /\ lim.loss = dep.env.loss /\ lim.exposure = dep.env.exposure
  BY DEF FromEnv
<1>7. /\ \A c \in {dep.env.order, dep.env.position, dep.env.exposure} : ~Over(n, c)
      /\ a.side = "buy" => ~Over(n, dep.env.loss)
  BY <1>2, <1>4, <1>5, <1>6
<1>8. \A c \in {dep.env.order, dep.env.position, dep.env.exposure, dep.env.loss} \ {None} :
         c \in Nat
  BY DEF Loads, Readable
<1>9. \A c \in Caps(a) \ {None} : c \in Nat /\ n <= c
  BY <1>3, <1>7, <1>8 DEF Caps, Over
<1> QED
  BY <1>9, AmountType DEF Capped

-----------------------------------------------------------------------------
(* The steps. *)

LEMMA Appended ==
    ASSUME NEW S, NEW s \in Seq(S), NEW e \in S, NEW t, t = Append(s, e)
    PROVE  /\ t \in Seq(S) /\ DOMAIN t = 1 .. Len(s) + 1
           /\ Len(s) + 1 \in DOMAIN t /\ t[Len(s) + 1] = e
           /\ \A i \in DOMAIN s : i \in DOMAIN t /\ t[i] = s[i]
           /\ \A i \in DOMAIN t : i \in DOMAIN s \/ i = Len(s) + 1
OBVIOUS

(* A request sends its action out: the venue has not seen it before. *)
LEMMA SendKeepsWorld ==
    ASSUME SInv, pc = "submit", NEW x \in Sent, x.action = cur, Truthful(dep, x),
           world' = Append(world, x), UNCHANGED <<dep, claimed>>
    PROVE  /\ WorldInv'
           /\ \E i \in DOMAIN world' : world'[i].action = cur
           /\ DOMAIN world' = 1 .. Len(world) + 1
           /\ world'[Len(world) + 1] = x
           /\ \A i \in DOMAIN world : i \in DOMAIN world' /\ world'[i] = world[i]
<1>1. world \in Seq(Sent) /\ cur \in claimed
  BY DEF SInv, WorldInv, TypeOK
<1>2. /\ world' \in Seq(Sent) /\ DOMAIN world' = 1 .. Len(world) + 1
      /\ world'[Len(world) + 1] = x
      /\ \A i \in DOMAIN world : i \in DOMAIN world' /\ world'[i] = world[i]
      /\ \A i \in DOMAIN world' : i \in DOMAIN world \/ i = Len(world) + 1
  BY <1>1, Appended
<1>3. \A i \in DOMAIN world : world[i].action \in claimed /\ world[i].action # cur
  BY DEF SInv, WorldInv, HandlerInv
<1>4. \A i \in DOMAIN world : world[i].action.nonce # cur.nonce
  BY <1>1, <1>3 DEF SInv, RegistryInv
<1>5. SentOnce'
  <2> SUFFICES ASSUME NEW i \in DOMAIN world', NEW j \in DOMAIN world',
                      \/ world'[i].action = world'[j].action
                      \/ world'[i].action.nonce = world'[j].action.nonce
               PROVE  i = j
    BY DEF SentOnce
  <2>1. CASE i \in DOMAIN world /\ j \in DOMAIN world
    BY <1>2, <2>1 DEF SInv, WorldInv, SentOnce
  <2> QED
    BY <1>2, <1>3, <1>4, <2>1
<1>6. \A i \in DOMAIN world' : world'[i].action \in claimed' /\ Truthful(dep', world'[i])
  <2> TAKE i \in DOMAIN world'
  <2>1. CASE i \in DOMAIN world
    BY <1>2, <2>1 DEF SInv, WorldInv, Truthful
  <2>2. CASE i = Len(world) + 1
    BY <1>1, <1>2, <2>2 DEF Truthful
  <2> QED
    BY <1>2, <2>1, <2>2
<1>7. Len(world) + 1 \in DOMAIN world'
  BY <1>1, <1>2
<1> QED
  BY <1>2, <1>5, <1>6, <1>7 DEF WorldInv

(* Nothing happens outside. *)
LEMMA WorldKept ==
    ASSUME SInv, UNCHANGED <<dep, world>>, claimed \subseteq claimed'
    PROVE  WorldInv'
BY DEF SInv, WorldInv, SentOnce, Truthful

LEMMA RegistryKept ==
    ASSUME SInv, UNCHANGED <<dep, claimed>>
    PROVE  RegistryInv'
BY DEF SInv, RegistryInv, Capped, Caps

LEMMA LedgerAppended ==
    ASSUME ledger \in Seq(Record), NEW r \in Record, ledger' = Append(ledger, r)
    PROVE  /\ ledger' \in Seq(Record)
           /\ Len(ledger) + 1 \in DOMAIN ledger' /\ ledger'[Len(ledger) + 1] = r
           /\ \A i \in DOMAIN ledger : i \in DOMAIN ledger' /\ ledger'[i] = ledger[i]
           /\ \A i \in DOMAIN ledger' : i \in DOMAIN ledger \/ i = Len(ledger) + 1
BY Appended

(* A record is added; none is taken away. *)
LEMMA RecordAdded ==
    ASSUME SInv, NEW r \in Record, ledger' = Append(ledger, r), UNCHANGED world,
           r.code = "MATCH" =>
               \E j \in DOMAIN world :
                  /\ world[j].action = r.action /\ world[j].status = "SETTLED"
                  /\ world[j].nonce = r.action.nonce
                  /\ world[j].amount = Amount(r.action)
                  /\ r.action.destination # "" => world[j].to = r.action.destination
    PROVE  /\ LedgerInv'
           /\ \E j \in DOMAIN ledger' : ledger'[j] = r
<1>1. ledger \in Seq(Record) /\ BroadcastIsRecorded /\ MatchIsReal
  BY DEF SInv, LedgerInv
<1>2. /\ ledger' \in Seq(Record)
      /\ Len(ledger) + 1 \in DOMAIN ledger' /\ ledger'[Len(ledger) + 1] = r
      /\ \A i \in DOMAIN ledger : i \in DOMAIN ledger' /\ ledger'[i] = ledger[i]
      /\ \A i \in DOMAIN ledger' : i \in DOMAIN ledger \/ i = Len(ledger) + 1
  BY <1>1, LedgerAppended
<1>3. BroadcastIsRecorded'
  <2> SUFFICES ASSUME NEW i \in DOMAIN world, world[i].real
               PROVE  \E j \in DOMAIN ledger' : /\ ledger'[j].event = "live_sign"
                                                /\ ledger'[j].action = world[i].action
    BY DEF BroadcastIsRecorded
  <2>1. PICK j \in DOMAIN ledger : /\ ledger[j].event = "live_sign"
                                   /\ ledger[j].action = world[i].action
    BY <1>1 DEF BroadcastIsRecorded
  <2>2. j \in DOMAIN ledger' /\ ledger'[j] = ledger[j]
    BY <1>2
  <2> QED
    BY <2>1, <2>2
<1>4. MatchIsReal'
  <2> SUFFICES ASSUME NEW i \in DOMAIN ledger', ledger'[i].code = "MATCH"
               PROVE  LET a == ledger'[i].action
                      IN  \E j \in DOMAIN world :
                             /\ world[j].action = a /\ world[j].status = "SETTLED"
                             /\ world[j].nonce = a.nonce /\ world[j].amount = Amount(a)
                             /\ a.destination # "" => world[j].to = a.destination
    BY DEF MatchIsReal
  <2>1. CASE i \in DOMAIN ledger
    BY <1>1, <1>2, <2>1 DEF MatchIsReal
  <2>2. CASE i = Len(ledger) + 1
    BY <1>2, <2>2
  <2> QED
    BY <1>2, <2>1, <2>2
<1> QED
  BY <1>2, <1>3, <1>4 DEF LedgerInv

(* What is sent without an error has its record in the ledger. *)
LEMMA SendKeepsLedger ==
    ASSUME SInv, pc = "submit", NEW x \in Sent, x.action = cur, x.real => dep.keyed,
           world' = Append(world, x), UNCHANGED ledger
    PROVE  LedgerInv'
<1>1. /\ world \in Seq(Sent)
      /\ ledger \in Seq(Record) /\ BroadcastIsRecorded /\ MatchIsReal
  BY DEF SInv, WorldInv, LedgerInv
<1>2. /\ \A i \in DOMAIN world : i \in DOMAIN world' /\ world'[i] = world[i]
      /\ \A i \in DOMAIN world' : world'[i] = x \/ (i \in DOMAIN world /\ world'[i] = world[i])
  BY <1>1
<1>3. x.real => \E j \in DOMAIN ledger : /\ ledger[j].event = "live_sign"
                                          /\ ledger[j].action = cur
  BY DEF SInv, HandlerInv
<1>4. BroadcastIsRecorded'
  BY <1>1, <1>2, <1>3 DEF BroadcastIsRecorded
<1>5. MatchIsReal'
  <2> SUFFICES ASSUME NEW i \in DOMAIN ledger, ledger[i].code = "MATCH"
               PROVE  LET a == ledger[i].action
                      IN  \E j \in DOMAIN world' :
                             /\ world'[j].action = a /\ world'[j].status = "SETTLED"
                             /\ world'[j].nonce = a.nonce /\ world'[j].amount = Amount(a)
                             /\ a.destination # "" => world'[j].to = a.destination
    BY DEF MatchIsReal
  <2> DEFINE a == ledger[i].action
  <2>1. PICK j \in DOMAIN world :
               /\ world[j].action = a /\ world[j].status = "SETTLED"
               /\ world[j].nonce = a.nonce /\ world[j].amount = Amount(a)
               /\ a.destination # "" => world[j].to = a.destination
    BY <1>1 DEF MatchIsReal
  <2> QED
    BY <1>2, <2>1
<1> QED
  BY <1>1, <1>4, <1>5 DEF LedgerInv

LEMMA WorldTypes ==
    ASSUME WorldInv
    PROVE  \A i \in DOMAIN world : world[i].action \in claimed /\ world[i].amount \in Nat
<1>1. \A i \in DOMAIN world : world[i].action \in claimed /\ world[i] \in Sent
  BY DEF WorldInv
<1> QED
  BY <1>1 DEF Sent

(* A request ends, with an answer or in an exception. *)
LEMMA EndKeeps ==
    ASSUME SInv, pc # "idle", Return, raised' \in {raised, raised \cup {cur}},
           UNCHANGED <<dep, claimed>>, WorldInv', LedgerInv'
    PROVE  SInv'
<1>1. RegistryInv'
  BY RegistryKept
<1>2. HandlerInv'
  BY DEF Return, HandlerInv
<1>3. (\A i \in DOMAIN world : world[i].action \in claimed /\ world[i].amount \in Nat)'
  BY WorldTypes, PTL
<1>4. TypeOK'
  BY <1>3 DEF SInv, TypeOK, Return
<1> QED
  BY <1>1, <1>2, <1>4 DEF SInv

(* Refused before the registry is asked to hold the action. *)
LEMMA RefuseKeeps ==
    ASSUME SInv, NEW a \in Actions, Refuse(a)
    PROVE  SInv'
<1>1. UNCHANGED <<dep, claimed, pc, cur, ledger, world, raised>>
  BY DEF Refuse, Receive
<1>2. WorldInv' /\ RegistryInv'
  BY <1>1, WorldKept, RegistryKept
<1>3. TypeOK' /\ HandlerInv' /\ LedgerInv'
  <2>1. TypeOK'
    BY <1>1 DEF SInv, TypeOK
  <2>2. HandlerInv'
    BY <1>1 DEF SInv, HandlerInv
  <2>3. LedgerInv'
    BY <1>1 DEF SInv, LedgerInv, BroadcastIsRecorded, MatchIsReal
  <2> QED
    BY <2>1, <2>2, <2>3
<1> QED
  BY <1>2, <1>3 DEF SInv

LEMMA RegisterKeeps ==
    ASSUME SInv, NEW a \in Actions, Register(a)
    PROVE  SInv'
<1>1. /\ pc = "idle" /\ Loads(dep.env) /\ EconomicallySound(a) /\ ~Taken(a)
      /\ claimed' = claimed \cup {a}
      /\ UNCHANGED <<dep, ledger, world, raised>>
      /\ \/ pc' = "sign" /\ cur' = a
         \/ UNCHANGED <<pc, cur>>
  BY DEF Register, Receive
<1>2. WorldInv'
  BY <1>1, WorldKept
<1>3. RegistryInv'
  <2>1. Capped(a)
    BY <1>1, CapsChecked DEF SInv, TypeOK
  <2> QED
    BY <1>1, <2>1 DEF SInv, RegistryInv, Taken, Capped, Caps
<1>4. HandlerInv'
  BY <1>1 DEF SInv, WorldInv, HandlerInv, Taken
<1>5. LedgerInv'
  BY <1>1 DEF SInv, LedgerInv, BroadcastIsRecorded, MatchIsReal
<1>6. TypeOK'
  BY <1>1 DEF SInv, TypeOK
<1> QED
  BY <1>2, <1>3, <1>4, <1>5, <1>6 DEF SInv

LEMMA SignKeeps ==
    ASSUME SInv, Sign
    PROVE  SInv'
<1>1. pc = "sign" /\ cur \in Actions /\ UNCHANGED <<dep, claimed, world>>
  BY DEF Sign, SInv, TypeOK
<1>2. WorldInv' /\ RegistryInv'
  BY <1>1, WorldKept, RegistryKept
<1>3. CASE Raise
  <2>1. LedgerInv'
    BY <1>1, <1>3 DEF Raise, SInv, LedgerInv, BroadcastIsRecorded, MatchIsReal
  <2> QED
    BY <1>1, <1>2, <1>3, <2>1, EndKeeps DEF Raise
<1>4. CASE pc' = "submit" /\ dep.keyed /\ UNCHANGED <<cur, raised>>
           /\ ledger' = Append(ledger, [event |-> "live_sign", action |-> cur,
                                        code |-> None])
  <2> DEFINE r == [event |-> "live_sign", action |-> cur, code |-> None]
  <2>1. r \in Record /\ r.code # "MATCH"
    BY <1>1, SettlementAssumption DEF Record, Codes
  <2>2. LedgerInv' /\ \E j \in DOMAIN ledger' : ledger'[j] = r
    BY <1>1, <1>4, <2>1, RecordAdded
  <2>3. HandlerInv'
    BY <1>1, <1>4, <2>2 DEF SInv, HandlerInv
  <2>4. TypeOK'
    BY <1>1, <1>4 DEF SInv, TypeOK
  <2> QED
    BY <1>2, <2>2, <2>3, <2>4 DEF SInv
<1>5. CASE pc' = "submit" /\ ~dep.keyed /\ UNCHANGED <<cur, raised, ledger>>
  <2>1. LedgerInv'
    BY <1>1, <1>5 DEF SInv, LedgerInv, BroadcastIsRecorded, MatchIsReal
  <2>2. HandlerInv'
    BY <1>1, <1>5 DEF SInv, HandlerInv
  <2>3. TypeOK'
    BY <1>1, <1>5 DEF SInv, TypeOK
  <2> QED
    BY <1>2, <2>1, <2>2, <2>3 DEF SInv
<1> QED
  BY <1>3, <1>4, <1>5 DEF Sign

LEMMA VenueIsInjected == ASSUME SInv PROVE (Venue = "l2") <=> dep.injected
BY SettlementAssumption DEF SInv, TypeOK, Venue, GetVenue, TenantLive

(* Whatever the simulator's mode, it sends one thing for the action. *)
LEMMA SimulatedSends ==
    ASSUME SInv, SubmitSimulated
    PROVE  \E x \in Sent : /\ Truthful(dep, x) /\ x.action = cur /\ ~x.real
                           /\ world' = Append(world, x)
<1>1. cur \in Actions /\ dep \in Deployments /\ ~dep.injected
  BY VenueIsInjected DEF SubmitSimulated, SInv, TypeOK
<1> DEFINE to == IF dep.behave = "wrong_destination" THEN Elsewhere ELSE cur.destination
           amount == IF dep.behave = "partial" THEN Amount(cur) \div 2 ELSE Amount(cur)
           nonce == IF dep.behave = "nonce_shift" THEN cur.nonce + 1 ELSE cur.nonce
           status == CASE dep.behave = "reject" -> "REJECTED"
                       [] dep.behave = "missing_tx" -> "ACCEPTED"
                       [] OTHER -> "SETTLED"
           x == [action |-> cur, real |-> FALSE, to |-> to, amount |-> amount,
                 nonce |-> nonce, status |-> status]
<1>2. /\ to \in {Elsewhere, cur.destination}
      /\ amount \in {Amount(cur), Amount(cur) \div 2}
      /\ nonce \in {cur.nonce, cur.nonce + 1}
      /\ status \in {"REJECTED", "ACCEPTED", "SETTLED"}
  OBVIOUS
<1>3. world' = Append(world, x)
  BY DEF SubmitSimulated
<1>4. x \in Sent /\ Truthful(dep, x) /\ x.action = cur /\ ~x.real
  <2> HIDE DEF to, amount, nonce, status
  <2> QED
    BY <1>1, <1>2, SimulatedIsSent
<1> HIDE DEF x
<1> QED
  BY <1>3, <1>4

LEMMA SubmitSimulatedKeeps ==
    ASSUME SInv, SubmitSimulated
    PROVE  SInv'
<1>1. /\ pc = "submit" /\ cur \in Actions /\ dep \in Deployments /\ ~dep.injected
      /\ pc' = "query" /\ UNCHANGED <<dep, claimed, cur, ledger, raised>>
  BY VenueIsInjected DEF SubmitSimulated, SInv, TypeOK
<1>3. PICK x \in Sent : /\ Truthful(dep, x) /\ x.action = cur /\ ~x.real
                        /\ world' = Append(world, x)
  BY SimulatedSends
<1>5. WorldInv' /\ \E i \in DOMAIN world' : world'[i].action = cur
  BY <1>1, <1>3, SendKeepsWorld
<1>6. LedgerInv'
  BY <1>1, <1>3, SendKeepsLedger
<1>7. RegistryInv'
  BY <1>1, RegistryKept
<1>8. HandlerInv'
  BY <1>1, <1>5 DEF HandlerInv
<1>9. (\A i \in DOMAIN world : world[i].action \in claimed /\ world[i].amount \in Nat)'
  BY <1>5, WorldTypes, PTL
<1>10. TypeOK'
  BY <1>1, <1>9 DEF SInv, TypeOK
<1> QED
  BY <1>5, <1>6, <1>7, <1>8, <1>10 DEF SInv

LEMMA SubmitL2Keeps ==
    ASSUME SInv, SubmitL2
    PROVE  SInv'
<1>1. /\ pc = "submit" /\ cur \in Actions /\ dep \in Deployments /\ dep.injected
      /\ dep.keyed /\ UNCHANGED <<dep, claimed>>
  BY VenueIsInjected, SettlementAssumption DEF SubmitL2, SInv, TypeOK
<1>2. RawTx(cur) \in Sent /\ Truthful(dep, RawTx(cur)) /\ RawTx(cur).action = cur
  BY <1>1, RawTxIsSent
<1>3. CASE world' = Append(world, RawTx(cur)) /\ UNCHANGED ledger
           /\ (Raise \/ (pc' = "query" /\ UNCHANGED <<cur, raised>>))
  <2>1. WorldInv' /\ \E i \in DOMAIN world' : world'[i].action = cur
    BY <1>1, <1>2, <1>3, SendKeepsWorld
  <2>2. LedgerInv'
    BY <1>1, <1>2, <1>3, SendKeepsLedger
  <2>3. CASE Raise
    BY <1>1, <2>1, <2>2, <2>3, EndKeeps DEF Raise
  <2>4. CASE pc' = "query" /\ UNCHANGED <<cur, raised>>
    <3>1. RegistryInv'
      BY <1>1, RegistryKept
    <3>2. HandlerInv'
      BY <2>1, <2>4 DEF HandlerInv
    <3>3. (\A i \in DOMAIN world : world[i].action \in claimed /\ world[i].amount \in Nat)'
      BY <2>1, WorldTypes, PTL
    <3>4. TypeOK'
      BY <1>1, <2>4, <3>3 DEF SInv, TypeOK
    <3> QED
      BY <2>1, <2>2, <3>1, <3>2, <3>4 DEF SInv
  <2> QED
    BY <1>3, <2>3, <2>4
<1>4. CASE UNCHANGED world /\ Raise
  <2>1. WorldInv' /\ LedgerInv'
    BY <1>1, <1>4, WorldKept
       DEF Raise, SInv, LedgerInv, BroadcastIsRecorded, MatchIsReal
  <2> QED
    BY <1>1, <1>4, <2>1, EndKeeps DEF Raise
<1> QED
  BY <1>3, <1>4 DEF SubmitL2, Raise

(* No transaction could be built, or no receipt was had. *)
LEMMA FailureKeeps ==
    ASSUME SInv, SubmitL2Nowhere \/ QueryFails
    PROVE  SInv'
<1>1. pc # "idle" /\ Raise /\ UNCHANGED <<dep, claimed, world>>
  BY DEF SubmitL2Nowhere, QueryFails
<1>2. WorldInv' /\ LedgerInv'
  BY <1>1, WorldKept DEF Raise, SInv, LedgerInv, BroadcastIsRecorded, MatchIsReal
<1> QED
  BY <1>1, <1>2, EndKeeps DEF Raise

(* The chain only decides what is still undecided, and changes nothing     *)
(* else about it.                                                          *)
LEMMA MineKeeps ==
    ASSUME SInv, Mine
    PROVE  SInv'
<1>1. PICK i \in DOMAIN world, status \in {"SETTLED", "REJECTED"} :
            /\ world[i].status = "SUBMITTED"
            /\ world' = [world EXCEPT ![i].status = status]
            /\ UNCHANGED <<dep, claimed, pc, cur, ledger, raised, requests>>
  BY DEF Mine
<1>2. world \in Seq(Sent)
  BY DEF SInv, WorldInv
<1>3. /\ world' \in Seq(Sent) /\ DOMAIN world' = DOMAIN world
      /\ \A j \in DOMAIN world :
            /\ world'[j].action = world[j].action /\ world'[j].real = world[j].real
            /\ world'[j].to = world[j].to /\ world'[j].amount = world[j].amount
            /\ world'[j].nonce = world[j].nonce
            /\ world[j].status = "SETTLED" => world'[j].status = "SETTLED"
  <2>0. world[i] \in Sent
    BY <1>2
  <2>1. [world[i] EXCEPT !.status = status] \in Sent
    BY <2>0 DEF Sent
  <2>2. world' = [world EXCEPT ![i] = [world[i] EXCEPT !.status = status]]
    BY <1>1
  <2>3. world' \in Seq(Sent) /\ DOMAIN world' = DOMAIN world
    BY <1>2, <2>1, <2>2
  <2>4. \A j \in DOMAIN world : j # i => world'[j] = world[j]
    BY <1>2, <2>2
  <2>5. world'[i] = [world[i] EXCEPT !.status = status] /\ world[i] \in Sent
    BY <1>1, <1>2, <2>2
  <2> QED
    BY <1>1, <2>3, <2>4, <2>5 DEF Sent
<1>4. WorldInv'
  BY <1>1, <1>3 DEF SInv, WorldInv, SentOnce, Truthful
<1>5. RegistryInv'
  BY <1>1, RegistryKept
<1>6. HandlerInv'
  BY <1>1, <1>3 DEF SInv, HandlerInv
<1>7. BroadcastIsRecorded'
  BY <1>1, <1>3 DEF SInv, LedgerInv, BroadcastIsRecorded
<1>8. MatchIsReal'
  BY <1>1, <1>3 DEF SInv, LedgerInv, MatchIsReal
<1>9. \A j \in DOMAIN world' : world'[j].action \in claimed' /\ world'[j].amount \in Nat
  BY <1>1, <1>3, WorldTypes DEF SInv
<1>10. TypeOK'
  BY <1>1, <1>9 DEF SInv, TypeOK
<1> QED
  BY <1>1, <1>4, <1>5, <1>6, <1>7, <1>8, <1>10 DEF SInv, LedgerInv

(* The report the engine sees is about the one thing that was sent for the *)
(* action.                                                                 *)
LEMMA LatestIsSent ==
    ASSUME SInv, pc = "query"
    PROVE  \E i \in DOMAIN world : Latest(cur) = world[i] /\ world[i].action = cur
<1>1. PICK i \in DOMAIN world : world[i].action = cur
  BY DEF SInv, HandlerInv
<1>2. \A j \in DOMAIN world : world[j].action = cur => j = i
  BY <1>1 DEF SInv, WorldInv, SentOnce
<1>3. i \in Nat
  BY DEF SInv, WorldInv
<1> DEFINE P(k) == /\ world[k].action = cur
                   /\ \A j \in DOMAIN world : world[j].action = cur => j <= k
<1>4. P(i)
  BY <1>1, <1>2, <1>3
<1>5. P(CHOOSE k \in DOMAIN world : P(k)) /\ (CHOOSE k \in DOMAIN world : P(k)) \in DOMAIN world
  BY <1>4
<1> QED
  BY <1>5 DEF Latest

(* What reconcile takes for a match has settled as it was authorized. *)
LEMMA MatchIsEarned ==
    ASSUME SInv, pc = "query", NEW rep \in Reports, Code(cur, rep) = "MATCH"
    PROVE  \E j \in DOMAIN world :
              /\ world[j].action = cur /\ world[j].status = "SETTLED"
              /\ world[j].nonce = cur.nonce /\ world[j].amount = Amount(cur)
              /\ cur.destination # "" => world[j].to = cur.destination
<1>1. PICK i \in DOMAIN world : Latest(cur) = world[i] /\ world[i].action = cur
  BY LatestIsSent
<1>2. world[i] \in Sent /\ Truthful(dep, world[i])
  BY DEF SInv, WorldInv
<1>3. cur \in Actions /\ Amount(cur) \in Nat /\ Elsewhere # ""
  BY AmountType, SettlementAssumption DEF SInv, TypeOK
<1>4. /\ rep.state \notin {"NONE", "REJECTED", "SUBMITTED", "ACCEPTED", "PARTIAL"}
      /\ rep.to = "" \/ cur.destination = "" \/ rep.to = cur.destination
      /\ rep.amount = Amount(cur) /\ rep.nonce = cur.nonce
  BY DEF Code
<1>5. CASE dep.injected
  <2>1. PICK full \in BOOLEAN : rep = ReceiptReport(world[i], full)
    BY <1>1, <1>5, VenueIsInjected DEF Reports
  <2>2. /\ rep.state = world[i].status
        /\ rep.amount \in {world[i].amount, 0}
    BY <2>1 DEF ReceiptReport, NoReport
  <2>3. world[i].status = "SETTLED"
    BY <1>2, <1>4, <2>2 DEF Sent
  <2>4. world[i].real /\ world[i].nonce = cur.nonce /\ world[i].to = cur.destination
    BY <1>1, <1>2, <1>5 DEF Truthful
  <2>5. world[i].amount = Amount(cur)
    <3>1. world[i].amount <= Amount(cur) /\ world[i].amount \in Nat
      BY <1>1, <1>2 DEF Truthful, Sent
    <3>2. CASE rep.amount = 0
      <4>1. Amount(cur) = 0
        BY <1>4, <3>2
      <4> QED
        BY <3>1, <4>1
    <3>3. CASE rep.amount = world[i].amount
      BY <1>4, <3>3
    <3> QED
      BY <2>2, <3>2, <3>3
  <2> QED
    BY <1>1, <2>3, <2>4, <2>5
<1>6. CASE ~dep.injected
  <2>1. rep = [state |-> world[i].status, to |-> world[i].to,
               amount |-> world[i].amount, nonce |-> world[i].nonce]
    BY <1>1, <1>6, VenueIsInjected DEF Reports
  <2>2. world[i].status = "SETTLED"
    BY <1>2, <1>4, <2>1 DEF Sent
  <2>3. cur.destination # "" => world[i].to = cur.destination
    BY <1>1, <1>2, <1>3, <1>4, <2>1 DEF Truthful
  <2> QED
    BY <1>1, <1>4, <2>1, <2>2, <2>3
<1> QED
  BY <1>5, <1>6

LEMMA CodeType == ASSUME NEW a, NEW rep PROVE Code(a, rep) \in Codes
BY DEF Code, Codes

LEMMA ReconcileKeeps ==
    ASSUME SInv, Reconcile
    PROVE  SInv'
<1>1. PICK rep \in Reports :
            ledger' = Append(ledger, [event |-> "v2_pipeline", action |-> cur,
                                      code |-> Code(cur, rep)])
  BY DEF Reconcile
<1>2. /\ pc = "query" /\ cur \in Actions /\ Return
      /\ UNCHANGED <<dep, claimed, world, raised>>
  BY DEF Reconcile, SInv, TypeOK
<1>3. Code(cur, rep) \in Codes
  BY CodeType
<1> DEFINE r == [event |-> "v2_pipeline", action |-> cur, code |-> Code(cur, rep)]
<1>4. r \in Record /\ r.action = cur /\ r.code = Code(cur, rep)
  BY <1>2, <1>3 DEF Record
<1>5. ledger' = Append(ledger, r)
  BY <1>1
<1> HIDE DEF r
<1>6. LedgerInv'
  BY <1>2, <1>4, <1>5, MatchIsEarned, RecordAdded
<1>7. WorldInv'
  BY <1>2, WorldKept
<1> QED
  BY <1>2, <1>6, <1>7, EndKeeps

-----------------------------------------------------------------------------

LEMMA SInvInit == Init => SInv
<1> SUFFICES ASSUME Init PROVE SInv
  OBVIOUS
<1>1. TypeOK
  BY DEF Init, TypeOK
<1>2. WorldInv /\ LedgerInv
  BY DEF Init, WorldInv, SentOnce, LedgerInv, BroadcastIsRecorded, MatchIsReal
<1>3. RegistryInv /\ HandlerInv
  BY DEF Init, RegistryInv, HandlerInv
<1> QED
  BY <1>1, <1>2, <1>3 DEF SInv

LEMMA SInvStep == SInv /\ [Next]_vars => SInv'
<1> SUFFICES ASSUME SInv, [Next]_vars PROVE SInv'
  OBVIOUS
<1>1. ASSUME NEW a \in Actions, Refuse(a) \/ Register(a) PROVE SInv'
  BY <1>1, RefuseKeeps, RegisterKeeps
<1>2. CASE Sign
  BY <1>2, SignKeeps
<1>3. CASE SubmitSimulated \/ SubmitL2
  BY <1>3, SubmitSimulatedKeeps, SubmitL2Keeps
<1>4. CASE SubmitL2Nowhere \/ QueryFails
  BY <1>4, FailureKeeps
<1>5. CASE Mine
  BY <1>5, MineKeeps
<1>6. CASE Reconcile
  BY <1>6, ReconcileKeeps
<1>7. CASE UNCHANGED vars
  <2>1. UNCHANGED <<dep, claimed, pc, cur, ledger, world, raised>>
    BY <1>7 DEF vars
  <2>2. WorldInv' /\ RegistryInv'
    BY <2>1, WorldKept, RegistryKept
  <2>3. TypeOK' /\ HandlerInv'
    BY <2>1 DEF SInv, TypeOK, HandlerInv
  <2>4. LedgerInv'
    BY <2>1 DEF SInv, LedgerInv, BroadcastIsRecorded, MatchIsReal
  <2> QED
    BY <2>2, <2>3, <2>4 DEF SInv
<1> QED
  BY <1>1, <1>2, <1>3, <1>4, <1>5, <1>6, <1>7 DEF Next

LEMMA SInvHolds == Spec => []SInv
BY SInvInit, SInvStep, PTL DEF Spec

(* An action, and a nonce, goes out to the venue at most once, whatever    *)
(* the node answers and however often the caller asks again.               *)
THEOREM NothingIsSentTwice == Spec => []SentOnce
<1>1. SInv => SentOnce
  BY DEF SInv, WorldInv
<1> QED
  BY <1>1, SInvHolds, PTL

(* What is on the chain is in the signed ledger, with either venue and     *)
(* after any failure of an RPC.                                            *)
THEOREM BroadcastsAreRecorded == Spec => []BroadcastIsRecorded
<1>1. SInv => BroadcastIsRecorded
  BY DEF SInv, LedgerInv
<1> QED
  BY <1>1, SInvHolds, PTL

(* reconcile writes MATCH only for what has settled as authorized, for     *)
(* every mode of the simulator and every receipt a node may give.          *)
THEOREM MatchesAreReal == Spec => []MatchIsReal
<1>1. SInv => MatchIsReal
  BY DEF SInv, LedgerInv
<1> QED
  BY <1>1, SInvHolds, PTL

(* The limits of the environment bound what a venue is paid for a priced   *)
(* action, for every set of limits that loads.                             *)
THEOREM PaymentsAreCapped == Spec => []CapsHold
<1>1. SInv => CapsHold
  <2> SUFFICES ASSUME SInv, NEW i \in DOMAIN world, world[i].action.price # 0,
                      NEW c \in Caps(world[i].action) \ {None}
               PROVE  world[i].amount <= c
    BY DEF CapsHold, Caps
  <2>1. /\ world[i].action \in claimed /\ world[i].action \in Actions
        /\ world[i].amount <= Amount(world[i].action) /\ world[i].amount \in Nat
    BY WorldTypes DEF SInv, TypeOK, WorldInv, Truthful
  <2>2. c \in Nat /\ Amount(world[i].action) <= c
    BY <2>1 DEF SInv, RegistryInv, Capped
  <2> QED
    BY <2>1, <2>2, AmountType
<1> QED
  BY <1>1, SInvHolds, PTL

-----------------------------------------------------------------------------
(* What the operator can account for. *)

(* What was sent for the action is answered for: its request ended in an   *)
(* error, or its outcome is in the ledger, or is about to be.              *)
Recorded(records, a) == \E j \in Outcomes(records) : records[j].action = a

Known(a) == a \in raised \/ Recorded(ledger, a) \/ (pc = "query" /\ cur = a)

AccountInv == \A i \in DOMAIN world : Known(world[i].action)

LEMMA RecordedStays ==
    ASSUME NEW a, Recorded(ledger, a),
           \A j \in DOMAIN ledger : j \in DOMAIN ledger' /\ ledger'[j] = ledger[j]
    PROVE  Recorded(ledger', a)
BY DEF Recorded, Outcomes

(* An action stays known while nothing is taken from the ledger, and the   *)
(* request at the venue goes on or ends with something to show for it.     *)
LEMMA KnownStays ==
    ASSUME NEW a, Known(a), raised \subseteq raised',
           \A j \in DOMAIN ledger : j \in DOMAIN ledger' /\ ledger'[j] = ledger[j],
           pc = "query" => \/ pc' = "query" /\ cur' = cur
                           \/ cur \in raised'
                           \/ Recorded(ledger', cur)
    PROVE  Known(a)'
<1>1. CASE a \in raised
  BY <1>1 DEF Known
<1>2. CASE Recorded(ledger, a)
  BY <1>2, RecordedStays DEF Known
<1>3. CASE pc = "query" /\ cur = a
  BY <1>3 DEF Known
<1> QED
  BY <1>1, <1>2, <1>3 DEF Known

(* The request that has sent something is at the venue or ends in an       *)
(* error.                                                                  *)
LEMMA SendIsKnown ==
    ASSUME SInv, AccountInv, pc = "submit", NEW x \in Sent, x.action = cur,
           world' = Append(world, x), UNCHANGED ledger,
           (pc' = "query" /\ UNCHANGED <<cur, raised>>) \/ Raise
    PROVE  AccountInv'
<1>1. world \in Seq(Sent)
  BY DEF SInv, WorldInv
<1>2. \A i \in DOMAIN world' : world'[i] = x \/ (i \in DOMAIN world /\ world'[i] = world[i])
  BY <1>1
<1>3. raised \subseteq raised'
      /\ \A a : a = cur => (a \in raised' \/ (pc' = "query" /\ cur' = a))
  BY DEF Raise
<1>4. \A a : Known(a) => Known(a)'
  BY <1>3, KnownStays
<1>5. \A a : a = cur => Known(a)'
  BY <1>3 DEF Known
<1>6. \A i \in DOMAIN world' : \E a : a = world'[i].action /\ (a = cur \/ Known(a))
  BY <1>2 DEF AccountInv
<1> QED
  BY <1>4, <1>5, <1>6 DEF AccountInv, Known

LEMMA AccountInvStep == SInv /\ AccountInv /\ [Next]_vars => AccountInv'
<1> SUFFICES ASSUME SInv, AccountInv, [Next]_vars PROVE AccountInv'
  OBVIOUS
<1>l. ledger \in Seq(Record)
  BY DEF SInv, LedgerInv
(* Nothing is sent, and the request at the venue, if there is one, is      *)
(* still there or has left something to show.                              *)
<1>k. ASSUME UNCHANGED world, raised \subseteq raised',
             \A j \in DOMAIN ledger : j \in DOMAIN ledger' /\ ledger'[j] = ledger[j],
             pc = "query" => \/ pc' = "query" /\ cur' = cur
                             \/ cur \in raised'
                             \/ Recorded(ledger', cur)
      PROVE  AccountInv'
  <2>1. \A a : Known(a) => Known(a)'
    BY <1>k, KnownStays
  <2> QED
    BY <1>k, <2>1 DEF AccountInv
<1>1. ASSUME NEW a \in Actions, Refuse(a) \/ Register(a) PROVE AccountInv'
  <2>1. pc = "idle" /\ UNCHANGED <<world, raised, ledger>>
    BY <1>1 DEF Refuse, Register, Receive
  <2> QED
    BY <1>k, <2>1
<1>2. CASE Sign
  <2>1. /\ pc = "sign" /\ UNCHANGED world /\ raised \subseteq raised'
        /\ \/ ledger' = ledger
           \/ ledger' = Append(ledger, [event |-> "live_sign", action |-> cur, code |-> None])
    BY <1>2 DEF Sign, Raise
  <2>2. \A j \in DOMAIN ledger : j \in DOMAIN ledger' /\ ledger'[j] = ledger[j]
    <3>1. cur \in Actions
      BY <2>1 DEF SInv, TypeOK
    <3>2. [event |-> "live_sign", action |-> cur, code |-> None] \in Record
      BY <3>1 DEF Record
    <3> QED
      BY <1>l, <2>1, <3>2, LedgerAppended
  <2> QED
    BY <1>k, <2>1, <2>2
<1>3. CASE SubmitSimulated
  <2>1. /\ pc = "submit" /\ cur \in Actions /\ dep \in Deployments /\ ~dep.injected
        /\ pc' = "query" /\ UNCHANGED <<cur, ledger, raised>>
    BY <1>3, VenueIsInjected DEF SubmitSimulated, SInv, TypeOK
  <2>2. PICK x \in Sent : x.action = cur /\ world' = Append(world, x)
    BY <1>3, SimulatedSends
  <2> QED
    BY <2>1, <2>2, SendIsKnown
<1>4. CASE SubmitL2
  <2>1. /\ pc = "submit" /\ cur \in Actions /\ dep \in Deployments /\ dep.injected
    BY <1>4, VenueIsInjected DEF SubmitL2, SInv, TypeOK
  <2>2. RawTx(cur) \in Sent /\ RawTx(cur).action = cur
    BY <2>1, RawTxIsSent
  <2>3. \/ /\ world' = Append(world, RawTx(cur)) /\ UNCHANGED ledger
           /\ (pc' = "query" /\ UNCHANGED <<cur, raised>>) \/ Raise
        \/ UNCHANGED world /\ Raise
    BY <1>4 DEF SubmitL2, Raise
  <2>4. CASE UNCHANGED world /\ Raise
    BY <1>k, <2>1, <2>4 DEF Raise
  <2> QED
    BY <2>1, <2>2, <2>3, <2>4, SendIsKnown
<1>5. CASE SubmitL2Nowhere \/ QueryFails
  <2>1. UNCHANGED <<world, ledger>> /\ raised' = raised \cup {cur}
    BY <1>5 DEF SubmitL2Nowhere, QueryFails, Raise
  <2> QED
    BY <1>k, <2>1
<1>6. CASE Mine
  <2>1. PICK i \in DOMAIN world, status \in {"SETTLED", "REJECTED"} :
              /\ world' = [world EXCEPT ![i].status = status]
              /\ UNCHANGED <<pc, cur, ledger, raised>>
    BY <1>6 DEF Mine
  <2>2. world \in Seq(Sent)
    BY DEF SInv, WorldInv
  <2>3. DOMAIN world' = DOMAIN world
        /\ \A j \in DOMAIN world : world'[j].action = world[j].action
    BY <2>1, <2>2 DEF Sent
  <2> QED
    BY <2>1, <2>3 DEF AccountInv, Known
<1>7. CASE Reconcile
  <2>1. PICK rep \in Reports :
              ledger' = Append(ledger, [event |-> "v2_pipeline", action |-> cur,
                                        code |-> Code(cur, rep)])
    BY <1>7 DEF Reconcile
  <2> DEFINE r == [event |-> "v2_pipeline", action |-> cur, code |-> Code(cur, rep)]
  <2>2. cur \in Actions /\ Code(cur, rep) \in Codes /\ Code(cur, rep) # None
        /\ UNCHANGED <<world, raised>>
    <3>1. pc = "query" /\ UNCHANGED <<world, raised>>
      BY <1>7 DEF Reconcile
    <3>2. cur \in Actions
      BY <3>1 DEF SInv, TypeOK
    <3>3. Code(cur, rep) \in Codes /\ None \notin Codes
      BY CodeType, SettlementAssumption
    <3> QED
      BY <3>1, <3>2, <3>3
  <2>3. r \in Record /\ r.event = "v2_pipeline" /\ r.action = cur /\ r.code # None
    BY <2>2 DEF Record
  <2>4. ledger' = Append(ledger, r)
    BY <2>1
  <2> HIDE DEF r
  <2>5. /\ \A j \in DOMAIN ledger : j \in DOMAIN ledger' /\ ledger'[j] = ledger[j]
        /\ Len(ledger) + 1 \in DOMAIN ledger' /\ ledger'[Len(ledger) + 1] = r
    BY <1>l, <2>3, <2>4, LedgerAppended
  <2>6. Recorded(ledger', cur)
    BY <2>3, <2>5 DEF Recorded, Outcomes
  <2> QED
    BY <1>k, <2>2, <2>5, <2>6
<1>8. CASE UNCHANGED vars
  BY <1>8, <1>k DEF vars
<1> QED
  BY <1>1, <1>2, <1>3, <1>4, <1>5, <1>6, <1>7, <1>8 DEF Next

LEMMA AccountInvHolds == Spec => []AccountInv
<1>1. Init => AccountInv
  BY DEF Init, AccountInv
<1> QED
  BY <1>1, AccountInvStep, SInvHolds, PTL DEF Spec

(* The summary adds up. *)
LEMMA SummaryAddsUp ==
    ASSUME ledger \in Seq(Record)
    PROVE  /\ Summary.total = Summary.matched + Cardinality(Summary.divergences)
           /\ Summary.allMatched => \A j \in Outcomes(ledger) : ledger[j].code = "MATCH"
<1> DEFINE outcomes == Outcomes(ledger)
           matched == {j \in outcomes : ledger[j].code = "MATCH"}
           rest == {j \in outcomes : ledger[j].code # "MATCH"}
<1>1. IsFiniteSet(DOMAIN ledger)
  <2>1. DOMAIN ledger = 1 .. Len(ledger) /\ Len(ledger) \in Nat
    OBVIOUS
  <2> QED
    BY <2>1, FS_Interval
<1>2. IsFiniteSet(outcomes)
  BY <1>1, FS_Subset DEF Outcomes
<1>3. IsFiniteSet(matched) /\ (Cardinality(matched) = Cardinality(outcomes) => matched = outcomes)
  BY <1>2, FS_Subset
<1>4. rest = outcomes \ matched /\ outcomes \cap matched = matched
  OBVIOUS
<1>5. Cardinality(outcomes \ matched) = Cardinality(outcomes) - Cardinality(outcomes \cap matched)
  BY <1>2, FS_Difference
<1>6. Cardinality(outcomes) \in Nat /\ Cardinality(matched) \in Nat
  BY <1>2, <1>3, FS_CardinalityType
<1>7. Summary = [total |-> Cardinality(outcomes), matched |-> Cardinality(matched),
                 divergences |-> rest,
                 allMatched |-> outcomes # {} /\ Cardinality(matched) = Cardinality(outcomes)]
  BY DEF Summary
<1> HIDE DEF outcomes, matched, rest
<1>8. Cardinality(outcomes) = Cardinality(matched) + Cardinality(rest)
  <2>1. Cardinality(rest) = Cardinality(outcomes) - Cardinality(matched)
    BY <1>4, <1>5
  <2> QED
    BY <1>6, <2>1
<1>9. Summary.allMatched => matched = outcomes
  BY <1>3, <1>7
<1> QED
  BY <1>7, <1>8, <1>9 DEF matched, outcomes

(* Between requests everything that went out has its outcome in the ledger *)
(* or its error with the caller, and the operator's summary neither loses  *)
(* a record nor claims a match for what has not settled.                   *)
THEOREM EverythingIsAccounted == Spec => []Accounted
<1>1. SInv /\ AccountInv => Accounted
  <2> SUFFICES ASSUME SInv, AccountInv PROVE Accounted
    OBVIOUS
  <2>1. TypeOK /\ ledger \in Seq(Record) /\ MatchIsReal /\ SentOnce
    BY DEF SInv, LedgerInv, WorldInv
  <2>2. ASSUME pc = "idle", NEW i \in DOMAIN world
        PROVE  \/ world[i].action \in raised
               \/ \E j \in Outcomes(ledger) : ledger[j].action = world[i].action
    BY <2>2 DEF AccountInv, Known, Recorded
  <2>3. ASSUME pc = "idle", Summary.allMatched, NEW i \in DOMAIN world,
               world[i].action \notin raised
        PROVE  world[i].status = "SETTLED"
    <3>1. PICK j \in Outcomes(ledger) : ledger[j].action = world[i].action
      BY <2>2, <2>3
    <3>2. j \in DOMAIN ledger /\ ledger[j].code = "MATCH"
      BY <2>1, <2>3, SummaryAddsUp DEF Outcomes
    <3>3. PICK k \in DOMAIN world : world[k].action = ledger[j].action
                                    /\ world[k].status = "SETTLED"
      BY <2>1, <3>2 DEF MatchIsReal
    <3>4. k = i
      BY <2>1, <3>1, <3>3 DEF SentOnce
    <3> QED
      BY <3>3, <3>4
  <2>4. Summary.total = Summary.matched + Cardinality(Summary.divergences)
    BY <2>1, SummaryAddsUp
  <2> QED
    BY <2>1, <2>2, <2>3, <2>4 DEF Accounted
<1> QED
  BY <1>1, SInvHolds, AccountInvHolds, PTL

-----------------------------------------------------------------------------
(* The corroborated price: order statistics of finitely many quotes. *)

LEMMA LeastNatural ==
    ASSUME NEW T, T \subseteq Nat, T # {}
    PROVE  \E x \in T : \A y \in T : x <= y
<1>1. \E R : IsWellFoundedOn(R, Nat) /\ \A x, y \in Nat : <<y, x>> \in R <=> y < x
  <2>1. \A x, y \in Nat : <<y, x>> \in OpToRel(<, Nat) <=> y < x
    BY DEF OpToRel
  <2> QED
    BY <2>1, NatLessThanWellFounded, Zenon
<1>2. PICK R : IsWellFoundedOn(R, Nat) /\ \A x, y \in Nat : <<y, x>> \in R <=> y < x
  BY <1>1
<1>3. PICK x \in T : \A y \in T : ~ (<<y, x>> \in R)
  BY <1>2, WFMin
<1>4. \A y \in T : ~ (y < x)
  <2> TAKE y \in T
  <2>1. x \in Nat /\ y \in Nat
    OBVIOUS
  <2> QED
    BY <1>2, <1>3, <2>1, Zenon
<1>5. \A y \in T : x <= y
  BY <1>4
<1> QED
  BY <1>5

(* Finitely many quotes have an upper bound: the one that leaves fewest    *)
(* quotes above it leaves none.                                            *)
LEMMA QuotesBounded ==
    ASSUME NEW S, IsFiniteSet(S), NEW f \in [S -> Nat]
    PROVE  \E n \in Nat : \A s \in S : f[s] <= n
<1> DEFINE Beyond(n) == {s \in S : f[s] > n}
           T == {Cardinality(Beyond(n)) : n \in Nat}
<1>1. \A n \in Nat : IsFiniteSet(Beyond(n)) /\ Cardinality(Beyond(n)) \in Nat
  <2> TAKE n \in Nat
  <2>1. Beyond(n) \subseteq S
    OBVIOUS
  <2> HIDE DEF Beyond
  <2> QED
    BY <2>1, FS_Subset, FS_CardinalityType
<1>2. T \subseteq Nat /\ Cardinality(Beyond(0)) \in T
  BY <1>1
<1>3. PICK x \in T : \A y \in T : x <= y
  BY <1>2, LeastNatural
<1>4. PICK n \in Nat : x = Cardinality(Beyond(n))
  OBVIOUS
<1>5. ASSUME NEW u \in Beyond(n) PROVE FALSE
  <2>1. f[u] \in Nat /\ f[u] > n
    OBVIOUS
  <2>2. Beyond(f[u]) \subseteq Beyond(n) /\ u \notin Beyond(f[u])
    BY <2>1
  <2>3. Cardinality(Beyond(f[u])) \in T
    BY <2>1
  <2>4. /\ IsFiniteSet(Beyond(n)) /\ Cardinality(Beyond(n)) \in Nat
        /\ Cardinality(Beyond(f[u])) \in Nat
    BY <1>1, <2>1
  <2>5. u \in Beyond(n)
    BY <1>5
  <2> HIDE DEF Beyond, T
  <2>6. Cardinality(Beyond(f[u])) < Cardinality(Beyond(n))
    BY <2>2, <2>4, <2>5, FS_Subset
  <2>7. Cardinality(Beyond(n)) <= Cardinality(Beyond(f[u]))
    BY <1>3, <1>4, <2>3
  <2> QED
    BY <2>4, <2>6, <2>7
<1>6. \A s \in S : f[s] <= n
  BY <1>5
<1> QED
  BY <1>6

(* There is a value at each place of the sorted quotes, and Ranked is one. *)
LEMMA RankedExists ==
    ASSUME NEW S, IsFiniteSet(S), NEW f \in [S -> Nat], NEW k \in 1 .. Cardinality(S)
    PROVE  /\ Ranked(f, k) \in Nat
           /\ Cardinality({s \in S : f[s] < Ranked(f, k)}) < k
           /\ k <= Cardinality({s \in S : f[s] <= Ranked(f, k)})
<1> DEFINE Below(v) == {s \in S : f[s] < v}
           UpTo(v) == {s \in S : f[s] <= v}
           T == {v \in Nat : k <= Cardinality(UpTo(v))}
<1>1. \A v : /\ IsFiniteSet(Below(v)) /\ Cardinality(Below(v)) \in Nat
             /\ IsFiniteSet(UpTo(v)) /\ Cardinality(UpTo(v)) \in Nat
  <2> TAKE v
  <2>1. Below(v) \subseteq S /\ UpTo(v) \subseteq S
    OBVIOUS
  <2> HIDE DEF Below, UpTo
  <2> QED
    BY <2>1, FS_Subset, FS_CardinalityType
<1>2. Cardinality(S) \in Nat /\ k \in Nat /\ k >= 1 /\ k <= Cardinality(S)
  BY FS_CardinalityType
<1>3. T # {}
  <2>1. PICK n \in Nat : \A s \in S : f[s] <= n
    BY QuotesBounded
  <2>2. UpTo(n) = S
    BY <2>1
  <2>3. k <= Cardinality(UpTo(n))
    BY <1>2, <2>2
  <2> QED
    BY <2>3
<1>4. PICK v \in T : \A y \in T : v <= y
  <2>1. T \subseteq Nat
    OBVIOUS
  <2> QED
    BY <1>3, <2>1, LeastNatural
<1>5. v \in Nat /\ k <= Cardinality(UpTo(v))
  BY <1>4
<1>6. Cardinality(Below(v)) < k
  <2>1. CASE v = 0
    <3>1. Below(v) = {}
      BY <2>1
    <3> QED
      BY <1>2, <3>1, FS_EmptySet
  <2>2. CASE v # 0
    <3>1. v - 1 \in Nat /\ ~(v <= v - 1)
      BY <1>5, <2>2
    <3>2. v - 1 \notin T
      BY <1>4, <3>1
    <3>3. ~(k <= Cardinality(UpTo(v - 1)))
      BY <3>1, <3>2
    <3>4. UpTo(v - 1) = Below(v)
      BY <1>5
    <3>5. Cardinality(UpTo(v - 1)) \in Nat /\ Cardinality(UpTo(v - 1)) = Cardinality(Below(v))
      BY <1>1, <3>4
    <3> HIDE DEF UpTo, Below
    <3> QED
      BY <1>2, <3>3, <3>5
  <2> QED
    BY <2>1, <2>2
<1>7. v \in Range(f)
  <2>1. Below(v) # UpTo(v)
    BY <1>1, <1>2, <1>5, <1>6
  <2>2. PICK s \in S : f[s] <= v /\ ~(f[s] < v)
    BY <2>1
  <2>3. f[s] = v
    BY <1>5, <2>2
  <2> QED
    BY <2>3 DEF Range
<1> DEFINE P(w) == Cardinality(Below(w)) < k /\ k <= Cardinality(UpTo(w))
<1>8. P(v)
  BY <1>5, <1>6
<1>9. Ranked(f, k) = CHOOSE w \in Range(f) : P(w)
  BY DEF Ranked
<1> HIDE DEF P
<1>10. Ranked(f, k) \in Range(f) /\ P(Ranked(f, k))
  BY <1>7, <1>8, <1>9
<1>11. Range(f) \subseteq Nat
  BY DEF Range
<1> QED
  BY <1>10, <1>11 DEF P

(* A strict majority of the quotes keeps every place around the middle     *)
(* between its own bounds.                                                 *)
LEMMA RankedWithin ==
    ASSUME NEW S, IsFiniteSet(S), NEW f \in [S -> Nat], NEW k \in 1 .. Cardinality(S),
           NEW lo \in Nat, NEW hi \in Nat, NEW W, W = {s \in S : f[s] \in lo .. hi},
           k <= Cardinality(W), Cardinality(S) - Cardinality(W) < k
    PROVE  Ranked(f, k) \in Nat /\ lo <= Ranked(f, k) /\ Ranked(f, k) <= hi
<1> DEFINE v == Ranked(f, k)
           Below == {s \in S : f[s] < v}
           UpTo == {s \in S : f[s] <= v}
<1>1. v \in Nat /\ Cardinality(Below) < k /\ k <= Cardinality(UpTo)
  BY RankedExists
<1>2. Below \subseteq S /\ UpTo \subseteq S /\ W \subseteq S /\ S \ W \subseteq S
  OBVIOUS
<1>3. k \in Nat /\ f \in [S -> Nat]
  BY FS_CardinalityType
<1>w. W = {s \in S : f[s] \in lo .. hi}
  OBVIOUS
<1> HIDE DEF v
<1>4. ASSUME v < lo PROVE FALSE
  <2>1. UpTo \subseteq S \ W
    BY <1>1, <1>w, <1>4
  <2> HIDE DEF UpTo, Below
  <2>2. IsFiniteSet(S \ W) /\ Cardinality(S \ W) = Cardinality(S) - Cardinality(W)
    <3>1. S \cap W = W
      BY <1>2
    <3>2. /\ IsFiniteSet(S \ W)
          /\ Cardinality(S \ W) = Cardinality(S) - Cardinality(S \cap W)
      BY FS_Difference
    <3> QED
      BY <3>1, <3>2
  <2>3. Cardinality(UpTo) <= Cardinality(S \ W)
    BY <2>1, <2>2, FS_Subset
  <2>4. Cardinality(UpTo) \in Nat /\ Cardinality(S) \in Nat /\ Cardinality(W) \in Nat
    BY <1>2, FS_Subset, FS_CardinalityType
  <2> QED
    BY <1>1, <1>3, <2>2, <2>3, <2>4
<1>5. ASSUME v > hi PROVE FALSE
  <2>1. W \subseteq Below
    BY <1>1, <1>w, <1>5
  <2> HIDE DEF UpTo, Below
  <2>2. IsFiniteSet(Below)
    BY <1>2, FS_Subset
  <2>3. Cardinality(W) <= Cardinality(Below)
    BY <2>1, <2>2, FS_Subset
  <2>4. Cardinality(Below) \in Nat /\ Cardinality(W) \in Nat
    BY <1>2, FS_Subset, FS_CardinalityType
  <2> QED
    BY <1>1, <1>3, <2>3, <2>4
<1>6. v >= lo /\ v <= hi
  BY <1>1, <1>4, <1>5
<1> QED
  BY <1>1, <1>6 DEF v

LEMMA MiddlePlaces ==
    ASSUME NEW n \in Nat, n # 0, NEW mid, mid = n \div 2
    PROVE  /\ mid \in Nat /\ n \in {2 * mid, 2 * mid + 1} /\ (n % 2 = 1 <=> n = 2 * mid + 1)
           /\ mid + 1 \in 1 .. n /\ (n % 2 # 1 => mid \in 1 .. n)
OBVIOUS

LEMMA MedianType ==
    ASSUME NEW S, IsFiniteSet(S), S # {}, NEW f \in [S -> Nat]
    PROVE  Median(f) \in Nat
<1> DEFINE n == Cardinality(S)
           mid == n \div 2
<1>1. n \in Nat /\ n # 0 /\ DOMAIN f = S
  BY FS_CardinalityType, FS_EmptySet
<1>2. mid + 1 \in 1 .. n /\ (n % 2 # 1 => mid \in 1 .. n)
  BY <1>1, MiddlePlaces
<1>3. Ranked(f, mid + 1) \in Nat /\ (n % 2 # 1 => Ranked(f, mid) \in Nat)
  BY <1>2, RankedExists
<1>4. Median(f) = IF n % 2 = 1 THEN Ranked(f, mid + 1)
                  ELSE (Ranked(f, mid) + Ranked(f, mid + 1)) \div 2
  BY <1>1 DEF Median
<1> HIDE DEF n, mid
<1> QED
  BY <1>3, <1>4

(* _median stays between the bounds of any strict majority of the quotes. *)
LEMMA MedianWithin ==
    ASSUME NEW S, IsFiniteSet(S), S # {}, NEW f \in [S -> Nat],
           NEW lo \in Nat, NEW hi \in Nat, NEW W, W = {s \in S : f[s] \in lo .. hi},
           2 * Cardinality(W) > Cardinality(S)
    PROVE  Median(f) \in Nat /\ lo <= Median(f) /\ Median(f) <= hi
<1> DEFINE n == Cardinality(S)
           mid == n \div 2
           w == Cardinality(W)
<1>1. n \in Nat /\ n # 0 /\ DOMAIN f = S
  BY FS_CardinalityType, FS_EmptySet
<1>2. w \in Nat /\ 2 * w > n
  <2>1. W \subseteq S
    OBVIOUS
  <2> QED
    BY <2>1, FS_Subset, FS_CardinalityType
<1>3. /\ mid \in Nat /\ n \in {2 * mid, 2 * mid + 1} /\ (n % 2 = 1 <=> n = 2 * mid + 1)
      /\ mid + 1 \in 1 .. n /\ (n % 2 # 1 => mid \in 1 .. n)
  BY <1>1, MiddlePlaces
<1>4. Median(f) = IF n % 2 = 1 THEN Ranked(f, mid + 1)
                  ELSE (Ranked(f, mid) + Ranked(f, mid + 1)) \div 2
  BY <1>1 DEF Median
<1>w. W = {s \in S : f[s] \in lo .. hi}
  OBVIOUS
<1>a. n = Cardinality(S) /\ w = Cardinality(W)
  OBVIOUS
<1> HIDE DEF n, mid, w
<1>5. mid + 1 <= w /\ n - w < mid + 1
  BY <1>1, <1>2, <1>3
<1>6. Ranked(f, mid + 1) \in Nat /\ lo <= Ranked(f, mid + 1) /\ Ranked(f, mid + 1) <= hi
  BY <1>a, <1>w, <1>3, <1>5, RankedWithin
<1>7. CASE n % 2 = 1
  BY <1>4, <1>6, <1>7
<1>8. CASE n % 2 # 1
  <2>1. n = 2 * mid /\ mid \in 1 .. n
    BY <1>3, <1>8
  <2>2. mid <= w /\ n - w < mid
    BY <1>2, <1>3, <2>1
  <2>3. Ranked(f, mid) \in Nat /\ lo <= Ranked(f, mid) /\ Ranked(f, mid) <= hi
    BY <1>a, <1>w, <2>1, <2>2, RankedWithin
  <2>4. \A x, y \in Nat : lo <= x /\ x <= hi /\ lo <= y /\ y <= hi
            => (x + y) \div 2 \in Nat /\ lo <= (x + y) \div 2 /\ (x + y) \div 2 <= hi
    OBVIOUS
  <2> QED
    BY <1>4, <1>6, <1>8, <2>3, <2>4
<1> QED
  BY <1>7, <1>8

-----------------------------------------------------------------------------
(* The band around the median, and around a majority's bounds. *)

Under(price, mid, bps) == Basis * price < mid * (Basis - bps)

Above(price, mid, bps) == Basis * price > mid * (Basis + bps)

AtLeast(price, lo, bps) == Basis * price >= lo * (Basis - bps)

AtMost(price, hi, bps) == Basis * price <= hi * (Basis + bps)

LEMMA Scaled ==
    ASSUME NEW x \in Nat, NEW y \in Nat, NEW c \in Nat, x <= y
    PROVE  x * c \in Nat /\ y * c \in Nat /\ x * c <= y * c
<1>1. PICK d \in Nat : y = x + d
  <2>1. y - x \in Nat /\ y = x + (y - x)
    OBVIOUS
  <2> QED
    BY <2>1
<1>2. x * c \in Nat /\ d * c \in Nat
  OBVIOUS
<1>3. (x + d) * c = x * c + d * c
  OBVIOUS
<1> QED
  BY <1>1, <1>2, <1>3

LEMMA LowerBand ==
    ASSUME NEW lo \in Nat, NEW mid \in Nat, NEW p \in Nat, NEW bps \in Nat, lo <= mid,
           ~Under(p, mid, bps)
    PROVE  AtLeast(p, lo, bps)
<1> USE DEF Basis
<1>1. CASE bps <= Basis
  <2> DEFINE c == Basis - bps
  <2>1. c \in Nat
    BY <1>1
  <2> HIDE DEF c
  <2>2. lo * c \in Nat /\ mid * c \in Nat /\ lo * c <= mid * c
    BY <2>1, Scaled
  <2>3. Basis * p >= mid * c
    BY <2>2 DEF c, Under
  <2> QED
    BY <2>2, <2>3 DEF c, AtLeast
<1>2. CASE bps > Basis
  <2>1. PICK e \in Nat : Basis - bps = -e
    <3>1. bps - Basis \in Nat /\ Basis - bps = -(bps - Basis)
      BY <1>2
    <3> QED
      BY <3>1
  <2>2. lo * e \in Nat /\ lo * (-e) = -(lo * e)
    OBVIOUS
  <2> QED
    BY <2>1, <2>2 DEF AtLeast
<1> QED
  BY <1>1, <1>2

LEMMA UpperBand ==
    ASSUME NEW hi \in Nat, NEW mid \in Nat, NEW p \in Nat, NEW bps \in Nat, mid <= hi,
           ~Above(p, mid, bps)
    PROVE  AtMost(p, hi, bps)
<1> USE DEF Basis
<1> DEFINE c == Basis + bps
<1>1. c \in Nat
  OBVIOUS
<1> HIDE DEF c
<1>2. mid * c \in Nat /\ hi * c \in Nat /\ mid * c <= hi * c
  BY <1>1, Scaled
<1>3. Basis * p <= mid * c
  BY <1>2 DEF c, Above
<1> QED
  BY <1>2, <1>3 DEF c, AtMost

LEMMA ListIsFunction ==
    ASSUME NEW list \in Seq(Nat), list # <<>>
    PROVE  list \in [1 .. Len(list) -> Nat] /\ Len(list) \in Nat /\ 1 .. Len(list) # {}
<1>1. Len(list) \in Nat /\ DOMAIN list = 1 .. Len(list) /\ Len(list) # 0
  OBVIOUS
<1>2. 1 \in 1 .. Len(list)
  BY <1>1
<1> QED
  BY <1>1, <1>2

LEMMA QuotesType ==
    ASSUME NEW d \in Deployments, NEW i
    PROVE  /\ IsFiniteSet(DOMAIN Quotes(d.layer, i))
           /\ Quotes(d.layer, i) \in [DOMAIN Quotes(d.layer, i) -> Nat]
<1> DEFINE layer == d.layer
           named == {s \in DOMAIN layer.sources : i \in DOMAIN layer.sources[s]}
           anonymous == IF i \in DOMAIN layer.feeds /\ layer.feeds[i] # <<>>
                        THEN {"feed"} ELSE {}
           quotes == Quotes(layer, i)
<1>1. /\ IsFiniteSet(DOMAIN layer.sources)
      /\ \A s \in DOMAIN layer.sources : \A j \in DOMAIN layer.sources[s] :
            layer.sources[s][j] \in Nat
      /\ \A j \in DOMAIN layer.feeds : layer.feeds[j] \in Seq(Nat)
  BY LayerAssumption
<1>2. quotes = [s \in named \cup anonymous |->
                   IF s \in named THEN layer.sources[s][i] ELSE Median(layer.feeds[i])]
  BY DEF Quotes
<1>3. IsFiniteSet(named \cup anonymous)
  <2>1. IsFiniteSet(named)
    BY <1>1, FS_Subset
  <2>2. IsFiniteSet(anonymous)
    BY FS_EmptySet, FS_Singleton
  <2> HIDE DEF named, anonymous
  <2> QED
    BY <2>1, <2>2, FS_Union
<1>4. \A s \in named : layer.sources[s][i] \in Nat
  BY <1>1
<1>5. anonymous # {} => Median(layer.feeds[i]) \in Nat
  <2> SUFFICES ASSUME anonymous # {} PROVE Median(layer.feeds[i]) \in Nat
    OBVIOUS
  <2>1. layer.feeds[i] \in Seq(Nat) /\ layer.feeds[i] # <<>>
    BY <1>1
  <2>2. /\ layer.feeds[i] \in [1 .. Len(layer.feeds[i]) -> Nat]
        /\ Len(layer.feeds[i]) \in Nat /\ 1 .. Len(layer.feeds[i]) # {}
    BY <2>1, ListIsFunction
  <2>3. IsFiniteSet(1 .. Len(layer.feeds[i]))
    BY <2>2, FS_Interval
  <2> QED
    BY <2>2, <2>3, MedianType
<1> HIDE DEF named, anonymous, quotes
<1>6. DOMAIN quotes = named \cup anonymous
  BY <1>2
<1>7. \A s \in named \cup anonymous : quotes[s] \in Nat
  BY <1>2, <1>4, <1>5
<1>8. quotes \in [DOMAIN quotes -> Nat]
  BY <1>2, <1>6, <1>7
<1> QED
  BY <1>3, <1>6, <1>8 DEF quotes

(* What the corroboration layer has seen of an action it let through. *)
Corroborated(d, a) ==
    LET quotes == Quotes(d.layer, a.instrument)
    IN  d.layer.enabled =>
           /\ DOMAIN quotes # {} /\ Cardinality(DOMAIN quotes) >= d.layer.quorum
           /\ ~Under(a.price, Median(quotes), d.layer.bps)
           /\ ~Above(a.price, Median(quotes), d.layer.bps)

LEMMA SoundIsCorroborated ==
    ASSUME NEW a \in Actions, dep \in Deployments, EconomicallySound(a)
    PROVE  Corroborated(dep, a)
<1> SUFFICES ASSUME dep.layer.enabled PROVE Corroborated(dep, a)
  BY DEF Corroborated
<1>1. Failing(PriceViolation(a, dep.layer)) = {}
  BY DEF EconomicallySound, HygieneViolations
<1> DEFINE quotes == Quotes(dep.layer, a.instrument)
           under == Under(a.price, Median(quotes), dep.layer.bps)
           above == Above(a.price, Median(quotes), dep.layer.bps)
           few == DOMAIN quotes = {} \/ Cardinality(DOMAIN quotes) < dep.layer.quorum
           out == /\ DOMAIN quotes # {} /\ Cardinality(DOMAIN quotes) >= dep.layer.quorum
                  /\ under \/ above
<1>2. PriceViolation(a, dep.layer) = [price_unverifiable |-> few, price_out_of_band |-> out]
  BY DEF PriceViolation, Under, Above
<1>3. ~few /\ ~out
  <2> HIDE DEF few, out
  <2> QED
    BY <1>1, <1>2 DEF Failing
<1>4. dep.layer.quorum \in Nat /\ Cardinality(DOMAIN quotes) \in Nat
  BY LayerAssumption, QuotesType, FS_CardinalityType
<1>5. DOMAIN quotes # {} /\ ~(Cardinality(DOMAIN quotes) < dep.layer.quorum)
  BY <1>3, Zenon
<1>6. Cardinality(DOMAIN quotes) >= dep.layer.quorum
  <2> HIDE DEF quotes
  <2> QED
    BY <1>4, <1>5
<1>7. ~under /\ ~above
  BY <1>3, <1>5, <1>6, Zenon
<1> QED
  BY <1>5, <1>6, <1>7 DEF Corroborated

(* A corroborated price is within the band of any majority's bounds. *)
LEMMA MajorityBounds ==
    ASSUME NEW a \in Actions, NEW d \in Deployments, Corroborated(d, a), d.layer.enabled,
           NEW quotes, quotes = Quotes(d.layer, a.instrument),
           NEW s \in DOMAIN quotes, NEW t \in DOMAIN quotes,
           NEW W, W = {r \in DOMAIN quotes : quotes[r] \in quotes[s] .. quotes[t]},
           2 * Cardinality(W) > Cardinality(DOMAIN quotes)
    PROVE  AtLeast(a.price, quotes[s], d.layer.bps) /\ AtMost(a.price, quotes[t], d.layer.bps)
<1>1. IsFiniteSet(DOMAIN quotes) /\ quotes \in [DOMAIN quotes -> Nat]
  BY QuotesType
<1>2. quotes[s] \in Nat /\ quotes[t] \in Nat
  BY <1>1
<1>3. a.price \in Nat /\ d.layer.bps \in Nat
  BY SettlementAssumption, LayerAssumption DEF Action
<1>4. /\ ~Under(a.price, Median(quotes), d.layer.bps)
      /\ ~Above(a.price, Median(quotes), d.layer.bps)
  BY DEF Corroborated
<1>5. /\ Median(quotes) \in Nat
      /\ quotes[s] <= Median(quotes) /\ Median(quotes) <= quotes[t]
  BY <1>1, <1>2, MedianWithin
<1>6. AtLeast(a.price, quotes[s], d.layer.bps)
  BY <1>2, <1>3, <1>4, <1>5, LowerBand
<1>7. AtMost(a.price, quotes[t], d.layer.bps)
  BY <1>2, <1>3, <1>4, <1>5, UpperBand
<1> QED
  BY <1>6, <1>7

(* The registry holds corroborated actions only; neither the deployment    *)
(* nor what was registered changes.                                        *)
PriceInv == \A a \in claimed : Corroborated(dep, a)

LEMMA PriceInvStep == TypeOK /\ PriceInv /\ [Next]_vars => PriceInv'
<1> SUFFICES ASSUME TypeOK, PriceInv, [Next]_vars PROVE PriceInv'
  OBVIOUS
<1>1. ASSUME NEW a \in Actions, Register(a) PROVE PriceInv'
  <2>1. EconomicallySound(a) /\ claimed' = claimed \cup {a} /\ dep' = dep
    BY <1>1 DEF Register, Receive
  <2>2. Corroborated(dep, a)
    BY <2>1, SoundIsCorroborated DEF TypeOK
  <2> QED
    BY <2>1, <2>2 DEF PriceInv
<1>2. CASE UNCHANGED <<dep, claimed>>
  BY <1>2 DEF PriceInv
<1>3. ASSUME NEW a \in Actions, Refuse(a) PROVE UNCHANGED <<dep, claimed>>
  BY <1>3 DEF Refuse, Receive
<1>4. CASE Sign \/ SubmitSimulated \/ SubmitL2 \/ SubmitL2Nowhere \/ QueryFails
  BY <1>2, <1>4 DEF Sign, SubmitSimulated, SubmitL2, SubmitL2Nowhere, QueryFails
<1>5. CASE Mine \/ Reconcile \/ UNCHANGED vars
  BY <1>2, <1>5 DEF Mine, Reconcile, vars
<1> QED
  BY <1>1, <1>2, <1>3, <1>4, <1>5 DEF Next

(* Whatever the bounds of a strict majority of the sources, nothing goes   *)
(* out at a price beyond the band around them: for any number of sources,  *)
(* any band, and with the anonymous feed's own median among the quotes.    *)
THEOREM MinorityIsOutvoted == Spec => []MinorityCannotMovePrice
<1>1. Init => PriceInv
  BY DEF Init, PriceInv
<1>2. SInv => TypeOK
  BY DEF SInv
<1>3. SInv /\ PriceInv => MinorityCannotMovePrice
  <2> SUFFICES ASSUME SInv, PriceInv, NEW i \in DOMAIN world, dep.layer.enabled
               PROVE  LET a == world[i].action
                          quotes == Quotes(dep.layer, a.instrument)
                          Within(lo, hi) == {s \in DOMAIN quotes : quotes[s] \in lo .. hi}
                      IN  /\ Cardinality(DOMAIN quotes) >= dep.layer.quorum
                          /\ DOMAIN quotes # {}
                          /\ \A s, t \in DOMAIN quotes :
                                2 * Cardinality(Within(quotes[s], quotes[t]))
                                > Cardinality(DOMAIN quotes)
                                => /\ Basis * a.price >= quotes[s] * (Basis - dep.layer.bps)
                                   /\ Basis * a.price <= quotes[t] * (Basis + dep.layer.bps)
    BY Zenon DEF MinorityCannotMovePrice
  <2> DEFINE a == world[i].action
             quotes == Quotes(dep.layer, a.instrument)
             Within(lo, hi) == {s \in DOMAIN quotes : quotes[s] \in lo .. hi}
  <2>1. a \in Actions /\ dep \in Deployments /\ Corroborated(dep, a)
    BY DEF SInv, TypeOK, PriceInv
  <2>2. Cardinality(DOMAIN quotes) >= dep.layer.quorum /\ DOMAIN quotes # {}
    BY <2>1 DEF Corroborated
  <2>3. ASSUME NEW s \in DOMAIN quotes, NEW t \in DOMAIN quotes,
               2 * Cardinality(Within(quotes[s], quotes[t])) > Cardinality(DOMAIN quotes)
        PROVE  /\ Basis * a.price >= quotes[s] * (Basis - dep.layer.bps)
               /\ Basis * a.price <= quotes[t] * (Basis + dep.layer.bps)
    <3>1. AtLeast(a.price, quotes[s], dep.layer.bps) /\ AtMost(a.price, quotes[t], dep.layer.bps)
      <4> HIDE DEF a
      <4> QED
        BY <2>1, <2>3, MajorityBounds
    <3> QED
      BY <3>1, Zenon DEF AtLeast, AtMost
  <2> QED
    BY <2>2, <2>3, Zenon
<1> QED
  BY <1>1, <1>2, <1>3, PriceInvStep, SInvHolds, PTL DEF Spec
=============================================================================
