--------------------------- MODULE PipelineProofs ---------------------------
(***************************************************************************)
(* Safety of AuthorizationPipeline for every value of its constants: types *)
(* are kept, an action is executed at most once, no halt slips in before   *)
(* the venue, nonces keep their owner, the gateway implements ExecuteOnce, *)
(* what is granted passed every layer, and live signatures keep to their   *)
(* rate.                                                                   *)
(***************************************************************************)
EXTENDS AuthorizationPipeline, SequenceTheorems, FiniteSetTheorems, TLAPS

-----------------------------------------------------------------------------
(* Type correctness. *)

(* The parts of the request on the loop have their types. *)
LEMMA RequestType ==
    ASSUME TypeOK, pc # "idle"
    PROVE  /\ req \in Requests
           /\ T \in Tenants /\ B \in Body /\ A \in Actions
           /\ Hash \in Hashes /\ Id \in ActionIds
           /\ Attr[A] \in ActionAttr /\ Attr[A].nonce \in Nonces
           /\ Attr[A].nonce \in Nat /\ Attr[A].expiry \in Nat
           /\ req.cmd = NoRecord \/ req.cmd \in Command(Body)
<1>1. req \in Requests
  BY DEF TypeOK
<1>2. /\ T \in Tenants /\ B \in Body
      /\ req.cmd = NoRecord \/ req.cmd \in Command(Body)
  BY <1>1, PipelineAssumption DEF T, B
<1>3. A \in Actions
  BY <1>2 DEF A, Body
<1>4. Attr[A] \in ActionAttr
  BY <1>3, RegistryAssumption
<1>5. Hash \in Hashes /\ Id \in ActionIds /\ Attr[A].nonce \in Nonces
  BY <1>2, <1>3 DEF Hash, Hashes, Id, ActionIds, Nonces
<1>6. Attr[A].nonce \in Nat /\ Attr[A].expiry \in Nat
  BY <1>4 DEF ActionAttr
<1> QED
  BY <1>1, <1>2, <1>3, <1>4, <1>5, <1>6

(* The monotonic clock is a natural number. *)
LEMMA MonoNowNat ==
    ASSUME TypeOK
    PROVE  MonoNow \in Nat
<1>1. clock - bootAt \in Nat
  <2>1. clock \in Nat /\ bootAt \in Nat /\ bootAt <= clock
    BY DEF TypeOK
  <2> QED
    BY <2>1
<1>3. UnitsPerSecond \in Nat
  BY PipelineAssumption
<1>2. \A m, n \in Nat : m * n \in Nat
  OBVIOUS
<1> QED
  BY <1>1, <1>2, <1>3 DEF MonoNow

(* One more event keeps a trace a sequence of events. *)
LEMMA LinkType ==
    ASSUME NEW trace \in Seq(Event), NEW prev \in Nat, NEW state \in States,
           T \in Tenants
    PROVE  /\ Link(trace, prev, state) \in Seq(Event)
           /\ Len(Link(trace, prev, state)) \in Nat
<1>1. [tenant |-> T, state |-> state, prev |-> prev] \in Event
  BY DEF Event
<1> QED
  BY <1>1, AppendProperties, LenProperties DEF Link

(* Emitting one event or two keeps the type of the evidence graph, and the *)
(* next link is a natural number.                                          *)
LEMMA EmitType ==
    ASSUME TypeOK, T \in Tenants, Id \in ActionIds,
           NEW s \in States, Emit(s) \/ \E f \in States : EmitTwo(f, s)
    PROVE  /\ evidence' \in [ActionIds -> Seq(Event)]
           /\ Len(evidence'[Id]) \in Nat
<1>1. evidence[Id] \in Seq(Event) /\ evidence \in [ActionIds -> Seq(Event)]
      /\ last \in Nat
  BY DEF TypeOK
<1>2. Len(evidence[Id]) + 1 \in Nat
  BY <1>1, LenProperties
<1>3. CASE Emit(s)
  <2>1. Link(evidence[Id], last, s) \in Seq(Event)
    BY <1>1, LinkType
  <2> QED
    BY <1>1, <1>3, <2>1, LenProperties DEF Emit
<1>4. CASE \E f \in States : EmitTwo(f, s)
  <2>1. PICK f \in States : EmitTwo(f, s)
    BY <1>4
  <2>2. Link(evidence[Id], last, f) \in Seq(Event)
    BY <1>1, LinkType
  <2>3. Link(Link(evidence[Id], last, f), Len(evidence[Id]) + 1, s) \in Seq(Event)
    BY <1>2, <2>2, LinkType
  <2> QED
    BY <1>1, <2>1, <2>3, LenProperties DEF EmitTwo
<1> QED
  BY <1>3, <1>4

(* A ledger body of the running action has its type. *)
LEMMA BodyType ==
    ASSUME A \in Actions, NEW n \in Nat,
           NEW e \in {"operator_command", "live_sign", "hygiene_downgrade", "v2_pipeline"}
    PROVE  [event |-> e, action |-> A, nonce |-> n] \in LedgerBody
BY DEF LedgerBody

(* Appending it keeps the type of the ledgers. *)
LEMMA RecordType ==
    ASSUME TypeOK, T \in Tenants, A \in Actions, NEW n \in Nat,
           NEW e \in {"operator_command", "live_sign", "hygiene_downgrade", "v2_pipeline"},
           Record(e, n)
    PROVE  ledger' \in [Tenants -> Seq(LedgerBody)]
<1>1. ledger[T] \in Seq(LedgerBody) /\ ledger \in [Tenants -> Seq(LedgerBody)]
  BY DEF TypeOK
<1>2. Append(ledger[T], [event |-> e, action |-> A, nonce |-> n]) \in Seq(LedgerBody)
  BY <1>1, BodyType, AppendProperties
<1> QED
  BY <1>1, <1>2 DEF Record

-----------------------------------------------------------------------------
(* The initial state is well typed. *)
LEMMA InitType == Init => TypeOK
<1> SUFFICES ASSUME Init PROVE TypeOK
  OBVIOUS
<1>1. RegistryTypeOK
  BY DEF Init, RegistryInit, RegistryTypeOK, Statuses
<1>2. \A S : <<>> \in Seq(S)
  BY EmptySeq
<1>3. /\ ring \in [Scopes -> Seq(Entry)]
      /\ evidence \in [ActionIds -> Seq(Event)]
      /\ ledger \in [Tenants -> Seq(LedgerBody)]
      /\ audit \in Seq(AuditRow)
  BY <1>2 DEF Init
<1>4. /\ used \in [Scopes -> SUBSET Nat]
      /\ submits \in [Hashes -> Nat]
      /\ tenants \in [Tenants -> {"unborn", "sim", "live", "gone"}]
  BY DEF Init
<1>5. /\ pc \in Stages /\ req = NoRequest /\ pc = "idle"
      /\ verdict \in {"AUTO", "HUMAN", "BLOCKED"}
      /\ last \in Nat /\ now \in Nat
      /\ clock \in Nat /\ bootAt \in Nat /\ bootAt <= clock
      /\ arrivals \in Nat /\ keyOps \in Nat /\ boots \in Nat
  BY DEF Init, Stages
<1>6. /\ breaker \in BOOLEAN /\ downgraded \in BOOLEAN
      /\ times \subseteq Nat \X Hashes /\ signs \subseteq Nat \X Hashes
      /\ eligible \subseteq Keys
  BY DEF Init
<1>7. ~downgraded
  BY DEF Init
<1> QED
  BY <1>1, <1>3, <1>4, <1>5, <1>6, <1>7 DEF TypeOK

(* Arrive leaves a well-typed state: the keys of a ring are keys. *)
LEMMA ArriveType ==
    ASSUME TypeOK, NEW r \in Requests, Arrive(r)
    PROVE  TypeOK'
<1>1. eligible' \subseteq Keys
  <2>1. r.tenant \in Scopes
    BY PipelineAssumption DEF Scopes
  <2>2. ring[r.tenant] \in Seq(Entry)
    BY <2>1 DEF TypeOK
  <2>3. \A i \in DOMAIN ring[r.tenant] : ring[r.tenant][i].pem \in Keys
    <3>1. \A i \in DOMAIN ring[r.tenant] : ring[r.tenant][i] \in Entry
      BY <2>2, ElementOfSeq, LenProperties
    <3> QED
      BY <3>1 DEF Entry
  <2> QED
    BY <2>3 DEF Arrive, ActivePems
<1>2. arrivals' \in Nat
  BY DEF Arrive, TypeOK
<1> QED
  BY <1>1, <1>2 DEF Arrive, TypeOK, RegistryTypeOK, Stages

(* The steps of _require_command and of the breaker check do. *)
LEMMA GateType ==
    ASSUME TypeOK, Gate
    PROVE  TypeOK'
<1>0. pc # "idle"
  BY DEF Gate, GateDormant, GateRefuse, GateAccept, CheckBreaker
<1> USE <1>0, RequestType
<1>1. CASE GateDormant
  BY <1>1 DEF Gate, GateDormant, envVars, keyVars, registryVars, TypeOK, RegistryTypeOK, Stages
<1>2. CASE GateRefuse
  BY <1>2 DEF Gate, GateRefuse, Finish, envVars, keyVars, registryVars, TypeOK, RegistryTypeOK, Stages
<1>3. CASE GateAccept
  <2>1. req.cmd \in Command(Body) /\ req.cmd.nonce \in Nat
    BY <1>3 DEF GateAccept, CommandOk, Command
  <2>2. ledger' \in [Tenants -> Seq(LedgerBody)]
    BY <1>3, <2>1, RecordType DEF GateAccept
  <2>3. used' \in [Scopes -> SUBSET Nat]
    BY <1>3, <2>1 DEF GateAccept, TypeOK, Scopes
  <2> QED
    BY <1>3, <2>2, <2>3 DEF Gate, GateAccept, envVars, keyVars, registryVars, TypeOK, RegistryTypeOK, Stages
<1>4. CASE CheckBreaker
  <2>1. CASE breaker \/ ~B.parses
    <3>1. Finish
      BY <1>4, <2>1 DEF CheckBreaker
    <3> QED
      BY <1>4, <3>1 DEF Gate, CheckBreaker, Finish, envVars, keyVars, registryVars, TypeOK, RegistryTypeOK, Stages
  <2>2. CASE ~breaker /\ B.parses
    <3>1. MonoNow \in Nat
      BY MonoNowNat
    <3>2. /\ pc' = "epistemic" /\ now' = MonoNow
          /\ UNCHANGED <<req, verdict, downgraded, last>>
      BY <1>4, <2>2 DEF CheckBreaker
    <3> QED
      BY <1>4, <3>1, <3>2 DEF Gate, CheckBreaker, envVars, keyVars, registryVars, TypeOK, RegistryTypeOK, Stages
  <2> QED
    BY <2>1, <2>2
<1> QED
  BY <1>1, <1>2, <1>3, <1>4 DEF Gate

(* The types of what a step of the handler keeps for itself. *)
LoopOK ==
    /\ pc \in Stages
    /\ IF pc = "idle" THEN req = NoRequest ELSE req \in Requests
    /\ verdict \in {"AUTO", "HUMAN", "BLOCKED"}
    /\ downgraded \in BOOLEAN
    /\ downgraded => pc # "idle" /\ req.body.downgrade # NoRecord
    /\ last \in Nat /\ now \in Nat

(* Leaving the handler does. *)
LEMMA FinishType == Finish => LoopOK'
<1> SUFFICES ASSUME Finish PROVE LoopOK'
  OBVIOUS
<1>1. ~downgraded' /\ downgraded' \in BOOLEAN
  BY DEF Finish
<1>2. /\ pc' = "idle" /\ req' = NoRequest /\ verdict' = "BLOCKED"
      /\ last' = 0 /\ now' = 0
  BY DEF Finish
<1> QED
  BY <1>1, <1>2 DEF LoopOK, Stages

(* Going on to the next layer does. *)
LEMMA ProceedType ==
    ASSUME TypeOK, pc # "idle", Id \in ActionIds, Len(evidence'[Id]) \in Nat,
           NEW s \in Stages \ {"idle"}, Proceed(s),
           verdict' \in {"AUTO", "HUMAN", "BLOCKED"}, downgraded' \in BOOLEAN,
           downgraded' => B.downgrade # NoRecord
    PROVE  LoopOK'
<1>1. req \in Requests /\ now \in Nat
  BY DEF TypeOK
<1>2. pc' = s /\ last' = Len(evidence'[Id]) /\ req' = req /\ now' = now
  BY DEF Proceed
<1>3. pc' \in Stages /\ pc' # "idle" /\ req' \in Requests
      /\ last' \in Nat /\ now' \in Nat
  BY <1>1, <1>2
<1>4. downgraded' => req'.body.downgrade # NoRecord
  BY <1>2 DEF B
<1> QED
  BY <1>3, <1>4 DEF LoopOK

(* What Evaluate leaves alone keeps its type. *)
LEMMA EvaluateFrame ==
    ASSUME TypeOK, Evaluate, LoopOK',
           evidence' \in [ActionIds -> Seq(Event)],
           used' \in [Scopes -> SUBSET Nat]
    PROVE  TypeOK'
BY DEF Evaluate, LoopOK, envVars, keyVars, registryVars, TypeOK, RegistryTypeOK

(* Layers 1 to 4 do. *)
LEMMA EvaluateType ==
    ASSUME TypeOK, Evaluate
    PROVE  TypeOK'
<1>0. pc # "idle"
  BY DEF Evaluate, StructureRefuse, EpistemicRefuse, EpistemicPass, HygienePass,
         HygieneRefuse, DowngradeRefuse, DowngradePartial, DowngradeRelease,
         RiskRefuse, RiskPass, HumanRefuse, HumanPass
<1>1. /\ T \in Tenants /\ Id \in ActionIds /\ B \in Body
      /\ used \in [Scopes -> SUBSET Nat]
      /\ evidence \in [ActionIds -> Seq(Event)]
      /\ verdict \in {"AUTO", "HUMAN", "BLOCKED"} /\ downgraded \in BOOLEAN
      /\ downgraded => B.downgrade # NoRecord
  BY <1>0, RequestType DEF TypeOK, B
<1>2. "PROPOSED" \in States /\ "AUTHORIZED" \in States /\ "EVALUATED" \in States
      /\ "APPROVED" \in States /\ "REJECTED" \in States
  BY DEF States
<1>3. "hygiene" \in Stages \ {"idle"} /\ "risk" \in Stages \ {"idle"}
      /\ "human" \in Stages \ {"idle"} /\ "replay" \in Stages \ {"idle"}
  BY DEF Stages
<1>4. DowngradePartial \/ DowngradeRelease => used' \in [Scopes -> SUBSET Nat]
  <2> SUFFICES ASSUME DowngradePartial \/ DowngradeRelease
               PROVE  used' \in [Scopes -> SUBSET Nat]
    OBVIOUS
  <2>1. B.downgrade \in Downgrade
    BY <1>1 DEF DowngradePartial, DowngradeRelease, DowngradeValid, Body
  <2>2. B.downgrade.nonce \in Nat /\ T \in Scopes
    BY <1>1, <2>1 DEF Downgrade, Scopes
  <2>3. used' = [used EXCEPT ![T] = @ \cup {B.downgrade.nonce}]
    BY DEF DowngradePartial, DowngradeRelease
  <2> QED
    BY <1>1, <2>2, <2>3
<1>5. CASE StructureRefuse
  BY <1>1, <1>5, FinishType, EvaluateFrame DEF StructureRefuse
<1>6. CASE EpistemicRefuse
  BY <1>1, <1>2, <1>6, FinishType, EmitType, EvaluateFrame DEF EpistemicRefuse
<1>7. CASE EpistemicPass
  <2>1. Decide(B) \in {"AUTO", "HUMAN", "BLOCKED"}
    BY DEF Decide
  <2>2. evidence' \in [ActionIds -> Seq(Event)] /\ Len(evidence'[Id]) \in Nat
    BY <1>1, <1>2, <1>7, EmitType DEF EpistemicPass
  <2>3. LoopOK'
    BY <1>0, <1>1, <1>3, <1>7, <2>1, <2>2, ProceedType DEF EpistemicPass
  <2> QED
    BY <1>1, <1>7, <2>2, <2>3, EvaluateFrame DEF EpistemicPass
<1>8. CASE HygieneRefuse
  BY <1>1, <1>2, <1>8, FinishType, EmitType, EvaluateFrame DEF HygieneRefuse
<1>9. CASE DowngradeRefuse
  BY <1>1, <1>2, <1>9, FinishType, EmitType, EvaluateFrame DEF DowngradeRefuse
<1>10. CASE DowngradePartial
  BY <1>1, <1>2, <1>4, <1>10, FinishType, EmitType, EvaluateFrame DEF DowngradePartial
<1>11. CASE DowngradeRelease
  <2>1. evidence' \in [ActionIds -> Seq(Event)] /\ Len(evidence'[Id]) \in Nat
    BY <1>1, <1>2, <1>11, EmitType DEF DowngradeRelease
  <2>2. LoopOK'
    BY <1>0, <1>1, <1>3, <1>11, <2>1, ProceedType DEF DowngradeRelease, DowngradeValid
  <2> QED
    BY <1>4, <1>11, <2>1, <2>2, EvaluateFrame
<1>12. CASE RiskRefuse
  BY <1>1, <1>2, <1>12, FinishType, EmitType, EvaluateFrame DEF RiskRefuse
<1>13. CASE HumanRefuse
  BY <1>1, <1>2, <1>13, FinishType, EmitType, EvaluateFrame DEF HumanRefuse
<1>14. CASE HygienePass \/ RiskPass \/ HumanPass
  <2>1. evidence' \in [ActionIds -> Seq(Event)] /\ Len(evidence'[Id]) \in Nat
    BY <1>1, <1>2, <1>14, EmitType DEF HygienePass, RiskPass, HumanPass
  <2>2. /\ Proceed("risk") \/ Proceed("human") \/ Proceed("replay")
        /\ UNCHANGED <<used, verdict, downgraded>>
    BY <1>14 DEF HygienePass, RiskPass, HumanPass
  <2>3. LoopOK'
    BY <1>0, <1>1, <1>3, <2>1, <2>2, ProceedType
  <2> QED
    BY <1>1, <2>1, <2>2, <2>3, EvaluateFrame
<1> QED
  BY <1>5, <1>6, <1>7, <1>8, <1>9, <1>10, <1>11, <1>12, <1>13, <1>14 DEF Evaluate

(* The entries that close a run have their type. *)
LEMMA ClosingType ==
    ASSUME A \in Actions, B \in Body, Attr[A].nonce \in Nat,
           downgraded => B.downgrade # NoRecord
    PROVE  Closing \in Seq(LedgerBody)
<1>1. [event |-> "v2_pipeline", action |-> A, nonce |-> Attr[A].nonce] \in LedgerBody
  BY BodyType
<1>2. CASE ~downgraded
  BY <1>1, <1>2 DEF Closing
<1>3. CASE downgraded
  <2>1. B.downgrade.nonce \in Nat
    BY <1>3 DEF Body, Downgrade
  <2>2. [event |-> "hygiene_downgrade", action |-> A, nonce |-> B.downgrade.nonce] \in LedgerBody
    BY <2>1, BodyType
  <2> QED
    BY <1>1, <1>3, <2>2 DEF Closing
<1> QED
  BY <1>2, <1>3

(* What Execute leaves alone keeps its type. *)
LEMMA ExecuteFrame ==
    ASSUME TypeOK, Execute, LoopOK', RegistryTypeOK',
           evidence' \in [ActionIds -> Seq(Event)],
           ledger' \in [Tenants -> Seq(LedgerBody)],
           times' \subseteq Nat \X Hashes, signs' \subseteq Nat \X Hashes,
           submits' \in [Hashes -> Nat]
    PROVE  TypeOK'
BY DEF Execute, LoopOK, envVars, keyVars, TypeOK

(* The registry's own operations keep its type. *)
LEMMA RegistryType ==
    ASSUME TypeOK, NEW t \in Tenants, NEW a \in Actions, NEW n,
           \/ Register(t, a, n) \/ RefuseExpired(t, a, n) \/ RefuseReplay(t, a, n)
           \/ Advance(t, a, "SIGNED") \/ Advance(t, a, "SUBMITTED")
           \/ UNCHANGED registryVars
    PROVE  RegistryTypeOK'
<1>1. /\ byHash \in [Hashes -> Statuses]
      /\ byNonce \in [Tenants \X Nonces -> Actions \cup {NoAction}]
  BY DEF TypeOK, RegistryTypeOK
<1>2. <<t, a>> \in Hashes /\ <<t, Attr[a].nonce>> \in Tenants \X Nonces
  BY DEF Hashes, Nonces
<1>3. \A s \in Statuses : Insert(t, a, s) => RegistryTypeOK'
  BY <1>1, <1>2 DEF Insert, RegistryTypeOK
<1>4. \A s \in Statuses : Advance(t, a, s) => RegistryTypeOK'
  BY <1>1, <1>2 DEF Advance, RegistryTypeOK
<1>5. UNCHANGED registryVars => RegistryTypeOK'
  BY <1>1 DEF registryVars, RegistryTypeOK
<1>6. "REGISTERED" \in Statuses /\ "EXPIRED" \in Statuses /\ "NONE" \in Statuses
      /\ "SIGNED" \in Statuses /\ "SUBMITTED" \in Statuses
  BY DEF Statuses
<1>7. ASSUME byHash' = [byHash EXCEPT ![<<t, a>>] = IF Seen(t, a) THEN "EXPIRED" ELSE "NONE"],
             UNCHANGED byNonce
      PROVE  RegistryTypeOK'
  BY <1>1, <1>2, <1>6, <1>7 DEF RegistryTypeOK
<1> QED
  BY <1>3, <1>4, <1>5, <1>6, <1>7 DEF Register, RefuseExpired, RefuseReplay

(* Layers 5 to 10 do. *)
LEMMA ExecuteType ==
    ASSUME TypeOK, Execute
    PROVE  TypeOK'
<1>0. pc # "idle"
  BY DEF Execute, ReplayRefuse, ReplayPass, SettleRefuse, SettlePass, VelocityRefuse,
         SignerFails, Sign, Submit, Reconcile
<1>1. /\ req \in Requests /\ T \in Tenants /\ B \in Body /\ A \in Actions
      /\ Hash \in Hashes /\ Id \in ActionIds /\ Attr[A].nonce \in Nat
  BY <1>0, RequestType
<1>2. /\ evidence \in [ActionIds -> Seq(Event)]
      /\ ledger \in [Tenants -> Seq(LedgerBody)]
      /\ times \subseteq Nat \X Hashes /\ signs \subseteq Nat \X Hashes
      /\ submits \in [Hashes -> Nat]
      /\ verdict \in {"AUTO", "HUMAN", "BLOCKED"} /\ downgraded \in BOOLEAN
      /\ downgraded => B.downgrade # NoRecord
      /\ last \in Nat /\ now \in Nat
  BY DEF TypeOK, B
<1>3. "SIGNED" \in States /\ "SUBMITTED" \in States /\ "SETTLED" \in States
      /\ "FAILED" \in States /\ "REJECTED" \in States
  BY DEF States
<1>4. {"settle", "sign", "submit", "reconcile"} \subseteq Stages \ {"idle"}
  BY DEF Stages
<1>5. InWindow(MonoNow) \subseteq Nat \X Hashes
      /\ (TakeSlot => times' \subseteq Nat \X Hashes)
      /\ <<MonoNow, Hash>> \in Nat \X Hashes
  BY <1>1, <1>2, MonoNowNat DEF InWindow, TakeSlot
<1>6. UNCHANGED registryVars => RegistryTypeOK'
  BY <1>1, RegistryType
<1>7. CASE ReplayRefuse
  <2>1. RegistryTypeOK'
    BY <1>1, <1>7, RegistryType DEF ReplayRefuse
  <2> QED
    BY <1>1, <1>2, <1>3, <1>7, <2>1, FinishType, EmitType, ExecuteFrame DEF ReplayRefuse
<1>8. CASE ReplayPass
  <2>1. RegistryTypeOK'
    BY <1>1, <1>8, RegistryType DEF ReplayPass
  <2>2. LoopOK'
    BY <1>1, <1>2, <1>4, <1>8 DEF ReplayPass, LoopOK, B
  <2> QED
    BY <1>2, <1>8, <2>1, <2>2, ExecuteFrame DEF ReplayPass
<1>9. CASE SettleRefuse
  BY <1>1, <1>2, <1>3, <1>6, <1>9, FinishType, EmitType, ExecuteFrame DEF SettleRefuse
<1>10. CASE SettlePass
  <2>1. LoopOK'
    BY <1>1, <1>2, <1>4, <1>10 DEF SettlePass, LoopOK, B
  <2> QED
    BY <1>2, <1>6, <1>10, <2>1, ExecuteFrame DEF SettlePass
<1>11. CASE VelocityRefuse
  BY <1>1, <1>2, <1>3, <1>5, <1>6, <1>11, FinishType, EmitType, ExecuteFrame DEF VelocityRefuse
<1>12. CASE SignerFails
  BY <1>2, <1>5, <1>6, <1>12, FinishType, ExecuteFrame DEF SignerFails
<1>13. CASE Sign
  <2>1. evidence' \in [ActionIds -> Seq(Event)] /\ Len(evidence'[Id]) \in Nat
    BY <1>1, <1>3, <1>13, EmitType DEF Sign
  <2>2. LoopOK'
    BY <1>0, <1>1, <1>2, <1>4, <1>13, <2>1, ProceedType DEF Sign
  <2>3. RegistryTypeOK'
    BY <1>1, <1>13, RegistryType DEF Sign
  <2>4. ledger' \in [Tenants -> Seq(LedgerBody)]
    BY <1>1, <1>13, RecordType DEF Sign
  <2>5. times' \subseteq Nat \X Hashes /\ signs' \subseteq Nat \X Hashes
    BY <1>2, <1>5, <1>13 DEF Sign
  <2> QED
    BY <1>2, <1>13, <2>1, <2>2, <2>3, <2>4, <2>5, ExecuteFrame DEF Sign
<1>14. CASE Submit
  <2>1. evidence' \in [ActionIds -> Seq(Event)] /\ Len(evidence'[Id]) \in Nat
    BY <1>1, <1>3, <1>14, EmitType DEF Submit
  <2>2. LoopOK'
    BY <1>0, <1>1, <1>2, <1>4, <1>14, <2>1, ProceedType DEF Submit
  <2>3. RegistryTypeOK'
    BY <1>1, <1>14, RegistryType DEF Submit
  <2>4. submits' \in [Hashes -> Nat]
    BY <1>1, <1>2, <1>14 DEF Submit
  <2> QED
    BY <1>2, <1>14, <2>1, <2>2, <2>3, <2>4, ExecuteFrame DEF Submit
<1>15. ASSUME NEW code \in VenueCodes, Reconcile(code)
       PROVE  TypeOK'
  <2>1. evidence' \in [ActionIds -> Seq(Event)]
    BY <1>1, <1>3, <1>15, EmitType DEF Reconcile
  <2>2. ledger' \in [Tenants -> Seq(LedgerBody)]
    BY <1>1, <1>2, <1>15, ClosingType, ConcatProperties DEF Reconcile
  <2> QED
    BY <1>2, <1>6, <1>15, <2>1, <2>2, FinishType, ExecuteFrame DEF Reconcile
<1> QED
  BY <1>7, <1>8, <1>9, <1>10, <1>11, <1>12, <1>13, <1>14, <1>15 DEF Execute

-----------------------------------------------------------------------------
(* The safety verbs do. *)
LEMMA SafetyType ==
    ASSUME TypeOK, SafetyVerb
    PROVE  TypeOK'
<1>1. PICK r \in SafetyRequests : SafetyHalt(r) \/ SafetyResume(r)
  BY DEF SafetyVerb
<1>2. breaker' \in BOOLEAN /\ arrivals' \in Nat
  <2>1. breaker' \in BOOLEAN
    BY <1>1 DEF SafetyHalt, SafetyResume
  <2>2. arrivals' \in Nat
    BY DEF SafetyVerb, TypeOK
  <2> QED
    BY <2>1, <2>2
<1>3. PICK verb \in Verbs : SafetyGate(verb, r)
  BY <1>1 DEF SafetyHalt, SafetyResume, Verbs
<1>4. used' \in [Scopes -> SUBSET Nat] /\ audit' \in Seq(AuditRow)
  <2>1. CASE UNCHANGED <<used, audit>>
    BY <2>1 DEF TypeOK
  <2>2. CASE /\ CommandOk(Safety, "safety body", r.cmd)
             /\ used' = [used EXCEPT ![Safety] = @ \cup {r.cmd.nonce}]
             /\ audit' = Append(audit, [verb |-> verb, nonce |-> r.cmd.nonce])
    <3>1. r.cmd \in Command({"safety body"})
      BY <2>2, PipelineAssumption DEF CommandOk
    <3>2. r.cmd.nonce \in Nat /\ Safety \in Scopes
      BY <3>1 DEF Command, Scopes
    <3>3. [verb |-> verb, nonce |-> r.cmd.nonce] \in AuditRow
      BY <3>2 DEF AuditRow
    <3>4. audit' \in Seq(AuditRow)
      BY <2>2, <3>3, AppendProperties DEF TypeOK
    <3> QED
      BY <2>2, <3>2, <3>4 DEF TypeOK
  <2> QED
    BY <1>3, <2>1, <2>2 DEF SafetyGate
<1> QED
  BY <1>2, <1>4 DEF SafetyVerb, keyVars, loopVars, registryVars, TypeOK, RegistryTypeOK

(* Add, Revoke and Rotate keep a keyring a sequence of entries. *)
LEMMA AddType ==
    ASSUME NEW g \in Seq(Entry), NEW k \in Keys, NEW e \in Nat \cup {NoExpiry}
    PROVE  Add(g, k, e) \in Seq(Entry)
<1>1. [pem |-> k, expires |-> e, revoked |-> FALSE] \in Entry
  BY DEF Entry
<1> QED
  BY <1>1, AppendProperties DEF Add

(* A revoked ring is a ring. *)
LEMMA RevokeType ==
    ASSUME NEW g \in Seq(Entry), NEW k
    PROVE  Revoke(g, k) \in Seq(Entry)
<1>1. Len(g) \in Nat /\ DOMAIN g = 1..Len(g) /\ \A i \in 1..Len(g) : g[i] \in Entry
  BY LenProperties, ElementOfSeq
<1>2. \A e \in Entry : [e EXCEPT !.revoked = TRUE] \in Entry
  BY DEF Entry
<1>3. Revoke(g, k) \in [1..Len(g) -> Entry]
  BY <1>1, <1>2 DEF Revoke
<1> QED
  BY <1>1, <1>3, SeqDef

(* A rotated ring is a ring. *)
LEMMA RotateType ==
    ASSUME NEW g \in Seq(Entry), NEW k \in Keys, NEW old,
           NEW grace \in Nat, NEW n \in Nat
    PROVE  Rotate(g, k, old, NoExpiry, grace, n) \in Seq(Entry)
<1> DEFINE grown == Add(g, k, NoExpiry)
<1>1. grown \in Seq(Entry)
  BY AddType
<1>2. Len(grown) \in Nat /\ DOMAIN grown = 1..Len(grown)
      /\ \A i \in 1..Len(grown) : grown[i] \in Entry
  BY <1>1, LenProperties, ElementOfSeq
<1>3. \A e \in Entry : Retire(e, grace, n) \in Entry
  <2> SUFFICES ASSUME NEW e \in Entry PROVE Retire(e, grace, n) \in Entry
    OBVIOUS
  <2>1. n + grace \in Nat
    OBVIOUS
  <2>2. [e EXCEPT !.expires = n + grace] \in Entry
    BY <2>1 DEF Entry
  <2>3. [e EXCEPT !.revoked = TRUE] \in Entry
    BY DEF Entry
  <2> QED
    BY <2>2, <2>3 DEF Retire
<1>4. Rotate(g, k, old, NoExpiry, grace, n) \in [1..Len(grown) -> Entry]
  BY <1>2, <1>3 DEF Rotate
<1> QED
  BY <1>2, <1>4, SeqDef

(* The key-management endpoints keep the rings well typed. *)
LEMMA KeyOperationType ==
    ASSUME TypeOK, KeyOperation
    PROVE  TypeOK'
<1>1. PICK s \in Scopes, k \in Keys :
         \/ \E expires \in {NoExpiry, clock + 1} : AddOperatorKey(s, k, expires)
         \/ RevokeOperatorKey(s, k)
         \/ \E old \in Keys, grace \in {0, 1} : RotateOperatorKey(s, k, old, grace)
  BY DEF KeyOperation
<1>2. ring[s] \in Seq(Entry) /\ clock \in Nat /\ eligible \subseteq Keys
      /\ ring \in [Scopes -> Seq(Entry)]
  BY DEF TypeOK
<1>3. ring' \in [Scopes -> Seq(Entry)]
  <2>1. PICK g \in Seq(Entry) : ring' = [ring EXCEPT ![s] = g]
    <3>1. CASE \E expires \in {NoExpiry, clock + 1} : AddOperatorKey(s, k, expires)
      <4>1. PICK expires \in {NoExpiry, clock + 1} :
               ring' = [ring EXCEPT ![s] = Add(@, k, expires)]
        BY <3>1 DEF AddOperatorKey
      <4>2. expires \in Nat \cup {NoExpiry}
        BY <1>2
      <4> QED
        BY <1>2, <4>1, <4>2, AddType
    <3>2. CASE RevokeOperatorKey(s, k)
      BY <1>2, <3>2, RevokeType DEF RevokeOperatorKey
    <3>3. CASE \E old \in Keys, grace \in {0, 1} : RotateOperatorKey(s, k, old, grace)
      <4>1. PICK old \in Keys, grace \in {0, 1} :
               ring' = [ring EXCEPT ![s] = Rotate(@, k, old, NoExpiry, grace, clock)]
        BY <3>3 DEF RotateOperatorKey
      <4> QED
        BY <1>2, <4>1, RotateType
    <3> QED
      BY <1>1, <3>1, <3>2, <3>3
  <2> QED
    BY <1>2, <2>1
<1>4. eligible' \subseteq Keys
  BY <1>1, <1>2 DEF AddOperatorKey, RevokeOperatorKey, RotateOperatorKey, NowEligible
<1>5. keyOps' \in Nat
  BY DEF KeyOperation, TypeOK
<1> QED
  BY <1>3, <1>4, <1>5 DEF KeyOperation, loopVars, registryVars, TypeOK, RegistryTypeOK

(* So does creating a tenant. *)
LEMMA CreateTenantType ==
    ASSUME TypeOK, NEW t \in Tenants, NEW kind \in {"sim", "live"}, CreateTenant(t, kind)
    PROVE  TypeOK'
BY DEF CreateTenant, keyVars, loopVars, registryVars, TypeOK, RegistryTypeOK

(* So does the clock. *)
LEMMA TickType ==
    ASSUME TypeOK, Tick
    PROVE  TypeOK'
<1>1. clock' \in Nat /\ bootAt' \in Nat /\ bootAt' <= clock'
  BY DEF Tick, TypeOK
<1> QED
  BY <1>1 DEF Tick, keyVars, loopVars, registryVars, TypeOK, RegistryTypeOK

(* A restart leaves a well-typed state. *)
LEMMA RestartType ==
    ASSUME TypeOK, Restart
    PROVE  TypeOK'
<1>1. \A S : <<>> \in Seq(S)
  BY EmptySeq
<1>2. ring[Safety] \in Seq(Entry)
  BY DEF TypeOK, Scopes
<1>3. Stored(ring[Safety]) \subseteq Entry
  BY <1>2, LenProperties, ElementOfSeq DEF Stored
<1>4. \A g \in Reloaded(Stored(ring[Safety]), Len(ring[Safety])) : g \in Seq(Entry)
  <2> SUFFICES ASSUME NEW m \in 0..Len(ring[Safety]),
                      NEW g \in [1..m -> Stored(ring[Safety])]
               PROVE  g \in Seq(Entry)
    BY DEF Reloaded
  <2>1. m \in Nat /\ g \in [1..m -> Entry]
    BY <1>2, <1>3, LenProperties
  <2> QED
    BY <2>1, SeqDef
<1>5. ring' \in [Scopes -> Seq(Entry)]
  <2>1. PICK safety \in IF DurableKeys
                        THEN Reloaded(Stored(ring[Safety]), Len(ring[Safety]))
                        ELSE {<<>>} :
           ring' = [s \in Scopes |-> IF s = Safety THEN safety ELSE <<>>]
    BY DEF Restart
  <2>2. safety \in Seq(Entry)
    BY <1>1, <1>4, <2>1
  <2> QED
    BY <1>1, <2>1, <2>2
<1>6. audit' \in Seq(AuditRow)
  BY <1>1 DEF Restart, TypeOK
<1>7. RegistryTypeOK'
  BY DEF Restart, TypeOK, registryVars, RegistryTypeOK, Statuses
<1>8. LoopOK'
  BY FinishType DEF Restart
<1>9. tenants' \in [Tenants -> {"unborn", "sim", "live", "gone"}]
  BY DEF Restart, TypeOK
<1>10. evidence' \in [ActionIds -> Seq(Event)] /\ ledger' \in [Tenants -> Seq(LedgerBody)]
  BY <1>1 DEF Restart
<1>11. used' \in [Scopes -> SUBSET Nat] /\ breaker' \in BOOLEAN
  BY DEF Restart
<1>12. times' \subseteq Nat \X Hashes /\ signs' \subseteq Nat \X Hashes /\ eligible' \subseteq Keys
  BY DEF Restart
<1>13. /\ bootAt' = clock /\ boots' = boots + 1
       /\ UNCHANGED <<clock, submits, arrivals, keyOps>>
  BY DEF Restart
<1> QED
  BY <1>5, <1>6, <1>7, <1>8, <1>9, <1>10, <1>11, <1>12, <1>13 DEF TypeOK, LoopOK

-----------------------------------------------------------------------------
(* Every step of the gateway, its threads and its environment keeps the    *)
(* type invariant.                                                         *)
LEMMA TypeStep == TypeOK /\ [Next]_vars => TypeOK'
<1> SUFFICES ASSUME TypeOK, [Next]_vars PROVE TypeOK'
  OBVIOUS
<1>1. CASE \E r \in Requests : Arrive(r)
  BY <1>1, ArriveType
<1>2. CASE Handler
  BY <1>2, GateType, EvaluateType, ExecuteType DEF Handler
<1>3. CASE SafetyVerb
  BY <1>3, SafetyType
<1>4. CASE KeyOperation
  BY <1>4, KeyOperationType
<1>5. CASE \E t \in Tenants, kind \in {"sim", "live"} : CreateTenant(t, kind)
  BY <1>5, CreateTenantType
<1>6. CASE Tick
  BY <1>6, TickType
<1>7. CASE Restart
  BY <1>7, RestartType
<1>8. CASE UNCHANGED vars
  BY <1>8 DEF vars, TypeOK, RegistryTypeOK
<1> QED
  BY <1>1, <1>2, <1>3, <1>4, <1>5, <1>6, <1>7, <1>8 DEF Next

(* The gateway's state always has its type, for every number of tenants,   *)
(* actions, keys and requests.                                             *)
THEOREM TypeCorrect == Spec => []TypeOK
<1>1. Init => TypeOK
  BY InitType
<1>2. TypeOK /\ [Next]_vars => TypeOK'
  BY TypeStep
<1> QED
  BY <1>1, <1>2, PTL DEF Spec

-----------------------------------------------------------------------------
(* Execution at most once. *)

OnceInv == TypeOK /\ AtMostOnce /\ ClaimHeld

(* Nothing is submitted, and nothing runs, at first. *)
LEMMA OnceInit == Init => OnceInv
<1> SUFFICES ASSUME Init PROVE OnceInv
  OBVIOUS
<1>1. TypeOK
  BY InitType
<1>2. \A t \in Tenants, a \in Actions : <<t, a>> \in Hashes
  BY DEF Hashes
<1>3. (\A h \in Hashes : submits[h] = 0) /\ pc = "idle"
  BY DEF Init
<1> QED
  BY <1>1, <1>2, <1>3 DEF OnceInv, AtMostOnce, ClaimHeld

(* A step that touches neither the registry nor the venue, creates no      *)
(* tenant and does not enter or leave the layers between them.             *)
LEMMA OnceFrame ==
    ASSUME OnceInv,
           UNCHANGED <<byHash, byNonce, submits, tenants>>,
           pc' \in {"settle", "sign", "submit"} => pc' = pc /\ req' = req,
           pc' # "idle" => tenants'[req'.tenant] \in {"sim", "live"}
    PROVE  AtMostOnce' /\ ClaimHeld'
<1>0. pc' # "idle" => Alive(T)'
  BY DEF Alive, T
<1>1. AtMostOnce'
  BY DEF OnceInv, AtMostOnce
<1>2. \A t \in Tenants, a \in Actions :
         submits'[<<t, a>>] > 0 =>
              /\ tenants'[t] # "unborn"
              /\ Alive(t)' => /\ byHash'[<<t, a>>] # "NONE"
                              /\ byNonce'[<<t, Attr[a].nonce>>] = a
  BY DEF OnceInv, ClaimHeld, registryVars, Alive
<1>3. pc' \in {"settle", "sign", "submit"} =>
         /\ submits'[Hash'] = 0
         /\ byHash'[Hash'] # "NONE" /\ byNonce'[<<T', Attr[A'].nonce>>] = A'
  BY DEF OnceInv, ClaimHeld, registryVars, Hash, T, A, B
<1> QED
  BY <1>0, <1>1, <1>2, <1>3 DEF ClaimHeld

(* The registry only grows while a process runs: no operation of it        *)
(* forgets a hash or gives a nonce to another action.                      *)
LEMMA RegistryGrows ==
    ASSUME TypeOK, NEW t \in Tenants, NEW a \in Actions, NEW n,
           \/ Register(t, a, n) \/ RefuseExpired(t, a, n) \/ RefuseReplay(t, a, n)
           \/ Advance(t, a, "SIGNED") \/ Advance(t, a, "SUBMITTED")
           \/ UNCHANGED registryVars
    PROVE  /\ \A h \in Hashes : byHash[h] # "NONE" => byHash'[h] # "NONE"
           /\ \A p \in Tenants \X Nonces : byNonce[p] # NoAction => byNonce'[p] = byNonce[p]
<1>1. /\ byHash \in [Hashes -> Statuses]
      /\ byNonce \in [Tenants \X Nonces -> Actions \cup {NoAction}]
  BY DEF TypeOK, RegistryTypeOK
<1>2. <<t, a>> \in Hashes /\ <<t, Attr[a].nonce>> \in Tenants \X Nonces
  BY DEF Hashes, Nonces
<1> DEFINE Grows == /\ \A h \in Hashes : byHash[h] # "NONE" => byHash'[h] # "NONE"
                    /\ \A p \in Tenants \X Nonces :
                          byNonce[p] # NoAction => byNonce'[p] = byNonce[p]
<1>3. ASSUME NEW s, s # "NONE", Insert(t, a, s),
             byNonce[<<t, Attr[a].nonce>>] \in {NoAction, a}
      PROVE  Grows
  BY <1>1, <1>2, <1>3 DEF Insert
<1>4. ASSUME NEW s, s # "NONE", Advance(t, a, s)
      PROVE  Grows
  BY <1>1, <1>2, <1>4 DEF Advance
<1>5. UNCHANGED registryVars => Grows
  BY DEF registryVars
<1>6. CASE Register(t, a, n)
  BY <1>3, <1>6 DEF Register, NonceTaken
<1>7. CASE RefuseExpired(t, a, n)
  <2>1. CASE byNonce[<<t, Attr[a].nonce>>] = NoAction /\ Insert(t, a, "EXPIRED")
    BY <1>3, <2>1
  <2>2. CASE UNCHANGED registryVars
    BY <1>5, <2>2
  <2>3. CASE /\ byHash' = [byHash EXCEPT ![<<t, a>>] = IF Seen(t, a) THEN "EXPIRED" ELSE "NONE"]
             /\ UNCHANGED byNonce
    BY <1>1, <1>2, <2>3 DEF Seen
  <2> QED
    BY <1>7, <2>1, <2>2, <2>3 DEF RefuseExpired
<1> QED
  BY <1>4, <1>5, <1>6, <1>7 DEF RefuseReplay

(* The layers before the registry cannot skip it. *)
LEMMA GateStays ==
    ASSUME Gate \/ Evaluate
    PROVE  /\ pc # "idle" /\ UNCHANGED <<registryVars, submits, tenants, breaker, boots>>
           /\ pc' \in {"idle", "breaker", "epistemic", "hygiene", "risk", "human", "replay"}
           /\ pc' # "idle" => UNCHANGED req
<1>1. CASE Gate
  <2>1. UNCHANGED <<registryVars, submits, tenants, breaker, boots>>
    BY <1>1 DEF Gate, envVars
  <2> QED
    BY <1>1, <2>1 DEF Gate, GateDormant, GateRefuse, GateAccept, CheckBreaker, Finish
<1>2. CASE Evaluate
  <2>1. UNCHANGED <<registryVars, submits, tenants, breaker, boots>>
    BY <1>2 DEF Evaluate, envVars
  <2> QED
    BY <1>2, <2>1
       DEF Evaluate, StructureRefuse, EpistemicRefuse, EpistemicPass, HygienePass,
           HygieneRefuse, DowngradeRefuse, DowngradePartial, DowngradeRelease,
           RiskRefuse, RiskPass, HumanRefuse, HumanPass, Finish, Proceed
<1> QED
  BY <1>1, <1>2

(* A step of the registry that submits nothing, on the way out or deeper   *)
(* in with the claim in hand.                                              *)
LEMMA OnceRegistry ==
    ASSUME OnceInv, pc # "idle", UNCHANGED <<submits, tenants>>,
           \E n : \/ Register(T, A, n) \/ RefuseExpired(T, A, n) \/ RefuseReplay(T, A, n)
                  \/ Advance(T, A, "SIGNED") \/ UNCHANGED registryVars,
           \/ pc' \in {"idle", "reconcile"}
           \/ /\ submits[Hash] = 0
              /\ byHash'[Hash] # "NONE" /\ byNonce'[<<T, Attr[A].nonce>>] = A,
           pc' # "idle" => UNCHANGED req
    PROVE  AtMostOnce' /\ ClaimHeld'
<1>1. T \in Tenants /\ A \in Actions /\ Hash \in Hashes
  BY RequestType DEF OnceInv
<1>2. /\ \A h \in Hashes : byHash[h] # "NONE" => byHash'[h] # "NONE"
      /\ \A p \in Tenants \X Nonces : byNonce[p] # NoAction => byNonce'[p] = byNonce[p]
  BY <1>1, RegistryGrows DEF OnceInv
<1>3. AtMostOnce'
  BY DEF OnceInv, AtMostOnce
<1>4. ASSUME NEW t \in Tenants, NEW a \in Actions, submits'[<<t, a>>] > 0
      PROVE  /\ tenants'[t] # "unborn"
             /\ Alive(t)' => /\ byHash'[<<t, a>>] # "NONE"
                             /\ byNonce'[<<t, Attr[a].nonce>>] = a
  <2>1. <<t, a>> \in Hashes /\ <<t, Attr[a].nonce>> \in Tenants \X Nonces /\ a # NoAction
    BY RegistryAssumption DEF Hashes, Nonces
  <2>2. /\ tenants[t] # "unborn"
        /\ Alive(t) => byHash[<<t, a>>] # "NONE" /\ byNonce[<<t, Attr[a].nonce>>] = a
    BY <1>4 DEF OnceInv, ClaimHeld
  <2> QED
    BY <1>2, <2>1, <2>2 DEF Alive
<1>5. pc' # "idle" => Alive(T)'
  BY DEF OnceInv, ClaimHeld, Alive, T
<1>6. pc' \in {"settle", "sign", "submit"} =>
         /\ submits'[Hash'] = 0
         /\ byHash'[Hash'] # "NONE" /\ byNonce'[<<T', Attr[A'].nonce>>] = A'
  BY DEF Hash, T, A, B
<1> QED
  BY <1>3, <1>4, <1>5, <1>6 DEF ClaimHeld

(* The submission itself: the claim says that neither this action nor      *)
(* another one with its nonce was submitted before.                        *)
LEMMA SubmitFresh ==
    ASSUME OnceInv, Submit
    PROVE  /\ T \in Tenants /\ A \in Actions /\ Hash = <<T, A>> /\ Hash \in Hashes
           /\ submits[Hash] = 0
           /\ \A b \in Actions : Attr[b].nonce = Attr[A].nonce => submits[<<T, b>>] = 0
<1>1. pc = "submit"
  BY DEF Submit
<1>2. T \in Tenants /\ A \in Actions /\ Hash \in Hashes
  BY <1>1, RequestType DEF OnceInv
<1>3. /\ submits[Hash] = 0 /\ byNonce[<<T, Attr[A].nonce>>] = A /\ Alive(T)
  BY <1>1 DEF OnceInv, ClaimHeld
<1>4. ASSUME NEW b \in Actions, Attr[b].nonce = Attr[A].nonce
      PROVE  submits[<<T, b>>] = 0
  <2>1. submits[<<T, b>>] \in Nat
    BY <1>2 DEF OnceInv, TypeOK, Hashes
  <2>2. CASE submits[<<T, b>>] > 0
    <3>1. b = A
      BY <1>2, <1>3, <1>4, <2>2 DEF OnceInv, ClaimHeld
    <3> QED
      BY <1>3, <3>1 DEF Hash
  <2> QED
    BY <2>1, <2>2
<1> QED
  BY <1>2, <1>3, <1>4 DEF Hash

(* The submission: the only step that changes what AtMostOnce counts. *)
LEMMA OnceSubmit ==
    ASSUME OnceInv, Submit, UNCHANGED tenants
    PROVE  AtMostOnce' /\ ClaimHeld'
<1>1. /\ T \in Tenants /\ A \in Actions /\ Hash = <<T, A>> /\ Hash \in Hashes
      /\ submits[Hash] = 0
      /\ \A b \in Actions : Attr[b].nonce = Attr[A].nonce => submits[<<T, b>>] = 0
  BY SubmitFresh
<1>2. submits' = [submits EXCEPT ![Hash] = 1] /\ submits \in [Hashes -> Nat]
  BY <1>1 DEF Submit, OnceInv, TypeOK
<1>3. /\ pc = "submit" /\ pc' = "reconcile" /\ req' = req
      /\ Advance(T, A, "SUBMITTED")
  BY DEF Submit, Proceed
<1>4. \A t \in Tenants, a \in Actions : <<t, a>> \in Hashes
  BY DEF Hashes
<1>5. AtMostOnce'
  <2>1. \A h \in Hashes : submits'[h] <= 1
    BY <1>1, <1>2 DEF OnceInv, AtMostOnce
  <2>2. ASSUME NEW t \in Tenants, NEW a \in Actions, NEW b \in Actions,
               submits'[<<t, a>>] > 0, submits'[<<t, b>>] > 0,
               Attr[a].nonce = Attr[b].nonce
        PROVE  a = b
    <3>1. CASE t # T
      BY <1>1, <1>2, <1>4, <2>2, <3>1 DEF OnceInv, AtMostOnce
    <3>2. CASE t = T
      <4>1. a # A => submits[<<T, a>>] > 0
        BY <1>1, <1>2, <1>4, <2>2, <3>2
      <4>2. b # A => submits[<<T, b>>] > 0
        BY <1>1, <1>2, <1>4, <2>2, <3>2
      <4>3. CASE a # A /\ b # A
        BY <1>1, <2>2, <4>1, <4>2, <4>3 DEF OnceInv, AtMostOnce
      <4>4. CASE a = A \/ b = A
        BY <1>1, <2>2, <4>1, <4>2, <4>4
      <4> QED
        BY <4>3, <4>4
    <3> QED
      BY <3>1, <3>2
  <2> QED
    BY <2>1, <2>2 DEF AtMostOnce
<1>6. ASSUME NEW t \in Tenants, NEW a \in Actions, submits'[<<t, a>>] > 0
      PROVE  /\ tenants'[t] # "unborn"
             /\ Alive(t)' => /\ byHash'[<<t, a>>] # "NONE"
                             /\ byNonce'[<<t, Attr[a].nonce>>] = a
  <2>1. /\ \A h \in Hashes : byHash[h] # "NONE" => byHash'[h] # "NONE"
        /\ \A p \in Tenants \X Nonces : byNonce[p] # NoAction => byNonce'[p] = byNonce[p]
    BY <1>1, <1>3, RegistryGrows DEF OnceInv
  <2>2. <<t, a>> \in Hashes /\ <<t, Attr[a].nonce>> \in Tenants \X Nonces /\ a # NoAction
    BY RegistryAssumption DEF Hashes, Nonces
  <2>3. /\ tenants[t] # "unborn"
        /\ Alive(t) => byHash[<<t, a>>] # "NONE" /\ byNonce[<<t, Attr[a].nonce>>] = a
    <3>1. CASE <<t, a>> = Hash
      BY <1>1, <1>3, <3>1 DEF OnceInv, ClaimHeld, Alive
    <3>2. CASE <<t, a>> # Hash
      BY <1>1, <1>2, <1>6, <2>2, <3>2 DEF OnceInv, ClaimHeld
    <3> QED
      BY <3>1, <3>2
  <2> QED
    BY <2>1, <2>2, <2>3 DEF Alive
<1>7. Alive(T)'
  BY <1>3 DEF OnceInv, ClaimHeld, Alive, T
<1> QED
  BY <1>3, <1>5, <1>6, <1>7 DEF ClaimHeld

(* Layers 5 to 10 preserve both parts. *)
LEMMA OnceExecute ==
    ASSUME OnceInv, Execute
    PROVE  AtMostOnce' /\ ClaimHeld'
<1>1. UNCHANGED tenants
  BY DEF Execute, envVars
<1>2. pc \in {"settle", "sign"} =>
         submits[Hash] = 0 /\ byHash[Hash] # "NONE" /\ byNonce[<<T, Attr[A].nonce>>] = A
  BY DEF OnceInv, ClaimHeld
<1>3. pc # "idle" => /\ T \in Tenants /\ A \in Actions /\ Hash \in Hashes /\ Hash = <<T, A>>
                     /\ <<T, Attr[A].nonce>> \in Tenants \X Nonces
  BY RequestType DEF OnceInv, Hash
<1>4. CASE ReplayRefuse
  BY <1>1, <1>4, OnceRegistry DEF ReplayRefuse, Finish
<1>5. CASE ReplayPass
  <2>1. pc = "replay" /\ pc' = "settle" /\ Register(T, A, now) /\ UNCHANGED <<req, submits>>
    BY <1>5 DEF ReplayPass
  <2>2. byHash'[Hash] # "NONE" /\ byNonce'[<<T, Attr[A].nonce>>] = A
    BY <1>3, <2>1 DEF Register, Insert, OnceInv, TypeOK, RegistryTypeOK
  <2>3. submits[Hash] = 0
    <3>1. submits[Hash] \in Nat /\ byHash[Hash] = "NONE" /\ Alive(T)
      BY <1>3, <2>1 DEF OnceInv, TypeOK, ClaimHeld, Register, Seen
    <3> QED
      BY <1>3, <2>1, <3>1 DEF OnceInv, ClaimHeld
  <2> QED
    BY <1>1, <2>1, <2>2, <2>3, OnceRegistry
<1>6. CASE SettleRefuse \/ VelocityRefuse \/ SignerFails
  <2>1. /\ pc # "idle" /\ pc' = "idle" /\ UNCHANGED <<submits, registryVars>>
    BY <1>6 DEF SettleRefuse, VelocityRefuse, SignerFails, Finish
  <2> QED
    BY <1>1, <2>1, OnceRegistry
<1>7. CASE SettlePass
  <2>1. pc = "settle" /\ UNCHANGED <<req, submits, registryVars>> /\ byHash' = byHash /\ byNonce' = byNonce
    BY <1>7 DEF SettlePass, registryVars
  <2> QED
    BY <1>1, <1>2, <2>1, OnceRegistry
<1>8. CASE Sign
  <2>1. pc = "sign" /\ UNCHANGED <<req, submits>> /\ Advance(T, A, "SIGNED")
    BY <1>8 DEF Sign, Proceed
  <2>2. byHash'[Hash] # "NONE" /\ byNonce' = byNonce
    BY <1>3, <2>1 DEF Advance, OnceInv, TypeOK, RegistryTypeOK
  <2> QED
    BY <1>1, <1>2, <2>1, <2>2, OnceRegistry
<1>9. CASE Submit
  BY <1>1, <1>9, OnceSubmit
<1>10. CASE \E code \in VenueCodes : Reconcile(code)
  <2>1. /\ pc # "idle" /\ pc' = "idle" /\ UNCHANGED <<submits, registryVars>>
    BY <1>10 DEF Reconcile, Finish
  <2> QED
    BY <1>1, <2>1, OnceRegistry
<1> QED
  BY <1>4, <1>5, <1>6, <1>7, <1>8, <1>9, <1>10 DEF Execute

(* Every step preserves the inductive invariant. *)
LEMMA OnceStep == OnceInv /\ [Next]_vars => OnceInv'
<1> SUFFICES ASSUME OnceInv, [Next]_vars PROVE AtMostOnce' /\ ClaimHeld'
  BY TypeStep DEF OnceInv
<1>1. CASE \E r \in Requests : Arrive(r)
  <2>1. PICK r \in Requests : Arrive(r)
    BY <1>1
  <2>2. /\ pc' = "gate" /\ req' = r /\ UNCHANGED <<byHash, byNonce, submits, tenants>>
        /\ Alive(r.tenant)
    BY <2>1 DEF Arrive
  <2>3. tenants'[req'.tenant] \in {"sim", "live"}
    BY <2>2 DEF Alive
  <2> QED
    BY <2>2, <2>3, OnceFrame
<1>2. CASE Gate \/ Evaluate
  <2>1. /\ pc # "idle" /\ UNCHANGED <<registryVars, submits, tenants, breaker, boots>>
        /\ pc' \in {"idle", "breaker", "epistemic", "hygiene", "risk", "human", "replay"}
        /\ pc' # "idle" => UNCHANGED req
    BY <1>2, GateStays
  <2>2. pc' # "idle" => tenants'[req'.tenant] \in {"sim", "live"}
    BY <2>1 DEF OnceInv, ClaimHeld, Alive, T
  <2>3. UNCHANGED <<byHash, byNonce, submits, tenants>>
    BY <2>1 DEF registryVars
  <2> QED
    BY <2>1, <2>2, <2>3, OnceFrame
<1>3. CASE Execute
  BY <1>3, OnceExecute
<1>4. CASE SafetyVerb \/ KeyOperation \/ Tick \/ UNCHANGED vars
  <2>1. UNCHANGED <<byHash, byNonce, submits, tenants, pc, req>>
    BY <1>4 DEF SafetyVerb, KeyOperation, Tick, vars, registryVars, loopVars
  <2>2. pc' # "idle" => tenants'[req'.tenant] \in {"sim", "live"}
    BY <2>1 DEF OnceInv, ClaimHeld, Alive, T
  <2> QED
    BY <2>1, <2>2, OnceFrame
<1>5. CASE \E t \in Tenants, kind \in {"sim", "live"} : CreateTenant(t, kind)
  <2>1. PICK t \in Tenants, kind \in {"sim", "live"} : CreateTenant(t, kind)
    BY <1>5
  <2>2. /\ UNCHANGED <<byHash, byNonce, submits, pc, req>>
        /\ tenants' = [tenants EXCEPT ![t] = kind] /\ tenants[t] = "unborn"
    BY <2>1 DEF CreateTenant, registryVars, loopVars
  <2>3. tenants \in [Tenants -> {"unborn", "sim", "live", "gone"}]
    BY DEF OnceInv, TypeOK
  <2>4. AtMostOnce'
    BY <2>2 DEF OnceInv, AtMostOnce
  <2>5. ASSUME NEW u \in Tenants, NEW a \in Actions, submits'[<<u, a>>] > 0
        PROVE  /\ tenants'[u] # "unborn"
               /\ Alive(u)' => /\ byHash'[<<u, a>>] # "NONE"
                               /\ byNonce'[<<u, Attr[a].nonce>>] = a
    <3>1. u # t
      BY <2>2, <2>5 DEF OnceInv, ClaimHeld
    <3> QED
      BY <2>2, <2>3, <2>5, <3>1 DEF OnceInv, ClaimHeld, Alive
  <2>6. pc' # "idle" => Alive(T)'
    <3> SUFFICES ASSUME pc' # "idle" PROVE Alive(T)'
      OBVIOUS
    <3>1. T \in Tenants /\ Alive(T) /\ T' = T
      BY <2>2, RequestType DEF OnceInv, ClaimHeld, T
    <3> QED
      BY <2>2, <2>3, <3>1 DEF Alive
  <2>7. Hash' = Hash /\ T' = T /\ A' = A
    BY <2>2 DEF Hash, T, A, B
  <2> QED
    BY <2>2, <2>4, <2>5, <2>6, <2>7 DEF OnceInv, ClaimHeld
<1>6. CASE Restart
  <2>1. /\ pc' = "idle" /\ UNCHANGED submits
        /\ tenants' = [t \in Tenants |-> IF Alive(t) THEN "gone" ELSE tenants[t]]
    BY <1>6 DEF Restart, Finish
  <2>2. AtMostOnce'
    BY <2>1 DEF OnceInv, AtMostOnce
  <2>3. \A t \in Tenants : /\ ~(tenants'[t] \in {"sim", "live"})
                           /\ tenants'[t] = "unborn" => tenants[t] = "unborn"
    BY <2>1 DEF Alive
  <2> QED
    BY <2>1, <2>2, <2>3 DEF OnceInv, ClaimHeld, Alive
<1> QED
  BY <1>1, <1>2, <1>3, <1>4, <1>5, <1>6 DEF Next, Handler

(* The venue never sees an action twice, nor two actions of a tenant under *)
(* one nonce, with either registry, whatever is refused, expires or        *)
(* restarts in between.                                                    *)
THEOREM ExecutesAtMostOnce == Spec => []AtMostOnce
<1>1. Init => OnceInv
  BY OnceInit
<1>2. OnceInv /\ [Next]_vars => OnceInv'
  BY OnceStep
<1>3. OnceInv => AtMostOnce
  BY DEF OnceInv
<1> QED
  BY <1>1, <1>2, <1>3, PTL DEF Spec

-----------------------------------------------------------------------------
(* The operator's halt. *)

(* A handler past the check keeps the breaker closed: a halt needs the loop. *)
LEMMA HaltStep == TypeOK /\ HaltIsFinal /\ [Next]_vars => HaltIsFinal'
<1> DEFINE Inside == Stages \ {"idle", "gate", "breaker"}
<1> SUFFICES ASSUME TypeOK, HaltIsFinal, [Next]_vars, pc' \in Inside
             PROVE  ~breaker'
  BY DEF HaltIsFinal
<1>0. pc \in Inside => ~breaker
  BY DEF HaltIsFinal
<1>1. CASE \E r \in Requests : Arrive(r)
  BY <1>1 DEF Arrive
<1>2. CASE Gate
  <2>1. CASE CheckBreaker
    <3>1. ~breaker
      BY <2>1 DEF CheckBreaker, Finish
    <3>2. breaker' = breaker
      BY <1>2 DEF Gate
    <3> QED
      BY <3>1, <3>2
  <2>2. CASE GateDormant \/ GateRefuse \/ GateAccept
    BY <2>2 DEF GateDormant, GateRefuse, GateAccept, Finish
  <2> QED
    BY <1>2, <2>1, <2>2 DEF Gate
<1>3. CASE Evaluate
  <2>1. breaker' = breaker
    BY <1>3 DEF Evaluate
  <2>2. pc \in Inside
    BY <1>3 DEF Evaluate, Stages, StructureRefuse, EpistemicRefuse, EpistemicPass,
           HygienePass, HygieneRefuse, DowngradeRefuse, DowngradePartial,
           DowngradeRelease, RiskRefuse, RiskPass, HumanRefuse, HumanPass
  <2> QED
    BY <1>0, <2>1, <2>2
<1>4. CASE Execute
  <2>1. breaker' = breaker
    BY <1>4 DEF Execute
  <2>2. pc \in Inside
    BY <1>4 DEF Execute, Stages, ReplayRefuse, ReplayPass, SettleRefuse, SettlePass,
           VelocityRefuse, SignerFails, Sign, Submit, Reconcile
  <2> QED
    BY <1>0, <2>1, <2>2
<1>5. CASE SafetyVerb
  <2>1. pc = "idle" /\ pc' = pc
    BY <1>5 DEF SafetyVerb, SafetyHalt, SafetyResume, loopVars
  <2> QED
    BY <2>1
<1>6. CASE \/ KeyOperation \/ Tick \/ UNCHANGED vars
           \/ \E t \in Tenants, kind \in {"sim", "live"} : CreateTenant(t, kind)
  <2>1. pc' = pc /\ breaker' = breaker
    BY <1>6 DEF KeyOperation, Tick, CreateTenant, vars, loopVars
  <2> QED
    BY <1>0, <2>1
<1>7. CASE Restart
  BY <1>7 DEF Restart, Finish
<1> QED
  BY <1>1, <1>2, <1>3, <1>4, <1>5, <1>6, <1>7 DEF Next, Handler

(* Once the handler has read a closed breaker, it stays closed until the   *)
(* request is answered: no action is signed or submitted after a halt.     *)
THEOREM HaltHolds == Spec => []HaltIsFinal
<1>1. Init => HaltIsFinal
  BY DEF Init, HaltIsFinal
<1>2. TypeOK /\ HaltIsFinal /\ [Next]_vars => HaltIsFinal'
  BY HaltStep
<1> QED
  BY <1>1, <1>2, TypeCorrect, PTL DEF Spec

-----------------------------------------------------------------------------
(* The owner of a nonce. *)

(* No step within a process hands a nonce to another action. *)
LEMMA OwnershipStep ==
    ASSUME TypeOK, [Next]_vars, boots' = boots
    PROVE  \A p \in Tenants \X Nonces : byNonce[p] # NoAction => byNonce'[p] = byNonce[p]
<1>1. CASE Execute
  <2>1. CASE UNCHANGED registryVars
    BY <2>1 DEF registryVars
  <2>2. CASE ReplayRefuse \/ ReplayPass \/ Sign \/ Submit
    <3>1. pc # "idle"
      BY <2>2 DEF ReplayRefuse, ReplayPass, Sign, Submit
    <3>2. T \in Tenants /\ A \in Actions
      BY <3>1, RequestType
    <3>3. \E n : \/ Register(T, A, n) \/ RefuseExpired(T, A, n) \/ RefuseReplay(T, A, n)
                 \/ Advance(T, A, "SIGNED") \/ Advance(T, A, "SUBMITTED")
      BY <2>2 DEF ReplayRefuse, ReplayPass, Sign, Submit
    <3> QED
      BY <3>2, <3>3, RegistryGrows
  <2> QED
    BY <1>1, <2>1, <2>2 DEF Execute, SettleRefuse, SettlePass, VelocityRefuse, SignerFails, Reconcile
<1>2. CASE ~Execute
  <2>1. ~Restart
    BY DEF Restart, TypeOK
  <2>2. Gate \/ Evaluate => byNonce' = byNonce
    BY GateStays DEF registryVars
  <2>3. byNonce' = byNonce
    BY <1>2, <2>1, <2>2 DEF Next, Handler, Arrive, SafetyVerb, KeyOperation,
                            CreateTenant, Tick, vars, registryVars
  <2> QED
    BY <2>3
<1> QED
  BY <1>1, <1>2

(* While a process runs, no request takes a nonce from the action that     *)
(* owns it, not even an expired action that the registry on disk records.  *)
THEOREM OwnershipHolds == Spec => NonceOwnershipStable
<1>1. TypeOK /\ [Next]_vars =>
         [boots' = boots =>
            \A p \in Tenants \X Nonces :
               byNonce[p] # NoAction => byNonce'[p] = byNonce[p]]_vars
  BY OwnershipStep
<1> QED
  BY <1>1, TypeCorrect, PTL DEF Spec, NonceOwnershipStable

-----------------------------------------------------------------------------
(* The gateway implements ExecuteOnce, with submits for count and breaker  *)
(* for halted.                                                             *)

(* Initial states map to initial states of ExecuteOnce. *)
LEMMA PromiseInit == Init => Promise!Init
BY DEF Init, Promise!Init, Hashes

(* Every step maps to a step of ExecuteOnce or to a stutter. *)
LEMMA PromiseStep ==
    ASSUME OnceInv, HaltIsFinal, [Next]_vars
    PROVE  [Promise!Next]_<<submits, breaker>>
<1>1. CASE Submit /\ UNCHANGED breaker
  <2>1. pc = "submit"
    BY <1>1 DEF Submit
  <2>2. ~breaker
    BY <2>1 DEF HaltIsFinal, Stages
  <2>3. /\ T \in Tenants /\ A \in Actions /\ Hash = <<T, A>> /\ Hash \in Hashes
        /\ submits[Hash] = 0
        /\ \A b \in Actions : Attr[b].nonce = Attr[A].nonce => submits[<<T, b>>] = 0
    BY <1>1, SubmitFresh
  <2>4. submits' = [submits EXCEPT ![<<T, A>>] = 1]
    BY <1>1, <2>3 DEF Submit, OnceInv, TypeOK
  <2>5. Promise!Execute(T, A)
    BY <1>1, <2>2, <2>3, <2>4 DEF Promise!Execute
  <2> QED
    BY <2>3, <2>5 DEF Promise!Next
<1>2. CASE UNCHANGED submits
  <2>1. CASE breaker' = breaker
    BY <1>2, <2>1
  <2>2. CASE breaker' = ~breaker
    BY <1>2, <2>2 DEF Promise!Next, Promise!Switch
  <2>3. breaker \in BOOLEAN /\ breaker' \in BOOLEAN
    BY TypeStep DEF OnceInv, TypeOK
  <2> QED
    BY <2>1, <2>2, <2>3
<1>3. Execute => (Submit /\ UNCHANGED breaker) \/ UNCHANGED submits
  BY DEF Execute, ReplayRefuse, ReplayPass, SettleRefuse, SettlePass, VelocityRefuse,
         SignerFails, Sign, Reconcile
<1>4. Gate \/ Evaluate => UNCHANGED submits
  BY GateStays
<1> QED
  BY <1>1, <1>2, <1>3, <1>4 DEF Next, Handler, Arrive, SafetyVerb, KeyOperation,
                              CreateTenant, Tick, Restart, vars

(* What the venue sees of the gateway is a behaviour of ExecuteOnce. *)
THEOREM Implementation == Spec => ImplementsExecuteOnce
<1>1. Init => Promise!Init
  BY PromiseInit
<1>2. OnceInv /\ HaltIsFinal /\ [Next]_vars => [Promise!Next]_<<submits, breaker>>
  BY PromiseStep
<1>3. Init => OnceInv
  BY OnceInit
<1>4. OnceInv /\ [Next]_vars => OnceInv'
  BY OnceStep
<1> QED
  BY <1>1, <1>2, <1>3, <1>4, HaltHolds, PTL DEF Spec, ImplementsExecuteOnce, Promise!Spec

-----------------------------------------------------------------------------
(* What the layers establish, one after the other. *)

Judged == {"hygiene", "risk", "human", "replay", "settle", "sign", "submit", "reconcile"}
Cleared == Judged \ {"hygiene"}
Assessed == Cleared \ {"risk"}
Approved == Assessed \ {"human"}
Granted == {"sign", "submit", "reconcile"}

(* The downgrade releases every violation of this very action. *)
Released(d, codes) ==
    /\ d # NoRecord /\ d.hash = Hash /\ d.released = codes
    /\ d.signer \in eligible
    /\ codes \cap SecondOpCodes # {} => d.second \in eligible \ {d.signer}

(* The keys that are active now were active at some point of the request,  *)
(* and every layer that is passed has left its fact.                       *)
GrantInv ==
    /\ pc # "idle" => ActivePems(ring[T], clock) \subseteq eligible
    /\ downgraded => pc \in Cleared /\ Violations(B) # {}
    /\ pc \in Judged =>
          /\ Attr[A].wellFormed /\ ~B.denied /\ Attr[A].capability # "other"
          /\ B.human => verdict = "HUMAN"
    /\ pc \in Cleared => (Violations(B) # {} => Released(B.downgrade, Violations(B)))
    /\ pc \in Assessed => Attr[A].riskOk
    /\ pc \in Approved => (B.human => Violations(B) # {} \/ ApprovalBinds(B.approval, Hash))
    /\ pc \in Granted =>
          /\ ~B.pii
          /\ Attr[A].capability = "chain_settle" /\ tenants[T] = "live" => Attr[A].size = "small"

(* Adding a key makes at most that key active. *)
LEMMA AddActive ==
    ASSUME NEW g \in Seq(Entry), NEW k \in Keys, NEW x \in Nat \cup {NoExpiry}, NEW n
    PROVE  ActivePems(Add(g, k, x), n) \subseteq ActivePems(g, n) \cup {k}
<1> DEFINE e == [pem |-> k, expires |-> x, revoked |-> FALSE]
<1>1. e \in Entry /\ e.pem = k
  BY DEF Entry
<1>2. Add(g, k, x) = Append(g, e)
  BY DEF Add
<1> HIDE DEF e
<1>3. /\ Len(g) \in Nat /\ DOMAIN g = 1..Len(g)
      /\ DOMAIN Append(g, e) = 1..(Len(g) + 1)
      /\ \A i \in 1..Len(g) : Append(g, e)[i] = g[i]
      /\ Append(g, e)[Len(g) + 1] = e
  <2>1. Len(g) \in Nat /\ DOMAIN g = 1..Len(g)
    BY LenProperties
  <2>2. /\ Append(g, e) \in Seq(Entry) /\ Len(Append(g, e)) = Len(g) + 1
        /\ \A i \in 1..Len(g) : Append(g, e)[i] = g[i]
        /\ Append(g, e)[Len(g) + 1] = e
    BY <1>1, AppendProperties
  <2>3. DOMAIN Append(g, e) = 1..(Len(g) + 1)
    BY <2>2, LenProperties
  <2> QED
    BY <2>1, <2>2, <2>3
<1>4. DOMAIN Append(g, e) = DOMAIN g \cup {Len(g) + 1}
  BY <1>3
<1> QED
  BY <1>1, <1>2, <1>3, <1>4 DEF ActivePems

(* Marking entries makes no key active. *)
LEMMA MarkActive ==
    ASSUME NEW g, NEW h, NEW n, DOMAIN h = DOMAIN g,
           \A i \in DOMAIN g : h[i].pem = g[i].pem /\ (IsActive(h[i], n) => IsActive(g[i], n))
    PROVE  ActivePems(h, n) \subseteq ActivePems(g, n)
BY DEF ActivePems

(* Revoking makes no key active. *)
LEMMA RevokeActive ==
    ASSUME NEW g \in Seq(Entry), NEW k, NEW n
    PROVE  ActivePems(Revoke(g, k), n) \subseteq ActivePems(g, n)
<1>1. \A i \in DOMAIN g : g[i] \in Entry
  BY LenProperties, ElementOfSeq
<1>2. \A e \in Entry : [e EXCEPT !.revoked = TRUE].pem = e.pem
                       /\ ~IsActive([e EXCEPT !.revoked = TRUE], n)
  BY DEF Entry, IsActive
<1> DEFINE h == Revoke(g, k)
<1>3. /\ DOMAIN h = DOMAIN g
      /\ \A i \in DOMAIN g : h[i] = g[i] \/ h[i] = [g[i] EXCEPT !.revoked = TRUE]
  BY DEF Revoke
<1> HIDE DEF h
<1>4. \A i \in DOMAIN g : h[i].pem = g[i].pem /\ (IsActive(h[i], n) => IsActive(g[i], n))
  BY <1>1, <1>2, <1>3
<1>5. ActivePems(h, n) \subseteq ActivePems(g, n)
  BY <1>3, <1>4, MarkActive
<1> QED
  BY <1>5 DEF h

(* Rotating makes at most the new key active. *)
LEMMA RotateActive ==
    ASSUME NEW g \in Seq(Entry), NEW k \in Keys, NEW old, NEW grace \in {0, 1}, NEW n \in Nat
    PROVE  ActivePems(Rotate(g, k, old, NoExpiry, grace, n), n) \subseteq ActivePems(g, n) \cup {k}
<1> DEFINE grown == Add(g, k, NoExpiry)
           h == Rotate(g, k, old, NoExpiry, grace, n)
<1>1. grown \in Seq(Entry)
  BY AddType
<1>2. \A i \in DOMAIN grown : grown[i] \in Entry
  BY <1>1, LenProperties, ElementOfSeq
<1>3. \A e \in Entry : Retire(e, grace, n).pem = e.pem
                       /\ (IsActive(Retire(e, grace, n), n) => IsActive(e, n))
  BY DEF Entry, IsActive, IsExpired, Retire
<1>4. /\ DOMAIN h = DOMAIN grown
      /\ \A i \in DOMAIN grown : h[i] \in {grown[i], Retire(grown[i], grace, n)}
  BY DEF Rotate
<1>5. ActivePems(grown, n) \subseteq ActivePems(g, n) \cup {k}
  BY AddActive
<1> HIDE DEF grown, h
<1>6. ActivePems(h, n) \subseteq ActivePems(grown, n)
  BY <1>2, <1>3, <1>4, MarkActive
<1> QED
  BY <1>5, <1>6 DEF h

(* Time makes no key active. *)
LEMMA TickActive ==
    ASSUME NEW g \in Seq(Entry), NEW n \in Nat
    PROVE  ActivePems(g, n + 1) \subseteq ActivePems(g, n)
<1>1. \A i \in DOMAIN g : g[i] \in Entry
  BY LenProperties, ElementOfSeq
<1>2. \A e \in Entry : IsActive(e, n + 1) => IsActive(e, n)
  BY DEF Entry, IsActive, IsExpired
<1> QED
  BY <1>1, <1>2 DEF ActivePems

(* Leaving the handler leaves nothing to show. *)
LEMMA GrantFinish == Finish => GrantInv'
BY DEF Finish, GrantInv, Judged, Cleared, Assessed, Approved, Granted

(* The loop stays where it is, and a key that becomes active is eligible. *)
LEMMA GrantFrame ==
    ASSUME GrantInv, UNCHANGED <<pc, req, verdict, downgraded>>,
           eligible \subseteq eligible',
           pc # "idle" => /\ tenants'[T] = tenants[T]
                          /\ ActivePems(ring'[T], clock') \subseteq eligible'
    PROVE  GrantInv'
<1>1. T' = T /\ B' = B /\ A' = A /\ Hash' = Hash
  BY DEF T, B, A, Hash
<1>2. Judged \subseteq {s \in Stages : s # "idle"} /\ Granted \subseteq {s \in Stages : s # "idle"}
  BY DEF Judged, Granted, Stages
<1>3. Released(B.downgrade, Violations(B)) => Released(B.downgrade, Violations(B))'
  BY <1>1 DEF Released, Violations
<1>4. Violations(B)' = Violations(B)
  BY <1>1 DEF Violations
<1>5. ApprovalBinds(B.approval, Hash)' <=> ApprovalBinds(B.approval, Hash)
  BY <1>1 DEF ApprovalBinds
<1> QED
  BY <1>1, <1>2, <1>3, <1>4, <1>5 DEF GrantInv

(* Key management on the worker threads. *)
LEMMA GrantKeys ==
    ASSUME TypeOK, GrantInv, KeyOperation
    PROVE  GrantInv'
<1>1. PICK s \in Scopes, k \in Keys :
         \/ \E expires \in {NoExpiry, clock + 1} : AddOperatorKey(s, k, expires)
         \/ RevokeOperatorKey(s, k)
         \/ \E old \in Keys, grace \in {0, 1} : RotateOperatorKey(s, k, old, grace)
  BY DEF KeyOperation
<1>2. UNCHANGED <<pc, req, verdict, downgraded, tenants, clock>>
  BY DEF KeyOperation, loopVars
<1>3. /\ ring[s] \in Seq(Entry) /\ ring \in [Scopes -> Seq(Entry)] /\ clock \in Nat
  BY DEF TypeOK
<1>4. PICK g, new : /\ ring' = [ring EXCEPT ![s] = g] /\ NowEligible(s, new)
                    /\ ActivePems(g, clock) \subseteq ActivePems(ring[s], clock) \cup new
  <2>1. CASE \E expires \in {NoExpiry, clock + 1} : AddOperatorKey(s, k, expires)
    <3>1. PICK expires \in {NoExpiry, clock + 1} :
             ring' = [ring EXCEPT ![s] = Add(@, k, expires)] /\ NowEligible(s, {k})
      BY <2>1 DEF AddOperatorKey
    <3>2. expires \in Nat \cup {NoExpiry}
      BY <1>3
    <3>3. ActivePems(Add(ring[s], k, expires), clock) \subseteq ActivePems(ring[s], clock) \cup {k}
      BY <1>3, <3>2, AddActive
    <3> QED
      BY <1>3, <3>1, <3>3
  <2>2. CASE RevokeOperatorKey(s, k)
    <3>1. ring' = [ring EXCEPT ![s] = Revoke(@, k)] /\ NowEligible(s, {})
      BY <2>2 DEF RevokeOperatorKey
    <3>2. ActivePems(Revoke(ring[s], k), clock) \subseteq ActivePems(ring[s], clock)
      BY <1>3, RevokeActive
    <3> QED
      BY <1>3, <3>1, <3>2
  <2>3. CASE \E old \in Keys, grace \in {0, 1} : RotateOperatorKey(s, k, old, grace)
    <3>1. PICK old \in Keys, grace \in {0, 1} :
             /\ ring' = [ring EXCEPT ![s] = Rotate(@, k, old, NoExpiry, grace, clock)]
             /\ NowEligible(s, {k})
      BY <2>3 DEF RotateOperatorKey
    <3>2. ActivePems(Rotate(ring[s], k, old, NoExpiry, grace, clock), clock)
             \subseteq ActivePems(ring[s], clock) \cup {k}
      BY <1>3, RotateActive
    <3> QED
      BY <1>3, <3>1, <3>2
  <2> QED
    BY <1>1, <2>1, <2>2, <2>3
<1>5. eligible \subseteq eligible'
  BY <1>4 DEF NowEligible
<1>6. ASSUME pc # "idle" PROVE ActivePems(ring'[T], clock') \subseteq eligible'
  <2>1. T \in Scopes /\ ActivePems(ring[T], clock) \subseteq eligible
    BY <1>6, RequestType DEF GrantInv, Scopes
  <2>2. CASE s = T
    <3>1. ring'[T] = g /\ eligible' = eligible \cup new
      BY <1>3, <1>4, <1>6, <2>2 DEF NowEligible
    <3> QED
      BY <1>2, <1>4, <2>1, <2>2, <3>1
  <2>3. CASE s # T
    <3>1. ring'[T] = ring[T]
      BY <1>3, <1>4, <2>1, <2>3
    <3> QED
      BY <1>2, <1>5, <2>1, <3>1
  <2> QED
    BY <2>2, <2>3
<1> QED
  BY <1>2, <1>5, <1>6, GrantFrame

(* The pipeline goes from one layer to the next. *)
LEMMA GrantPass ==
    ASSUME TypeOK, GrantInv, pc # "idle",
           UNCHANGED <<req, tenants, ring, clock, eligible>>,
           \/ EpistemicPass \/ HygienePass \/ DowngradeRelease \/ RiskPass \/ HumanPass
           \/ ReplayPass \/ SettlePass \/ Sign \/ Submit
    PROVE  GrantInv'
<1>0. /\ T \in Tenants /\ B \in Body /\ A \in Actions /\ Attr[A] \in ActionAttr
      /\ B.denied \in BOOLEAN /\ B.human \in BOOLEAN /\ B.pii \in BOOLEAN
      /\ Attr[A].size \in {"small", "large", "malformed"}
  BY RequestType DEF Body, ActionAttr
<1>1. T' = T /\ B' = B /\ A' = A /\ Hash' = Hash
  BY DEF T, B, A, Hash
<1>2. Violations(B)' = Violations(B)
  BY <1>1 DEF Violations
<1>3. Released(B.downgrade, Violations(B))' <=> Released(B.downgrade, Violations(B))
  BY <1>1, <1>2 DEF Released
<1>4. ApprovalBinds(B.approval, Hash)' <=> ApprovalBinds(B.approval, Hash)
  BY <1>1 DEF ApprovalBinds
<1>5. ActivePems(ring[T], clock)' \subseteq eligible'
  BY <1>1 DEF GrantInv
<1> USE DEF Judged, Cleared, Assessed, Approved, Granted
<1>6. CASE EpistemicPass
  <2>1. /\ pc = "epistemic" /\ pc' = "hygiene" /\ Attr[A].wellFormed
        /\ verdict' = Decide(B) /\ Decide(B) # "BLOCKED" /\ downgraded' = downgraded
    BY <1>6 DEF EpistemicPass, Proceed
  <2>2. ~B.denied /\ Attr[A].capability # "other" /\ (B.human => verdict' = "HUMAN")
    <3>1. ~(B.denied \/ Attr[A].capability = "other")
      BY <2>1 DEF Decide, A
    <3>2. B.human => Decide(B) = "HUMAN"
      BY <3>1 DEF Decide, A
    <3> QED
      BY <2>1, <3>1, <3>2
  <2>3. ~downgraded'
    BY <2>1 DEF GrantInv
  <2> QED
    BY <1>1, <1>5, <2>1, <2>2, <2>3 DEF GrantInv
<1>7. CASE HygienePass
  <2>1. /\ pc = "hygiene" /\ pc' = "risk" /\ Violations(B) = {}
        /\ verdict' = verdict /\ downgraded' = downgraded
    BY <1>7 DEF HygienePass, Proceed
  <2> QED
    BY <1>1, <1>2, <1>5, <2>1 DEF GrantInv
<1>8. CASE DowngradeRelease
  <2>1. /\ pc = "hygiene" /\ pc' = "risk" /\ DowngradeValid
        /\ Violations(B) \subseteq B.downgrade.released /\ verdict' = "HUMAN"
    BY <1>8 DEF DowngradeRelease, Proceed
  <2>2. Violations(B) # {} /\ Released(B.downgrade, Violations(B))
    BY <2>1 DEF DowngradeValid, ValidateDowngrade, Released, GrantInv
  <2> QED
    BY <1>1, <1>2, <1>3, <1>5, <2>1, <2>2 DEF GrantInv
<1>9. CASE RiskPass
  <2>1. /\ pc = "risk" /\ pc' = "human" /\ Attr[A].riskOk
        /\ verdict' = verdict /\ downgraded' = downgraded
    BY <1>9 DEF RiskPass, Proceed
  <2> QED
    BY <1>1, <1>2, <1>3, <1>5, <2>1 DEF GrantInv
<1>10. CASE HumanPass
  <2>1. /\ pc = "human" /\ pc' = "replay" /\ HumanSatisfied
        /\ verdict' = verdict /\ downgraded' = downgraded
    BY <1>10 DEF HumanPass, Proceed
  <2>2. B.human => Violations(B) # {} \/ ApprovalBinds(B.approval, Hash)
    BY <2>1 DEF HumanSatisfied, GrantInv
  <2> QED
    BY <1>1, <1>2, <1>3, <1>4, <1>5, <2>1, <2>2 DEF GrantInv
<1>11. CASE ReplayPass
  <2>1. /\ pc = "replay" /\ pc' = "settle"
        /\ verdict' = verdict /\ downgraded' = downgraded
    BY <1>11 DEF ReplayPass
  <2> QED
    BY <1>1, <1>2, <1>3, <1>4, <1>5, <2>1 DEF GrantInv
<1>12. CASE SettlePass
  <2>1. /\ pc = "settle" /\ pc' \in {"sign", "submit"} /\ SettlementOk(T, B)
        /\ verdict' = verdict /\ downgraded' = downgraded
    BY <1>12 DEF SettlePass
  <2>2. /\ ~B.pii
        /\ Attr[A].capability = "chain_settle" /\ tenants[T] = "live" => Attr[A].size = "small"
    BY <1>0, <2>1 DEF SettlementOk, WithinCeiling, A
  <2> QED
    BY <1>1, <1>2, <1>3, <1>4, <1>5, <2>1, <2>2 DEF GrantInv
<1>13. CASE Sign \/ Submit
  <2>1. /\ pc \in {"sign", "submit"} /\ pc' \in {"submit", "reconcile"}
        /\ verdict' = verdict /\ downgraded' = downgraded
    BY <1>13 DEF Sign, Submit, Proceed
  <2> QED
    BY <1>1, <1>2, <1>3, <1>4, <1>5, <2>1 DEF GrantInv
<1> QED
  BY <1>6, <1>7, <1>8, <1>9, <1>10, <1>11, <1>12, <1>13

(* Every step keeps what the layers established. *)
LEMMA GrantStep == OnceInv /\ GrantInv /\ [Next]_vars => GrantInv'
<1> SUFFICES ASSUME OnceInv, GrantInv, [Next]_vars PROVE GrantInv'
  OBVIOUS
<1>0. TypeOK /\ (pc # "idle" => T \in Tenants /\ T \in Scopes /\ Alive(T))
  BY RequestType DEF OnceInv, ClaimHeld, Scopes
<1> USE DEF Judged, Cleared, Assessed, Approved, Granted
<1>1. CASE \E r \in Requests : Arrive(r)
  <2>1. PICK r \in Requests : Arrive(r)
    BY <1>1
  <2>2. /\ pc = "idle" /\ pc' = "gate" /\ req' = r /\ UNCHANGED <<downgraded, ring, clock>>
        /\ eligible' = ActivePems(ring[r.tenant], clock)
    BY <2>1 DEF Arrive
  <2>3. ~downgraded'
    BY <2>2 DEF GrantInv
  <2>4. ActivePems(ring[T], clock)' \subseteq eligible'
    BY <2>2 DEF T
  <2> QED
    BY <2>2, <2>3, <2>4 DEF GrantInv
<1>2. CASE Gate
  <2>0. UNCHANGED <<ring, clock, eligible, tenants>>
    BY <1>2 DEF Gate, envVars, keyVars
  <2>1. CASE Finish
    BY <2>1, GrantFinish
  <2>2. CASE ~Finish
    <3>1. /\ pc \in {"gate", "breaker"} /\ pc' \in {"breaker", "epistemic"}
          /\ UNCHANGED <<req, downgraded>>
      BY <1>2, <2>2 DEF Gate, GateDormant, GateRefuse, GateAccept, CheckBreaker
    <3>2. ~downgraded' /\ ActivePems(ring[T], clock)' \subseteq eligible'
      BY <2>0, <3>1 DEF GrantInv, T
    <3> QED
      BY <3>1, <3>2 DEF GrantInv
  <2> QED
    BY <2>1, <2>2
<1>3. CASE Evaluate
  <2>0. UNCHANGED <<ring, clock, eligible, tenants>>
    BY <1>3 DEF Evaluate, envVars, keyVars
  <2>1. CASE Finish
    BY <2>1, GrantFinish
  <2>2. CASE ~Finish
    <3>1. EpistemicPass \/ HygienePass \/ DowngradeRelease \/ RiskPass \/ HumanPass
      BY <1>3, <2>2 DEF Evaluate, StructureRefuse, EpistemicRefuse, HygieneRefuse,
             DowngradeRefuse, DowngradePartial, RiskRefuse, HumanRefuse
    <3>2. pc # "idle" /\ UNCHANGED req
      BY <3>1 DEF EpistemicPass, HygienePass, DowngradeRelease, RiskPass, HumanPass, Proceed
    <3> QED
      BY <1>0, <2>0, <3>1, <3>2, GrantPass
  <2> QED
    BY <2>1, <2>2
<1>4. CASE Execute
  <2>0. UNCHANGED <<ring, clock, eligible, tenants>>
    BY <1>4 DEF Execute, envVars, keyVars
  <2>1. CASE Finish
    BY <2>1, GrantFinish
  <2>2. CASE ~Finish
    <3>1. ReplayPass \/ SettlePass \/ Sign \/ Submit
      BY <1>4, <2>2 DEF Execute, ReplayRefuse, SettleRefuse, VelocityRefuse, SignerFails,
             Reconcile
    <3>2. pc # "idle" /\ UNCHANGED req
      BY <3>1 DEF ReplayPass, SettlePass, Sign, Submit, Proceed
    <3> QED
      BY <1>0, <2>0, <3>1, <3>2, GrantPass
  <2> QED
    BY <2>1, <2>2
<1>5. CASE SafetyVerb \/ UNCHANGED vars
  <2>1. UNCHANGED <<pc, req, verdict, downgraded, ring, clock, eligible, tenants>>
    BY <1>5 DEF SafetyVerb, vars, loopVars, keyVars
  <2> QED
    BY <2>1, GrantFrame DEF GrantInv
<1>6. CASE KeyOperation
  BY <1>0, <1>6, GrantKeys
<1>7. CASE \E t \in Tenants, kind \in {"sim", "live"} : CreateTenant(t, kind)
  <2>1. PICK t \in Tenants, kind \in {"sim", "live"} : CreateTenant(t, kind)
    BY <1>7
  <2>2. /\ UNCHANGED <<pc, req, verdict, downgraded, ring, clock, eligible>>
        /\ tenants' = [tenants EXCEPT ![t] = kind] /\ tenants[t] = "unborn"
    BY <2>1 DEF CreateTenant, loopVars, keyVars
  <2>3. pc # "idle" => tenants'[T] = tenants[T]
    BY <1>0, <2>2 DEF TypeOK, Alive
  <2> QED
    BY <2>2, <2>3, GrantFrame DEF GrantInv
<1>8. CASE Tick
  <2>1. /\ UNCHANGED <<pc, req, verdict, downgraded, ring, eligible, tenants>>
        /\ clock' = clock + 1 /\ clock \in Nat
    BY <1>0, <1>8 DEF Tick, loopVars, keyVars, TypeOK
  <2>2. pc # "idle" => ActivePems(ring[T], clock + 1) \subseteq ActivePems(ring[T], clock)
    <3>1. pc # "idle" => ring[T] \in Seq(Entry)
      BY <1>0 DEF TypeOK
    <3> QED
      BY <2>1, <3>1, TickActive
  <2>3. pc # "idle" => ActivePems(ring'[T], clock') \subseteq eligible'
    BY <2>1, <2>2 DEF GrantInv
  <2> QED
    BY <2>1, <2>3, GrantFrame
<1>9. CASE Restart
  BY <1>9, GrantFinish DEF Restart
<1> QED
  BY <1>1, <1>2, <1>3, <1>4, <1>5, <1>6, <1>7, <1>8, <1>9 DEF Next, Handler

(* An action past the settlement gate satisfies every layer's condition,   *)
(* and what released its violations was signed by keys that were active at *)
(* some point of the request, whatever key management did meanwhile.       *)
THEOREM GrantsAreSound == Spec => []GrantSound
<1>1. Init => OnceInv /\ GrantInv
  <2> SUFFICES ASSUME Init PROVE OnceInv /\ GrantInv
    OBVIOUS
  <2>1. pc = "idle" /\ ~downgraded
    BY DEF Init
  <2> QED
    BY <2>1, OnceInit DEF GrantInv, Judged, Cleared, Assessed, Approved, Granted
<1>2. GrantInv => GrantSound
  BY DEF GrantInv, GrantSound, Released, Judged, Cleared, Assessed, Approved, Granted
<1>3. OnceInv /\ GrantInv /\ [Next]_vars => (OnceInv /\ GrantInv)'
  BY OnceStep, GrantStep
<1> QED
  BY <1>1, <1>2, <1>3, PTL DEF Spec

-----------------------------------------------------------------------------
(* The rate of live signatures. *)

(* A signature that is still in the window still has its slot. *)
VelocityInv ==
    /\ VelocityBound
    /\ IsFiniteSet(times)
    /\ \A s \in signs : s[1] <= MonoNow
    /\ \A s \in signs : MonoNow - s[1] <= Window => s \in times

(* One more element. *)
LEMMA OneMore ==
    ASSUME NEW S, IsFiniteSet(S), NEW x, NEW U, U = S \cup {x}
    PROVE  /\ IsFiniteSet(U) /\ Cardinality(U) \in Nat /\ Cardinality(S) \in Nat
           /\ Cardinality(U) = Cardinality(S) \/ Cardinality(U) = Cardinality(S) + 1
<1>1. IsFiniteSet(U) /\ Cardinality(U) = IF x \in S THEN Cardinality(S) ELSE Cardinality(S) + 1
  BY FS_AddElement
<1>2. Cardinality(U) \in Nat /\ Cardinality(S) \in Nat
  BY <1>1, FS_CardinalityType
<1> QED
  BY <1>1, <1>2

(* The signatures in the window that ends at t. *)
Recent(t) == {u \in signs : u[1] <= t /\ t - u[1] <= Window}

(* The monotonic clock does not go back. *)
LEMMA MonoGrows ==
    ASSUME TypeOK, Tick
    PROVE  MonoNow <= MonoNow'
<1>1. clock - bootAt \in Nat /\ (clock' - bootAt') = (clock - bootAt) + 1
  BY DEF Tick, TypeOK
<1>2. UnitsPerSecond \in Nat
  BY PipelineAssumption
<1>3. \A m, n \in Nat : m * n <= (m + 1) * n
  OBVIOUS
<1> QED
  BY <1>1, <1>2, <1>3 DEF MonoNow

(* What the guard drops has left the window. *)
LEMMA VelocitySlots ==
    ASSUME TypeOK, VelocityInv, UNCHANGED <<signs, clock, bootAt>>,
           InWindow(MonoNow) \subseteq times', IsFiniteSet(times')
    PROVE  VelocityInv'
<1>1. MonoNow' = MonoNow
  BY DEF MonoNow
<1>2. VelocityBound'
  BY DEF VelocityInv, VelocityBound
<1> QED
  BY <1>1, <1>2 DEF VelocityInv, InWindow

(* A signature takes the last slot at most. *)
LEMMA VelocitySign ==
    ASSUME TypeOK, VelocityInv, Sign, UNCHANGED <<clock, bootAt>>
    PROVE  VelocityInv'
<1> DEFINE now0 == MonoNow
           new == <<MonoNow, Hash>>
<1>0. /\ pc = "sign" /\ Cardinality(InWindow(now0)) < MaxPerWindow
      /\ times' = InWindow(now0) \cup {new} /\ signs' = signs \cup {new}
  <2>1. pc = "sign" /\ ~(Cardinality(InWindow(now0)) >= MaxPerWindow)
        /\ times' = InWindow(now0) \cup {new} /\ signs' = signs \cup {new}
    BY DEF Sign, WindowFull, TakeSlot
  <2>2. IsFiniteSet(InWindow(now0))
    BY FS_Subset DEF VelocityInv, InWindow
  <2>3. Cardinality(InWindow(now0)) \in Nat /\ MaxPerWindow \in Nat
    BY <2>2, FS_CardinalityType, PipelineAssumption
  <2> QED
    BY <2>1, <2>3
<1>1. MonoNow' = MonoNow /\ MonoNow \in Nat /\ Window \in Nat /\ MaxPerWindow \in Nat
  BY MonoNowNat, PipelineAssumption DEF MonoNow
<1>2. signs \subseteq Nat \X Hashes /\ Hash \in Hashes
  BY <1>0, RequestType DEF TypeOK
<1>3. \A s \in signs : s[1] \in Nat /\ s[1] <= now0
  BY <1>2 DEF VelocityInv
<1>4. new[1] = now0
  OBVIOUS
<1>5. IsFiniteSet(times') /\ Cardinality(times') <= MaxPerWindow
  <2>1. IsFiniteSet(InWindow(now0))
    BY FS_Subset DEF VelocityInv, InWindow
  <2>2. Cardinality(InWindow(now0)) \in Nat
    BY <2>1, FS_CardinalityType
  <2>3. /\ IsFiniteSet(times')
        /\ \/ Cardinality(times') = Cardinality(InWindow(now0))
           \/ Cardinality(times') = Cardinality(InWindow(now0)) + 1
    BY <1>0, <2>1, OneMore
  <2> QED
    BY <1>0, <1>1, <2>2, <2>3
<1>6. \A u \in signs' : now0 - u[1] <= Window => u \in times'
  <2>1. \A u \in signs : now0 - u[1] <= Window => u \in InWindow(now0)
    BY DEF VelocityInv, InWindow
  <2> QED
    BY <1>0, <2>1
<1>7. Recent(now0)' \subseteq times'
  BY <1>1, <1>6 DEF Recent
<1>8. Cardinality(Recent(now0)') <= MaxPerWindow
  <2>1. Cardinality(Recent(now0)') <= Cardinality(times') /\ IsFiniteSet(Recent(now0)')
    BY <1>5, <1>7, FS_Subset
  <2>2. Cardinality(Recent(now0)') \in Nat /\ Cardinality(times') \in Nat
    BY <1>5, <2>1, FS_CardinalityType
  <2> QED
    BY <1>1, <1>5, <2>1, <2>2
<1>9. ASSUME NEW s \in signs'
      PROVE  Cardinality({u \in signs' : u[1] <= s[1] /\ s[1] - u[1] <= Window}) <= MaxPerWindow
  <2>1. CASE s[1] = now0
    <3>1. {u \in signs' : u[1] <= s[1] /\ s[1] - u[1] <= Window} = Recent(now0)'
      BY <1>1, <2>1 DEF Recent
    <3> QED
      BY <1>8, <3>1
  <2>2. CASE s[1] # now0
    <3>1. s \in signs /\ s[1] \in Nat /\ s[1] < now0
      BY <1>0, <1>1, <1>3, <1>4, <2>2
    <3>2. {u \in signs' : u[1] <= s[1] /\ s[1] - u[1] <= Window}
             = {u \in signs : u[1] <= s[1] /\ s[1] - u[1] <= Window}
      BY <1>0, <1>1, <1>4, <3>1
    <3> QED
      BY <3>1, <3>2 DEF VelocityInv, VelocityBound
  <2> QED
    BY <2>1, <2>2
<1>10. \A s \in signs' : s[1] <= now0
  BY <1>0, <1>1, <1>3, <1>4
<1> QED
  BY <1>1, <1>5, <1>6, <1>9, <1>10 DEF VelocityInv, VelocityBound

(* Every step keeps the slots of the signatures in the window. *)
LEMMA VelocityStep == TypeOK /\ VelocityInv /\ [Next]_vars => VelocityInv'
<1> SUFFICES ASSUME TypeOK, VelocityInv, [Next]_vars PROVE VelocityInv'
  OBVIOUS
<1>1. CASE UNCHANGED <<signs, times, clock, bootAt>>
  BY <1>1, VelocitySlots DEF VelocityInv, InWindow
<1>2. CASE Execute
  <2>0. UNCHANGED <<clock, bootAt>>
    BY <1>2 DEF Execute, envVars
  <2>1. CASE VelocityRefuse \/ SignerFails
    <3>1. UNCHANGED signs /\ InWindow(MonoNow) \subseteq times'
          /\ \E s : times' \subseteq times \cup {s}
      BY <2>1 DEF VelocityRefuse, SignerFails, TakeSlot, InWindow
    <3>2. IsFiniteSet(times')
      BY <3>1, FS_AddElement, FS_Subset DEF VelocityInv
    <3> QED
      BY <2>0, <3>1, <3>2, VelocitySlots
  <2>2. CASE Sign
    BY <2>0, <2>2, VelocitySign
  <2>3. CASE ~(VelocityRefuse \/ SignerFails \/ Sign)
    <3>1. UNCHANGED <<signs, times>>
      BY <1>2, <2>3 DEF Execute, ReplayRefuse, ReplayPass, SettleRefuse, SettlePass,
                        Submit, Reconcile
    <3> QED
      BY <1>1, <2>0, <3>1
  <2> QED
    BY <2>1, <2>2, <2>3
<1>3. CASE Tick
  <2>1. MonoNow <= MonoNow' /\ UNCHANGED <<signs, times>>
    BY <1>3, MonoGrows DEF Tick
  <2>0. TypeOK'
    BY TypeStep
  <2>2. MonoNow \in Nat /\ MonoNow' \in Nat /\ Window \in Nat
    <3>1. \A m, n \in Nat : m * n \in Nat
      OBVIOUS
    <3>2. clock' - bootAt' \in Nat
      <4>1. clock' \in Nat /\ bootAt' \in Nat /\ bootAt' <= clock'
        BY <2>0 DEF TypeOK
      <4>2. \A m, n \in Nat : m <= n => n - m \in Nat
        OBVIOUS
      <4> QED
        BY <4>1, <4>2
    <3>3. UnitsPerSecond \in Nat
      BY PipelineAssumption
    <3> QED
      BY <3>1, <3>2, <3>3, MonoNowNat, PipelineAssumption DEF MonoNow
  <2>3. \A s \in signs : s[1] \in Nat
    BY DEF TypeOK
  <2>4. VelocityBound'
    BY <2>1 DEF VelocityInv, VelocityBound
  <2>5. \A s \in signs' : s[1] <= MonoNow' /\ (MonoNow' - s[1] <= Window => s \in times')
    BY <2>1, <2>2, <2>3 DEF VelocityInv
  <2> QED
    BY <2>1, <2>4, <2>5 DEF VelocityInv
<1>4. CASE Restart
  <2>1. signs' = {} /\ times' = {}
    BY <1>4 DEF Restart
  <2> QED
    BY <2>1, FS_EmptySet DEF VelocityInv, VelocityBound
<1>5. CASE ~(Execute \/ Tick \/ Restart)
  <2>1. UNCHANGED <<signs, times, clock, bootAt>>
    BY <1>5 DEF Next, Handler, Gate, Evaluate, Arrive, SafetyVerb, KeyOperation,
                CreateTenant, vars, envVars
  <2> QED
    BY <1>1, <2>1
<1> QED
  BY <1>2, <1>3, <1>4, <1>5

(* Since the process started, no window of VelocityGuard's length holds    *)
(* more live signatures than its limit, although the guard forgets.        *)
THEOREM VelocityHolds == Spec => []VelocityBound
<1>1. Init => VelocityInv
  BY FS_EmptySet DEF Init, VelocityInv, VelocityBound
<1>2. VelocityInv => VelocityBound
  BY DEF VelocityInv
<1> QED
  BY <1>1, <1>2, VelocityStep, TypeCorrect, PTL DEF Spec
=============================================================================
