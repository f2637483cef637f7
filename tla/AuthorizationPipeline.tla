------------------------ MODULE AuthorizationPipeline ------------------------
(***************************************************************************)
(* The finance gateway of src/src/service: the handlers of app.py that run *)
(* on the event loop (authorize_action, safety_halt, safety_resume), the   *)
(* layers of pipeline.py, and the threads and failures around them         *)
(* (operator-key management, tenant creation, time, process restarts).     *)
(*                                                                         *)
(* authorize_action awaits nothing once its body is read, so the event     *)
(* loop runs it to the end before it takes another request: pc is the      *)
(* layer it has reached.  The key-management endpoints are plain functions *)
(* that FastAPI runs on worker threads: their steps fall between layers.   *)
(***************************************************************************)
EXTENDS OperatorKeys, ReplayRegistry, FiniteSets

CONSTANTS
    Codes,            \* hygiene violation codes
    SecondOpCodes,    \* _SECOND_OP_CODES: a release needs two operators
    HygieneEnabled,   \* RATHNONE_HYGIENE_ENABLED
    OperatorCeiling,  \* RATHNONE_MAX_SETTLEMENT_VALUE_WEI set, below "large"
    DurableKeys,      \* RATHNONE_KEY_DB is set
    MaxPerWindow,     \* RATHNONE_LIVE_RATE_MAX
    Window,           \* VelocityGuard.window, in clock units
    UnitsPerSecond,   \* units of the monotonic clock in a second (10^9)
    Requests,         \* POST /tenants/{id}/authorize_action
    SafetyRequests,   \* POST /safety/halt and /safety/resume
    VenueCodes,       \* reconciliation codes the venue can lead to
    NoRecord,         \* an absent approval, downgrade or command
    MaxRequests, MaxKeyOps, MaxClock, MaxBoots   \* bounds of the exploration

Safety == "safety"          \* _SAFETY_SCOPE, and the scope id "__safety__"
Scopes == Tenants \cup {Safety}
Verbs == {"halt", "resume", "authorize"}

(* An ApprovalRecord names one hash (approved_action_hash = action_hash)   *)
(* and says whether its signature verifies under the operator key.         *)
Approval == [hash: Hashes, decision: {"approve", "reject"}, sigOk: BOOLEAN]

Downgrade == [hash: Hashes, released: SUBSET Codes, nonce: Nat,
              signer: Keys \cup {NoKey}, second: Keys \cup {NoKey}]

(* The request body.  parses: the action, approval and downgrade records   *)
(* can be built.  codes are the violations CorroborationLayer.evaluate     *)
(* finds, pii whether assert_no_pii objects: both also depend on evidence, *)
(* which the action hash does not cover.                                   *)
Body == [action: Actions, parses: BOOLEAN, codes: SUBSET Codes, pii: BOOLEAN,
         denied: BOOLEAN, human: BOOLEAN,
         approval: Approval \cup {NoRecord}, downgrade: Downgrade \cup {NoRecord}]

(* An OperatorCommand: body is the request its body_hash was taken of. *)
Command(bodies) == [verb: Verbs, scope: Scopes, body: bodies, nonce: Nat,
                    stamp: Nat, signer: Keys \cup {NoKey}]

ASSUME PipelineAssumption ==
    /\ Safety \notin Tenants
    /\ SecondOpCodes \subseteq Codes
    /\ HygieneEnabled \in BOOLEAN
    /\ OperatorCeiling \in BOOLEAN
    /\ DurableKeys \in BOOLEAN
    /\ MaxPerWindow \in Nat \ {0} /\ Window \in Nat
    /\ UnitsPerSecond \in Nat \ {0}
    /\ MaxRequests \in Nat /\ MaxKeyOps \in Nat
    /\ MaxClock \in Nat /\ MaxBoots \in Nat
    /\ \A r \in Requests :
          /\ r.tenant \in Tenants
          /\ r.body \in Body
          /\ r.cmd = NoRecord \/ r.cmd \in Command(Body)
    /\ \A r \in SafetyRequests :
          r.cmd = NoRecord \/ r.cmd \in Command({"safety body"})
    /\ VenueCodes \subseteq {"MATCH", "DIVERGED"}

VARIABLES
    tenants,     \* TenantRegistry: with or without a settlement key
    ring,        \* operator_keys of every scope
    used,        \* _used_command_nonces of every scope
    breaker,     \* CircuitBreaker.is_open
    times,       \* VelocityGuard._times: <<time, hash>> of each live attempt
    evidence,    \* EvidenceGraph._by_action: a trace for every action_id
    ledger,      \* Tenant._records: the bodies, in order
    audit,       \* _safety_audit and the store's safety_audit table
    pc, req, verdict, downgraded, last, now,  \* the request on the event loop
    clock,       \* wall clock, epoch seconds
    bootAt,      \* the wall clock when the process started
    submits,     \* how often each hash has reached the venue
    signs,       \* <<time, hash>> of every live signature of this process
    eligible,    \* keys that were authorized at some point of this request
    arrivals, keyOps, boots               \* counters for the bounds

(* The request on the loop, its temporaries, and the three groups of state *)
(* that an action leaves alone together.                                   *)
loopVars == <<pc, req, verdict, downgraded, last, now>>
envVars == <<tenants, clock, bootAt, boots, arrivals>>
keyVars == <<ring, keyOps, eligible>>
vars == <<byHash, byNonce, tenants, ring, used, breaker, times, evidence,
          ledger, audit, pc, req, verdict, downgraded, last, now, clock, bootAt,
          submits, signs, eligible, arrivals, keyOps, boots>>

Stages == {"idle", "gate", "breaker", "epistemic", "hygiene", "risk", "human",
           "replay", "settle", "sign", "submit", "reconcile"}

NoRequest == [tenant |-> NoRecord]
ActionIds == {Attr[a].id : a \in Actions}
States == {"PROPOSED", "AUTHORIZED", "EVALUATED", "APPROVED", "SIGNED",
           "SUBMITTED", "SETTLED", "REJECTED", "FAILED"}
Event == [tenant: Tenants, state: States, prev: Nat]
LedgerBody == [event: {"operator_command", "live_sign", "hygiene_downgrade",
                       "v2_pipeline"},
               action: Actions, nonce: Nat]
AuditRow == [verb: Verbs, nonce: Nat]

Alive(t) == tenants[t] \in {"sim", "live"}

(* The monotonic clock the pipeline passes to the registry as `now`, in    *)
(* its own unit and from the start of the process: Clock(monotonic=True).  *)
MonoNow == (clock - bootAt) * UnitsPerSecond

T == req.tenant
B == req.body
A == B.action
Hash == <<T, A>>
Id == Attr[A].id

-----------------------------------------------------------------------------
Init ==
    /\ RegistryInit
    /\ tenants = [t \in Tenants |-> "unborn"]
    /\ ring = [s \in Scopes |-> <<>>]
    /\ used = [s \in Scopes |-> {}]
    /\ breaker = FALSE
    /\ times = {}
    /\ evidence = [i \in ActionIds |-> <<>>]
    /\ ledger = [t \in Tenants |-> <<>>]
    /\ audit = <<>>
    /\ pc = "idle" /\ req = NoRequest /\ verdict = "BLOCKED"
    /\ downgraded = FALSE /\ last = 0 /\ now = 0
    /\ clock = 0 /\ bootAt = 0
    /\ submits = [h \in Hashes |-> 0]
    /\ signs = {}
    /\ eligible = {}
    /\ arrivals = 0 /\ keyOps = 0 /\ boots = 0

(* Mutant of Finish: _last_hash is not reset for the next run. *)
FinishKeepsLink ==
    /\ pc' = "idle" /\ req' = NoRequest /\ verdict' = "BLOCKED"
    /\ downgraded' = FALSE /\ now' = 0 /\ UNCHANGED last

(* Leave the handler, with an answer or with an exception. *)
Finish ==
    /\ pc' = "idle" /\ req' = NoRequest /\ verdict' = "BLOCKED"
    /\ downgraded' = FALSE /\ last' = 0 /\ now' = 0

(* Mutant of Link: the link is one event off. *)
LinkOneOff(trace, prev, state) ==
    Append(trace, [tenant |-> T, state |-> state, prev |-> prev - 1])

(* EvidenceGraph.add on the trace of the action id, and _emit's causal     *)
(* link: the index of the event that this run emitted before (0: none).    *)
Link(trace, prev, state) ==
    Append(trace, [tenant |-> T, state |-> state, prev |-> prev])

Emit(state) ==
    evidence' = [evidence EXCEPT ![Id] = Link(@, last, state)]

EmitTwo(first, second) ==
    evidence' = [evidence EXCEPT ![Id] =
                    Link(Link(@, last, first), Len(@) + 1, second)]

(* Go on to the next layer after emitting. *)
Proceed(stage) ==
    /\ pc' = stage
    /\ last' = Len(evidence'[Id])
    /\ UNCHANGED <<req, now>>

(* Tenant.append_ledger (the chain of signatures is in TenantLedger). *)
Record(event, nonce) ==
    ledger' = [ledger EXCEPT ![T] =
                 Append(@, [event |-> event, action |-> A, nonce |-> nonce])]

-----------------------------------------------------------------------------
(* authorize_action, before the pipeline. *)

(* The request is read and its tenant found. *)
Arrive(r) ==
    /\ pc = "idle" /\ arrivals < MaxRequests
    /\ Alive(r.tenant)
    /\ pc' = "gate" /\ req' = r
    /\ arrivals' = arrivals + 1
    /\ eligible' = ActivePems(ring[r.tenant], clock)
    /\ UNCHANGED <<byHash, byNonce, tenants, ring, used, breaker, times,
                   evidence, ledger, audit, verdict, downgraded, last, now,
                   clock, bootAt, submits, signs, keyOps, boots>>

CommandOk(scope, body, cmd) ==
    /\ cmd # NoRecord
    /\ VerifyCommand(cmd, body, ActivePems(ring[scope], clock), used[scope],
                     clock, scope)

(* _require_command without an active operator key: nothing to verify. *)
GateDormant ==
    /\ pc = "gate"
    /\ ActivePems(ring[T], clock) = {}
    /\ pc' = "breaker"
    /\ UNCHANGED <<used, ledger, req, verdict, downgraded, last, now>>

(* _require_command answers 401. *)
GateRefuse ==
    /\ pc = "gate"
    /\ ActivePems(ring[T], clock) # {}
    /\ ~CommandOk(T, B, req.cmd)
    /\ Finish
    /\ UNCHANGED <<used, ledger>>

(* Mutant of GateAccept: the nonce is not burnt. *)
GateAcceptKeepsNonce ==
    /\ pc = "gate"
    /\ CommandOk(T, B, req.cmd)
    /\ Record("operator_command", req.cmd.nonce)
    /\ pc' = "breaker"
    /\ UNCHANGED <<used, req, verdict, downgraded, last, now>>

(* _require_command burns the nonce and writes the attribution. *)
GateAccept ==
    /\ pc = "gate"
    /\ CommandOk(T, B, req.cmd)
    /\ used' = [used EXCEPT ![T] = @ \cup {req.cmd.nonce}]
    /\ Record("operator_command", req.cmd.nonce)
    /\ pc' = "breaker"
    /\ UNCHANGED <<req, verdict, downgraded, last, now>>

(* A record that cannot be built ends the request (400, 403 for the        *)
(* approval, whose signature is checked and the result not used), then an  *)
(* open breaker does (503); the clock is read once, for the pipeline.      *)
CheckBreaker ==
    /\ pc = "breaker"
    /\ \/ ~B.parses /\ Finish
       \/ B.parses /\ breaker /\ Finish
       \/ /\ B.parses /\ ~breaker
          /\ pc' = "epistemic" /\ now' = MonoNow
          /\ UNCHANGED <<req, verdict, downgraded, last>>
    /\ UNCHANGED <<used, ledger>>

Gate ==
    /\ GateDormant \/ GateRefuse \/ GateAccept \/ CheckBreaker
    /\ UNCHANGED <<registryVars, envVars, keyVars, breaker, times, evidence,
                   audit, submits, signs>>

-----------------------------------------------------------------------------
(* AuthorizationPipeline.run, layers 1 to 4: nothing here reaches the      *)
(* registry, the signer or the venue.                                      *)

(* tenant.authorize, the frozen decide(): deny-list, allow-list of the     *)
(* three finance capabilities, then the human-approval flag.               *)
Decide(body) ==
    IF body.denied \/ Attr[body.action].capability = "other" THEN "BLOCKED"
    ELSE IF body.human THEN "HUMAN" ELSE "AUTO"

(* 0. validate_structure refuses without leaving evidence. *)
StructureRefuse ==
    /\ pc = "epistemic"
    /\ ~Attr[A].wellFormed
    /\ Finish
    /\ UNCHANGED <<evidence, used>>

(* 1. EPISTEMIC, BLOCKED. *)
EpistemicRefuse ==
    /\ pc = "epistemic"
    /\ Attr[A].wellFormed
    /\ Decide(B) = "BLOCKED"
    /\ EmitTwo("PROPOSED", "REJECTED")
    /\ Finish
    /\ UNCHANGED used

(* 1. EPISTEMIC, AUTO or HUMAN. *)
EpistemicPass ==
    /\ pc = "epistemic"
    /\ Attr[A].wellFormed
    /\ Decide(B) # "BLOCKED"
    /\ EmitTwo("PROPOSED", "AUTHORIZED")
    /\ verdict' = Decide(B)
    /\ Proceed("hygiene")
    /\ UNCHANGED <<used, downgraded>>

(* 2b. CorroborationLayer.evaluate: a disabled layer finds nothing. *)
Violations(body) == IF HygieneEnabled THEN body.codes ELSE {}

HygienePass ==
    /\ pc = "hygiene"
    /\ Violations(B) = {}
    /\ Emit("EVALUATED")
    /\ Proceed("risk")
    /\ UNCHANGED <<used, verdict, downgraded>>

HygieneRefuse ==
    /\ pc = "hygiene"
    /\ Violations(B) # {} /\ B.downgrade = NoRecord
    /\ EmitTwo("EVALUATED", "REJECTED")
    /\ Finish
    /\ UNCHANGED used

(* Mutant of ValidateDowngrade: `if spem == pem: continue` is missing. *)
ValidateDowngradeOneKey(d, hash, violations, allowlist, usedNonces) ==
    /\ d.hash = hash
    /\ d.released \subseteq violations
    /\ d.nonce \notin usedNonces
    /\ d.signer \in allowlist
    /\ d.released \cap SecondOpCodes # {} => d.second \in allowlist

(* validate_downgrade, given that the action is blocked on some code.  The *)
(* second signature must be by another active key.                         *)
ValidateDowngrade(d, hash, violations, allowlist, usedNonces) ==
    /\ d.hash = hash
    /\ d.released \subseteq violations
    /\ d.nonce \notin usedNonces
    /\ d.signer \in allowlist
    /\ d.released \cap SecondOpCodes # {} => d.second \in allowlist \ {d.signer}

DowngradeValid ==
    /\ Violations(B) # {} /\ B.downgrade # NoRecord
    /\ ValidateDowngrade(B.downgrade, Hash, Violations(B),
                         ActivePems(ring[T], clock), used[T])

DowngradeRefuse ==
    /\ pc = "hygiene"
    /\ Violations(B) # {} /\ B.downgrade # NoRecord
    /\ ~DowngradeValid
    /\ Emit("REJECTED")
    /\ Finish
    /\ UNCHANGED used

(* A valid downgrade burns its nonce also when it releases too little. *)
DowngradePartial ==
    /\ pc = "hygiene"
    /\ DowngradeValid
    /\ used' = [used EXCEPT ![T] = @ \cup {B.downgrade.nonce}]
    /\ ~(Violations(B) \subseteq B.downgrade.released)
    /\ Emit("REJECTED")
    /\ Finish

DowngradeRelease ==
    /\ pc = "hygiene"
    /\ DowngradeValid
    /\ used' = [used EXCEPT ![T] = @ \cup {B.downgrade.nonce}]
    /\ Violations(B) \subseteq B.downgrade.released
    /\ Emit("EVALUATED")
    /\ verdict' = "HUMAN" /\ downgraded' = TRUE
    /\ Proceed("risk")

(* 3. RISK. *)
RiskRefuse ==
    /\ pc = "risk"
    /\ ~Attr[A].riskOk
    /\ EmitTwo("EVALUATED", "REJECTED")
    /\ Finish
    /\ UNCHANGED used

RiskPass ==
    /\ pc = "risk"
    /\ Attr[A].riskOk
    /\ Emit("EVALUATED")
    /\ Proceed("human")
    /\ UNCHANGED <<used, verdict, downgraded>>

(* 4. HUMAN: ApprovalRecord.binds_to and its signature, or the downgrade. *)
ApprovalBinds(approval, hash) ==
    /\ approval # NoRecord
    /\ approval.decision = "approve" /\ approval.hash = hash /\ approval.sigOk

HumanSatisfied ==
    verdict = "HUMAN" => ApprovalBinds(B.approval, Hash) \/ downgraded

HumanRefuse ==
    /\ pc = "human"
    /\ ~HumanSatisfied
    /\ Emit("REJECTED")
    /\ Finish
    /\ UNCHANGED used

HumanPass ==
    /\ pc = "human"
    /\ HumanSatisfied
    /\ Emit("APPROVED")
    /\ Proceed("replay")
    /\ UNCHANGED <<used, verdict, downgraded>>

Evaluate ==
    /\ \/ StructureRefuse \/ EpistemicRefuse \/ EpistemicPass
       \/ HygienePass \/ HygieneRefuse
       \/ DowngradeRefuse \/ DowngradePartial \/ DowngradeRelease
       \/ RiskRefuse \/ RiskPass \/ HumanRefuse \/ HumanPass
    /\ UNCHANGED <<registryVars, envVars, keyVars, breaker, times, ledger,
                   audit, submits, signs>>

-----------------------------------------------------------------------------
(* AuthorizationPipeline.run, layers 5 to 10. *)

(* 5. ActionRegistry.register raises ReplayError. *)
ReplayRefuse ==
    /\ pc = "replay"
    /\ RefuseExpired(T, A, now) \/ RefuseReplay(T, A, now)
    /\ Emit("REJECTED")
    /\ Finish
    /\ UNCHANGED <<times, ledger, submits, signs>>

ReplayPass ==
    /\ pc = "replay"
    /\ Register(T, A, now)
    /\ pc' = "settle"
    /\ UNCHANGED <<req, verdict, downgraded, last, now, evidence, times,
                   ledger, submits, signs>>

(* 6 and 7. The breaker again, then assert_no_pii and the structural and   *)
(* ceiling checks: _settlement_ceiling_wei bounds a live tenant by default *)
(* and any tenant once the operator has set a ceiling; validate_order has  *)
(* no ceiling and a rebalance has no check at all.                         *)
WithinCeiling(t, a) ==
    Attr[a].size = "large" => tenants[t] # "live" /\ ~OperatorCeiling

SettlementOk(t, body) ==
    LET a == body.action
        c == Attr[a].capability
    IN  /\ ~body.pii
        /\ c # "treasury_rebalance" => Attr[a].size # "malformed"
        /\ c = "chain_settle" => WithinCeiling(t, a)

SettleRefuse ==
    /\ pc = "settle"
    /\ breaker \/ ~SettlementOk(T, B)
    /\ Emit("REJECTED")
    /\ Finish
    /\ UNCHANGED <<registryVars, times, ledger, submits, signs>>

SettlePass ==
    /\ pc = "settle"
    /\ ~breaker /\ SettlementOk(T, B)
    /\ pc' = IF tenants[T] = "live" THEN "sign" ELSE "submit"
    /\ UNCHANGED <<req, verdict, downgraded, last, now, evidence,
                   registryVars, times, ledger, submits, signs>>

(* Mutant of InWindow: `<` for `<=`. *)
InWindowStrict(t) == {s \in times : t - s[1] < Window}

(* 8. VelocityGuard.check drops the attempts that left the window, refuses *)
(* a full window and otherwise takes a slot.  Every hash comes here once,  *)
(* so the list of times is a set of <<time, hash>>.                        *)
InWindow(t) == {s \in times : t - s[1] <= Window}
WindowFull == Cardinality(InWindow(MonoNow)) >= MaxPerWindow
TakeSlot == times' = InWindow(MonoNow) \cup {<<MonoNow, Hash>>}

VelocityRefuse ==
    /\ pc = "sign"
    /\ WindowFull
    /\ times' = InWindow(MonoNow)
    /\ Emit("REJECTED")
    /\ Finish
    /\ UNCHANGED <<registryVars, ledger, submits, signs>>

(* A live rebalance has no record to sign: live_record is None and its     *)
(* .get raises, out of the pipeline and out of the handler.                *)
SignerFails ==
    /\ pc = "sign"
    /\ ~WindowFull /\ Attr[A].capability = "treasury_rebalance"
    /\ TakeSlot
    /\ Finish
    /\ UNCHANGED <<evidence, registryVars, ledger, submits, signs>>

(* build_for_action refuses unless AUTO or approved; layer 4 has settled   *)
(* that.                                                                   *)
Sign ==
    /\ pc = "sign"
    /\ ~WindowFull /\ Attr[A].capability # "treasury_rebalance"
    /\ TakeSlot
    /\ signs' = signs \cup {<<MonoNow, Hash>>}
    /\ Emit("SIGNED")
    /\ Proceed("submit")
    /\ Advance(T, A, "SIGNED")
    /\ Record("live_sign", Attr[A].nonce)
    /\ UNCHANGED <<verdict, downgraded, submits>>

(* 8. venue.submit. *)
Submit ==
    /\ pc = "submit"
    /\ submits' = [submits EXCEPT ![Hash] = @ + 1]
    /\ Emit("SUBMITTED")
    /\ Proceed("reconcile")
    /\ Advance(T, A, "SUBMITTED")
    /\ UNCHANGED <<verdict, downgraded, times, ledger, signs>>

(* 9 and 10. Reconcile with the venue's answer, then close the ledger; the *)
(* status in the registry stays SUBMITTED.                                 *)
Closing ==
    LET entry(event, nonce) == [event |-> event, action |-> A, nonce |-> nonce]
        final == entry("v2_pipeline", Attr[A].nonce)
    IN  IF downgraded
        THEN <<entry("hygiene_downgrade", B.downgrade.nonce), final>>
        ELSE <<final>>

(* Mutant of Reconcile: only a settled action is written to the ledger. *)
ReconcileMatchOnly(code) ==
    /\ pc = "reconcile"
    /\ Emit(IF code = "MATCH" THEN "SETTLED" ELSE "FAILED")
    /\ ledger' = [ledger EXCEPT ![T] = IF code = "MATCH" THEN @ \o Closing ELSE @]
    /\ Finish
    /\ UNCHANGED <<registryVars, times, submits, signs>>

Reconcile(code) ==
    /\ pc = "reconcile"
    /\ Emit(IF code = "MATCH" THEN "SETTLED" ELSE "FAILED")
    /\ ledger' = [ledger EXCEPT ![T] = @ \o Closing]
    /\ Finish
    /\ UNCHANGED <<registryVars, times, submits, signs>>

Execute ==
    /\ \/ ReplayRefuse \/ ReplayPass \/ SettleRefuse \/ SettlePass
       \/ VelocityRefuse \/ SignerFails \/ Sign \/ Submit
       \/ \E code \in VenueCodes : Reconcile(code)
    /\ UNCHANGED <<used, envVars, keyVars, breaker, audit>>

-----------------------------------------------------------------------------
(* safety_halt and safety_resume: one step, when the loop is free. *)

(* Mutant of SafetyGate: the nonce is not burnt. *)
SafetyGateKeepsNonce(verb, r) ==
    \/ /\ ActivePems(ring[Safety], clock) = {}
       /\ UNCHANGED <<used, audit>>
    \/ /\ CommandOk(Safety, "safety body", r.cmd)
       /\ audit' = Append(audit, [verb |-> verb, nonce |-> r.cmd.nonce])
       /\ UNCHANGED used

(* Mutant of SafetyGate: the verb of the command goes to the audit. *)
SafetyGateSignedVerb(verb, r) ==
    \/ /\ ActivePems(ring[Safety], clock) = {}
       /\ UNCHANGED <<used, audit>>
    \/ /\ CommandOk(Safety, "safety body", r.cmd)
       /\ used' = [used EXCEPT ![Safety] = @ \cup {r.cmd.nonce}]
       /\ audit' = Append(audit, [verb |-> r.cmd.verb, nonce |-> r.cmd.nonce])

(* _require_command for a safety verb.  record_command writes the verb of  *)
(* the endpoint, whatever verb was signed.                                 *)
SafetyGate(verb, r) ==
    \/ /\ ActivePems(ring[Safety], clock) = {}
       /\ UNCHANGED <<used, audit>>
    \/ /\ CommandOk(Safety, "safety body", r.cmd)
       /\ used' = [used EXCEPT ![Safety] = @ \cup {r.cmd.nonce}]
       /\ audit' = Append(audit, [verb |-> verb, nonce |-> r.cmd.nonce])

(* Mutant of SafetyHalt: a plain def, run on a worker thread. *)
SafetyHaltOnThread(r) ==
    /\ SafetyGate("halt", r)
    /\ breaker' = TRUE

SafetyHalt(r) ==
    /\ pc = "idle"
    /\ SafetyGate("halt", r)
    /\ breaker' = TRUE

SafetyResume(r) ==
    /\ pc = "idle"
    /\ SafetyGate("resume", r)
    /\ breaker' = FALSE

SafetyVerb ==
    /\ arrivals < MaxRequests
    /\ arrivals' = arrivals + 1
    /\ \E r \in SafetyRequests : SafetyHalt(r) \/ SafetyResume(r)
    /\ UNCHANGED <<registryVars, tenants, keyVars, times, evidence, ledger,
                   loopVars, clock, bootAt, boots, submits, signs>>

-----------------------------------------------------------------------------
(* Worker threads: /operator-keys of a scope that exists (a tenant that is *)
(* not there answers 404, and so does a revoke that finds no key).         *)
ScopeExists(s) == s # Safety => Alive(s)

(* A key added for the scope of the request on the loop may sign for it. *)
NowEligible(s, new) ==
    eligible' = IF pc # "idle" /\ s = T THEN eligible \cup new ELSE eligible

AddOperatorKey(s, k, expires) ==
    /\ ring' = [ring EXCEPT ![s] = Add(@, k, expires)]
    /\ NowEligible(s, {k})

RevokeOperatorKey(s, k) ==
    /\ Find(ring[s], k) # {}
    /\ ring' = [ring EXCEPT ![s] = Revoke(@, k)]
    /\ NowEligible(s, {})

RotateOperatorKey(s, new, old, grace) ==
    /\ ring' = [ring EXCEPT ![s] = Rotate(@, new, old, NoExpiry, grace, clock)]
    /\ NowEligible(s, {new})

KeyOperation ==
    /\ keyOps < MaxKeyOps
    /\ keyOps' = keyOps + 1
    /\ \E s \in Scopes, k \in Keys :
          /\ ScopeExists(s)
          /\ \/ \E expires \in {NoExpiry, clock + 1} : AddOperatorKey(s, k, expires)
             \/ RevokeOperatorKey(s, k)
             \/ \E old \in Keys, grace \in {0, 1} : RotateOperatorKey(s, k, old, grace)
    /\ UNCHANGED <<registryVars, tenants, used, breaker, times, evidence,
                   ledger, audit, loopVars, clock, bootAt, submits, signs,
                   arrivals,
                   boots>>

(* POST /tenants: a fresh id, with a settlement key when live is asked for. *)
CreateTenant(t, kind) ==
    /\ tenants[t] = "unborn"
    /\ tenants' = [tenants EXCEPT ![t] = kind]
    /\ UNCHANGED <<registryVars, keyVars, used, breaker, times, evidence,
                   ledger, audit, loopVars, clock, bootAt, submits, signs,
                   arrivals,
                   boots>>

Tick ==
    /\ clock < MaxClock
    /\ clock' = clock + 1
    /\ UNCHANGED <<registryVars, tenants, keyVars, used, breaker, times,
                   evidence, ledger, audit, loopVars, bootAt, submits, signs,
                   arrivals, boots>>

(* The process ends at any point and starts again.  Tenants, their keys    *)
(* and their ledgers were in memory; so are the breaker, the used nonces   *)
(* and, unless the databases are configured, the registry, the safety      *)
(* keyring and the safety audit.  What the venue saw stays.                *)
Restart ==
    /\ boots < MaxBoots
    /\ boots' = boots + 1
    /\ bootAt' = clock
    /\ tenants' = [t \in Tenants |->
                      IF Alive(t) THEN "gone" ELSE tenants[t]]
    /\ \E safety \in IF DurableKeys
                     THEN Reloaded(Stored(ring[Safety]), Len(ring[Safety]))
                     ELSE {<<>>} :
          ring' = [s \in Scopes |-> IF s = Safety THEN safety ELSE <<>>]
    /\ audit' = IF DurableKeys THEN audit ELSE <<>>
    /\ IF DurableRegistry
       THEN UNCHANGED registryVars
       ELSE /\ byHash' = [h \in Hashes |-> "NONE"]
            /\ byNonce' = [p \in Tenants \X Nonces |-> NoAction]
    /\ used' = [s \in Scopes |-> {}]
    /\ breaker' = FALSE
    /\ times' = {}
    /\ evidence' = [i \in ActionIds |-> <<>>]
    /\ ledger' = [t \in Tenants |-> <<>>]
    /\ signs' = {}
    /\ eligible' = {}
    /\ Finish
    /\ UNCHANGED <<clock, submits, arrivals, keyOps>>

-----------------------------------------------------------------------------
Handler == Gate \/ Evaluate \/ Execute

Next ==
    \/ \E r \in Requests : Arrive(r)
    \/ Handler
    \/ SafetyVerb
    \/ KeyOperation
    \/ \E t \in Tenants, kind \in {"sim", "live"} : CreateTenant(t, kind)
    \/ Tick
    \/ Restart

Spec == Init /\ [][Next]_vars

(* The event loop does not abandon the handler it is running. *)
FairSpec == Spec /\ WF_vars(Handler)

-----------------------------------------------------------------------------
(* Every variable holds a value of its type; the process started in the    *)
(* past, the loop holds a request exactly while a handler runs, and only a *)
(* request with a downgrade is downgraded.                                 *)
TypeOK ==
    /\ RegistryTypeOK
    /\ tenants \in [Tenants -> {"unborn", "sim", "live", "gone"}]
    /\ ring \in [Scopes -> Seq(Entry)]
    /\ used \in [Scopes -> SUBSET Nat]
    /\ breaker \in BOOLEAN
    /\ times \subseteq Nat \X Hashes
    /\ evidence \in [ActionIds -> Seq(Event)]
    /\ ledger \in [Tenants -> Seq(LedgerBody)]
    /\ audit \in Seq(AuditRow)
    /\ pc \in Stages
    /\ IF pc = "idle" THEN req = NoRequest ELSE req \in Requests
    /\ verdict \in {"AUTO", "HUMAN", "BLOCKED"}
    /\ downgraded \in BOOLEAN
    /\ downgraded => pc # "idle" /\ req.body.downgrade # NoRecord
    /\ last \in Nat /\ now \in Nat
    /\ clock \in Nat /\ bootAt \in Nat /\ bootAt <= clock
    /\ submits \in [Hashes -> Nat]
    /\ signs \subseteq Nat \X Hashes
    /\ eligible \subseteq Keys
    /\ arrivals \in Nat /\ keyOps \in Nat /\ boots \in Nat

(* The registry of layer 5 keeps its promise over every order of requests, *)
(* refusals, expiries and restarts: the venue sees an action at most once, *)
(* and never two actions of a tenant under one nonce.                      *)
AtMostOnce ==
    /\ \A h \in Hashes : submits[h] <= 1
    /\ \A t \in Tenants, a, b \in Actions :
          submits[<<t, a>>] > 0 /\ submits[<<t, b>>] > 0 /\ Attr[a].nonce = Attr[b].nonce
             => a = b

(* Why AtMostOnce holds: what a living tenant has submitted is in the      *)
(* registry under its hash and its nonce, what is past layer 5 is there    *)
(* too and has not been submitted, and a tenant id that was never issued   *)
(* has submitted nothing.  (Ids are not issued again after a restart, so   *)
(* the registry in memory may forget.)                                     *)
ClaimHeld ==
    /\ \A t \in Tenants, a \in Actions :
          submits[<<t, a>>] > 0 =>
              /\ tenants[t] # "unborn"
              /\ Alive(t) => /\ byHash[<<t, a>>] # "NONE"
                             /\ byNonce[<<t, Attr[a].nonce>>] = a
    /\ pc \in {"settle", "sign", "submit"} =>
          /\ submits[Hash] = 0
          /\ byHash[Hash] # "NONE" /\ byNonce[<<T, Attr[A].nonce>>] = A
    /\ pc # "idle" => Alive(T)

(* A nonce belongs to the action that took it until the process ends: no   *)
(* refusal of register (an expired action that reuses the nonce included)  *)
(* hands it to another.                                                    *)
NonceOwnershipStable ==
    [][boots' = boots =>
         \A p \in Tenants \X Nonces :
            byNonce[p] # NoAction => byNonce'[p] = byNonce[p]]_vars

(* What every layer together must have established once an action is past  *)
(* the settlement gate, whatever key operations ran on other threads while *)
(* the layers ran: the spine did not block it, risk and the settlement     *)
(* checks passed, every hygiene violation was released by a downgrade of   *)
(* this very action, signed by a key (two different ones for the codes of  *)
(* _SECOND_OP_CODES) that was authorized at some point of the request, and *)
(* a request for human approval was met.                                   *)
GrantSound ==
    pc \in {"sign", "submit", "reconcile"} =>
        LET d == B.downgrade
            codes == Violations(B)
        IN  /\ Attr[A].wellFormed /\ Attr[A].riskOk
            /\ ~B.denied /\ ~B.pii /\ Attr[A].capability # "other"
            /\ Attr[A].capability = "chain_settle" /\ tenants[T] = "live"
                  => Attr[A].size = "small"
            /\ codes # {} =>
                  /\ d # NoRecord
                  /\ d.hash = Hash /\ d.released = codes
                  /\ d.signer \in eligible
                  /\ codes \cap SecondOpCodes # {} =>
                        d.second \in eligible \ {d.signer}
            /\ B.human => codes # {} \/ ApprovalBinds(B.approval, Hash)

(* An operator who halts the loop halts it before the signer and the       *)
(* venue: between the check in the handler and the submission no halt can  *)
(* slip in, because the handlers share the event loop.                     *)
HaltIsFinal ==
    pc \in Stages \ {"idle", "gate", "breaker"} => ~breaker

(* Some entry of the tenant's ledger is about this event of this action. *)
Recorded(t, event, a) ==
    \E i \in DOMAIN ledger[t] :
        ledger[t][i].event = event /\ ledger[t][i].action = a

(* Forensic closure: whenever no handler runs, the ledger of a tenant      *)
(* names exactly the actions that reached the venue, and a live tenant's   *)
(* signatures are exactly the ones that were used.                         *)
ForensicClosure ==
    pc = "idle" =>
        \A t \in Tenants, a \in Actions :
            Alive(t) =>
                /\ submits[<<t, a>>] > 0 <=> Recorded(t, "v2_pipeline", a)
                /\ tenants[t] = "live" =>
                      (Recorded(t, "live_sign", a) <=> submits[<<t, a>>] > 0)

(* Commands and downgrades share the tenant's set of used nonces: no nonce *)
(* is written to a tenant's ledger by two operator statements.             *)
OperatorNonceOnce ==
    \A t \in Tenants : \A i, j \in DOMAIN ledger[t] :
        /\ {ledger[t][i].event, ledger[t][j].event}
              \subseteq {"operator_command", "hygiene_downgrade"}
        /\ ledger[t][i].nonce = ledger[t][j].nonce
        => i = j

(* The used nonces of the safety scope are in memory and its audit is on   *)
(* disk: a safety command is accepted once in every life of the process,   *)
(* so the audit never names a nonce more often than there were lives.      *)
SafetyReplayBounded ==
    \A n \in {audit[i].nonce : i \in DOMAIN audit} :
        Cardinality({i \in DOMAIN audit : audit[i].nonce = n}) <= boots + 1

(* Once the safety scope has an active key, the audit names every trip and *)
(* every clearing of the breaker by what it did; only a restart, which     *)
(* forgets a halt, moves the breaker unseen.                               *)
SwitchAudited ==
    [][/\ breaker' # breaker
       /\ ActivePems(ring[Safety], clock) # {}
       /\ boots' = boots
       => /\ Len(audit') = Len(audit) + 1
          /\ audit'[Len(audit')].verb = IF breaker' THEN "halt" ELSE "resume"]_vars

(* VelocityGuard forgets the attempts that left its window and still no    *)
(* window of that length, since the process started, holds more signatures *)
(* than the limit.                                                         *)
VelocityBound ==
    \A s \in signs :
        Cardinality({u \in signs : u[1] <= s[1] /\ s[1] - u[1] <= Window})
           <= MaxPerWindow

(* The transitions of _LEGAL between the states the pipeline emits. *)
Legal == {<<"PROPOSED", "AUTHORIZED">>, <<"PROPOSED", "REJECTED">>,
          <<"AUTHORIZED", "EVALUATED">>, <<"AUTHORIZED", "APPROVED">>,
          <<"AUTHORIZED", "REJECTED">>, <<"EVALUATED", "EVALUATED">>,
          <<"EVALUATED", "APPROVED">>, <<"EVALUATED", "REJECTED">>,
          <<"APPROVED", "SIGNED">>, <<"APPROVED", "REJECTED">>,
          <<"SIGNED", "SUBMITTED">>, <<"SIGNED", "FAILED">>,
          <<"SUBMITTED", "SETTLED">>, <<"SUBMITTED", "FAILED">>}

(* In every trace, each event starts a run or is linked to the event just  *)
(* before it, of the same tenant, by a legal transition; a simulated       *)
(* tenant has no signature and goes from APPROVED to SUBMITTED.            *)
RunsAreCausal ==
    \A id \in ActionIds : \A i \in DOMAIN evidence[id] :
        LET e == evidence[id][i]
            p == evidence[id][e.prev]
        IN  IF e.prev = 0
            THEN e.state = "PROPOSED"
            ELSE /\ e.prev = i - 1
                 /\ p.tenant = e.tenant
                 /\ \/ <<p.state, e.state>> \in Legal
                    \/ /\ tenants[e.tenant] = "sim"
                       /\ p.state = "APPROVED" /\ e.state = "SUBMITTED"

(* Every request that arrives is answered: whatever the registry, the      *)
(* keyring, the clock and the velocity window hold, one of the layers'     *)
(* cases applies.                                                          *)
Answered == pc # "idle" ~> pc = "idle"

(* The gateway implements its abstract promise. *)
Promise == INSTANCE ExecuteOnce WITH
    Owners <- Tenants, Orders <- Actions,
    NonceOf <- [a \in Actions |-> Attr[a].nonce],
    count <- submits, halted <- breaker

(* Every step of the gateway is a step of ExecuteOnce or changes neither   *)
(* what was executed nor the breaker.                                      *)
ImplementsExecuteOnce == Promise!Spec

-----------------------------------------------------------------------------
(* Statements of the repository about itself that the code does not keep;  *)
(* TLC shows how.                                                          *)

(* FinancialAction.expiry is in epoch seconds and an action is refused     *)
(* once it is past.  The registry compares it with nanoseconds of uptime.  *)
ExpiredMeansPast ==
    pc = "replay" /\ Expired(A, now) => Attr[A].expiry < clock

(* OperatorKeyRing.revoke: "Revocation is a kill-switch: the key leaves    *)
(* the active set instantly".  It marks the first entry of the key; add    *)
(* and rotate may have made a second one.                                  *)
RevokeIsImmediate ==
    [][\A s \in Scopes, k \in Keys :
          RevokeOperatorKey(s, k) => k \notin ActivePems(ring'[s], clock)]_vars
=============================================================================
