---------------------------- MODULE HarnessGate ----------------------------
(***************************************************************************)
(* POST /harness/authorize: harness_authorize in src/src/service/app.py    *)
(* and evaluate_harness_action in harness_auth.py, the gate an agent       *)
(* harness asks before it applies a change.  The endpoint is a plain       *)
(* function: requests run on worker threads, while the event loop trips    *)
(* the circuit breaker and operator tooling replaces the keyring.          *)
(***************************************************************************)
EXTENDS OperatorKeys, FiniteSets

CONSTANTS
    Threads,
    EnforceAuth,   \* RATHNONE_ENFORCE_AUTH: "unset", "0" or "1"
    Requests,      \* [kind, policy, override, cmd]
    NoCmd, BadCmd, \* no X-Operator-Command header, one that does not parse
    MaxRequests, MaxKeyOps, MaxSwitches, MaxClock, MaxBoots   \* bounds

Scope == "harness"

(* body is the request the command's body_hash was taken of, by name. *)
Command == [verb: STRING, scope: STRING, body: STRING, nonce: Nat, stamp: Nat,
            signer: Keys \cup {NoKey}]

ASSUME HarnessAssumption ==
    /\ EnforceAuth \in {"unset", "0", "1"}
    /\ \A r \in Requests :
          /\ r.kind \in {"explore", "apply"} /\ r.policy \in BOOLEAN
          /\ r.override \in BOOLEAN /\ r.body \in STRING
          /\ r.cmd \in {NoCmd, BadCmd} \/ r.cmd \in Command
    /\ {MaxRequests, MaxKeyOps, MaxSwitches, MaxClock, MaxBoots} \subseteq Nat

VARIABLES
    ring,        \* _HARNESS_TENANT.operator_keys
    used,        \* _HARNESS_USED_NONCES
    breaker,     \* CircuitBreaker.is_open
    pc, req, allow,   \* each thread: its place, request and allowlist
    granted,     \* the changes allowed: [req, halted, boot]
    gated,       \* per thread: the breaker was open all along the request
    overlap,     \* two requests have been between check and burn at once
    clock, arrivals, keyOps, switches, boots

threadVars == <<pc, req, allow, gated>>
boundVars == <<clock, arrivals, keyOps, switches, boots>>
vars == <<ring, used, breaker, threadVars, granted, overlap, boundVars>>

NoRequest == [kind |-> "none"]

(* _control_plane_enforced: unset counts as "0", although auth._enforce    *)
(* reads the same variable and takes unset for "1".                        *)
HarnessEnforced == EnforceAuth = "1"

Init ==
    /\ ring = <<>> /\ used = {} /\ breaker = FALSE
    /\ pc = [w \in Threads |-> "idle"]
    /\ req = [w \in Threads |-> NoRequest]
    /\ allow = [w \in Threads |-> {}]
    /\ gated = [w \in Threads |-> FALSE]
    /\ granted = <<>> /\ overlap = FALSE
    /\ clock = 0 /\ arrivals = 0 /\ keyOps = 0 /\ switches = 0 /\ boots = 0

Answer(w, decision) ==
    /\ granted' = IF decision = "ALLOW" /\ req[w].kind = "apply"
                  THEN Append(granted, [req |-> req[w], halted |-> gated[w],
                                        boot |-> boots])
                  ELSE granted
    /\ pc' = [pc EXCEPT ![w] = "idle"]
    /\ req' = [req EXCEPT ![w] = NoRequest]
    /\ allow' = [allow EXCEPT ![w] = {}]
    /\ gated' = [gated EXCEPT ![w] = FALSE]

Goto(w, place) == pc' = [pc EXCEPT ![w] = place] /\ UNCHANGED <<req, allow, gated, granted>>

-----------------------------------------------------------------------------
(* harness_authorize: the active keys are read first.  The threads of the  *)
(* pool are alike, so it does not matter which of the free ones it is.     *)
Receive(w, r) ==
    /\ pc[w] = "idle" /\ w = CHOOSE v \in Threads : pc[v] = "idle"
    /\ pc' = [pc EXCEPT ![w] = "call"]
    /\ req' = [req EXCEPT ![w] = r]
    /\ allow' = [allow EXCEPT ![w] = ActivePems(ring, clock)]
    /\ gated' = [gated EXCEPT ![w] = breaker]
    /\ UNCHANGED <<ring, used, breaker, granted, overlap, clock, keyOps, switches, boots>>

AnyCaller(w) ==
    /\ arrivals < MaxRequests
    /\ arrivals' = arrivals + 1
    /\ \E r \in Requests : Receive(w, r)

NeedsCommand(w) == req[w].kind = "apply" /\ allow[w] # {}

(* decide_registered: an empty allow-list of capabilities blocks, and so   *)
(* does the need for a human.                                              *)
Decide(r, human) == IF r.policy /\ ~human THEN "ALLOW" ELSE "BLOCKED"

(* Mutant of Verdict: the breaker is not looked at. *)
VerdictNoBreaker(w) ==
    IF NeedsCommand(w) /\ req[w].cmd = BadCmd THEN "DENY_OPEN"
    ELSE IF ~HarnessEnforced THEN "ALLOW"
    ELSE IF ~NeedsCommand(w)
         THEN Decide(req[w], req[w].override \/ req[w].kind = "apply")
    ELSE IF req[w].cmd = NoCmd THEN "DENY_OPEN"
    ELSE "verify"

(* evaluate_harness_action up to the signed command: a header that does    *)
(* not parse, the dormant posture, the breaker, the requests that carry no *)
(* command or need none.  (Under enforcement an API key is present, or the *)
(* route would have answered 401.)                                         *)
Verdict(w) ==
    IF NeedsCommand(w) /\ req[w].cmd = BadCmd THEN "DENY_OPEN"
    ELSE IF ~HarnessEnforced THEN "ALLOW"
    ELSE IF breaker THEN "BLOCKED"
    ELSE IF ~NeedsCommand(w)
         THEN Decide(req[w], req[w].override \/ req[w].kind = "apply")
    ELSE IF req[w].cmd = NoCmd THEN "DENY_OPEN"
    ELSE "verify"

Evaluate(w) ==
    /\ pc[w] = "call"
    /\ IF Verdict(w) = "verify" THEN Goto(w, "verify") ELSE Answer(w, Verdict(w))
    /\ UNCHANGED <<ring, used, breaker, overlap, boundVars>>

(* Mutant of Verified: the body the command names is taken on trust. *)
VerifiedAnyBody(w) ==
    VerifyCommand(req[w].cmd, req[w].cmd.body, allow[w], used, clock, Scope)

Verified(w) ==
    VerifyCommand(req[w].cmd, req[w].body, allow[w], used, clock, Scope)

(* verify_command looks the nonce up ... *)
Verify(w) ==
    /\ pc[w] = "verify"
    /\ IF Verified(w) THEN Goto(w, "burn") ELSE Answer(w, "DENY_OPEN")
    /\ overlap' = (overlap \/ \E v \in Threads \ {w} : pc[v] = "burn")
    /\ UNCHANGED <<ring, used, breaker, boundVars>>

(* ... and the gate adds it afterwards; the signature stands in for the    *)
(* human, also for a caller who asked for one.                             *)
Burn(w) ==
    /\ pc[w] = "burn"
    /\ used' = used \cup {req[w].cmd.nonce}
    /\ Answer(w, Decide(req[w], FALSE))
    /\ UNCHANGED <<ring, breaker, overlap, boundVars>>

-----------------------------------------------------------------------------
(* The surroundings. *)

(* configure_harness_operators: OperatorKeyRing.from_pems. *)
Configure ==
    /\ keyOps < MaxKeyOps
    /\ keyOps' = keyOps + 1
    /\ \E k \in Keys : ring' = Add(<<>>, k, NoExpiry)
    /\ UNCHANGED <<used, breaker, threadVars, granted, overlap, clock, arrivals,
                   switches, boots>>

(* safety_halt and safety_resume; gated follows a halt that is lifted. *)
Switch ==
    /\ switches < MaxSwitches
    /\ switches' = switches + 1
    /\ breaker' = ~breaker
    /\ gated' = [w \in Threads |-> gated[w] /\ breaker']
    /\ UNCHANGED <<ring, used, pc, req, allow, granted, overlap, clock, arrivals,
                   keyOps, boots>>

Tick ==
    /\ clock < MaxClock
    /\ clock' = clock + 1
    /\ UNCHANGED <<ring, used, breaker, threadVars, granted, overlap, arrivals,
                   keyOps, switches, boots>>

(* A new process: the harness ring is written to the store by Configure    *)
(* and never read back, the used nonces and the breaker are in memory.     *)
Restart ==
    /\ boots < MaxBoots
    /\ boots' = boots + 1
    /\ ring' = <<>> /\ used' = {} /\ breaker' = FALSE
    /\ pc' = [w \in Threads |-> "idle"]
    /\ req' = [w \in Threads |-> NoRequest]
    /\ allow' = [w \in Threads |-> {}]
    /\ gated' = [w \in Threads |-> FALSE]
    /\ UNCHANGED <<granted, overlap, clock, arrivals, keyOps, switches>>

Step(w) == Evaluate(w) \/ Verify(w) \/ Burn(w)

(* What a step that ends a request answers. *)
Said(w) ==
    CASE pc[w] = "call" -> Verdict(w)
      [] pc[w] = "verify" -> "DENY_OPEN"
      [] OTHER -> Decide(req[w], FALSE)

Next ==
    \/ \E w \in Threads : Step(w) \/ AnyCaller(w)
    \/ Configure \/ Switch \/ Tick \/ Restart

Spec == Init /\ [][Next]_vars

-----------------------------------------------------------------------------
(* Every variable holds a value of its type, and a thread has a request    *)
(* exactly while it runs one.  Part of ApplyNeedsOperator.                 *)
TypeOK ==
    /\ ring \in Seq(Entry) /\ used \subseteq Nat /\ breaker \in BOOLEAN
    /\ pc \in [Threads -> {"idle", "call", "verify", "burn"}]
    /\ \A w \in Threads :
          /\ pc[w] = "idle" <=> req[w] = NoRequest
          /\ pc[w] # "idle" => req[w].kind \in {"explore", "apply"}
          /\ allow[w] \subseteq Keys /\ gated[w] \in BOOLEAN
          /\ pc[w] \in {"verify", "burn"} => req[w].cmd \in Command
    /\ overlap \in BOOLEAN

(* When the gate is enforced, a change is allowed only to a request with a *)
(* command for this very body, signed by a key on record, and never to a   *)
(* request the policy refuses or one that ran entirely under a halt,       *)
(* however the keyring and the breaker change while it runs.  Within a     *)
(* process, and as long as no two requests are between the check and the   *)
(* burn at once, a nonce allows one change.                                *)
ApplyNeedsOperator ==
    /\ TypeOK
    /\ HarnessEnforced =>
        \A i \in DOMAIN granted :
            LET r == granted[i].req
            IN  /\ r.cmd \in Command
                /\ r.cmd.body = r.body /\ r.cmd.scope = Scope
                /\ r.cmd.signer \in Keys
                /\ r.policy /\ ~granted[i].halted
    /\ HarnessEnforced /\ ~overlap =>
        \A i, j \in DOMAIN granted :
            /\ granted[i].req.cmd.nonce = granted[j].req.cmd.nonce
            /\ granted[i].boot = granted[j].boot
            => i = j
=============================================================================
