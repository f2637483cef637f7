--------------------------- MODULE HarnessClient ---------------------------
(***************************************************************************)
(* src/src/service/harness_client.py, the harness side of the gate, and    *)
(* the loop of src/examples/harness_loop.py that asks it before every      *)
(* action, composed with the gate of HarnessGate over HTTP: an attempt may *)
(* fail before it arrives, arrive after the client gave up on it, or be    *)
(* answered to a client that no longer listens.  Other callers post to the *)
(* gate as well.                                                           *)
(***************************************************************************)
EXTENDS HarnessGate

CONSTANTS
    HarnessKey,    \* the operator key the loop signs with, or NoKey
    Retries,       \* HarnessAuthorizer.retries
    AllowDormant,  \* HarnessAuthorizer.allow_dormant
    NoId,          \* a thread that serves another caller
    NoReply,
    MaxCalls       \* bound: calls of may_apply

ASSUME ClientAssumption ==
    /\ HarnessKey \in Keys \cup {NoKey}
    /\ Retries \in Nat /\ MaxCalls \in Nat
    /\ AllowDormant \in BOOLEAN
    /\ NoId \notin Nat \X Nat /\ NoReply # "ALLOW"
    /\ {"harness_apply", Scope, "patch"} \subseteq STRING

(* A header is not a command when it is absent or does not parse; and the  *)
(* gate has one set of nonces for all its callers, so other callers take   *)
(* theirs from elsewhere than the counter of the loop.                     *)
ASSUME NoncesApart ==
    /\ NoCmd \notin Command /\ BadCmd \notin Command
    /\ \A r \in Requests : r.cmd \in Command => r.cmd.nonce \notin 1..MaxCalls

VARIABLES
    apiKeyOk,   \* the gateway knows the client's API key
    client,     \* the client is idle, about to send, or waits
    asked,      \* the request of the call, and of the last one when idle
    attempt,    \* _query's counter
    nonce,      \* HarnessLoop._nonce
    wire,       \* attempts on their way to the gate: [id, req]
    serves,     \* the attempt each thread of the gate works for
    reply,      \* the answer on its way back
    calls,      \* how often may_apply was called
    outcome,    \* what the last call returned, and what held during it
    changes,    \* the changes the loop was cleared to make: [req, boot]
    smooth,     \* nothing failed or changed since the call began
    stopped     \* the breaker has been open since the call began

clientVars == <<apiKeyOk, client, asked, attempt, nonce, wire, serves, reply,
                calls, outcome, changes, smooth, stopped>>
callVars == <<client, asked, attempt, nonce, calls, outcome, changes>>
allVars == <<vars, clientVars>>

NoOutcome == [ok |-> FALSE, smooth |-> FALSE, stopped |-> FALSE]

ClientInit ==
    /\ Init
    /\ apiKeyOk \in BOOLEAN
    /\ client = "idle" /\ asked = NoRequest /\ attempt = 0 /\ nonce = 0
    /\ wire = {} /\ serves = [w \in Threads |-> NoId] /\ reply = NoReply
    /\ calls = 0 /\ outcome = NoOutcome /\ changes = <<>>
    /\ smooth = FALSE /\ stopped = FALSE

Id == <<calls, attempt>>

-----------------------------------------------------------------------------
(* HarnessLoop. *)

(* Mutant of SignedCmd: the nonce is that of the last command. *)
SignedCmdAgain(kind) ==
    IF HarnessKey = NoKey \/ kind # "apply" THEN NoCmd
    ELSE [verb |-> "harness_apply", scope |-> Scope, body |-> "patch",
          nonce |-> 1, stamp |-> clock, signer |-> HarnessKey]

(* _signed_cmd: a fresh nonce for every apply, nothing to sign otherwise. *)
SignedCmd(kind) ==
    IF HarnessKey = NoKey \/ kind # "apply" THEN NoCmd
    ELSE [verb |-> "harness_apply", scope |-> Scope, body |-> "patch",
          nonce |-> nonce + 1, stamp |-> clock, signer |-> HarnessKey]

(* What the gate needs to grant a request, apart from a nonce of its own. *)
Favourable(kind) ==
    /\ apiKeyOk /\ ~breaker
    /\ kind = "apply" => HarnessKey \in ActivePems(ring, clock)

Call(r) ==
    /\ client = "idle" /\ calls < MaxCalls
    /\ calls' = calls + 1
    /\ client' = "send" /\ asked' = r /\ attempt' = 0 /\ outcome' = NoOutcome
    /\ stopped' = breaker
    /\ UNCHANGED <<vars, apiKeyOk, wire, serves, reply, changes>>

(* run: one may_apply for each planned action. *)
Run(kind) ==
    /\ Call([kind |-> kind, policy |-> TRUE, override |-> FALSE, body |-> "patch",
             cmd |-> SignedCmd(kind)])
    /\ nonce' = IF SignedCmd(kind) = NoCmd THEN nonce ELSE nonce + 1
    /\ smooth' = Favourable(kind)

(* run_with_halt presents the command of the call before once more. *)
RunAgain ==
    /\ asked # NoRequest /\ asked.cmd # NoCmd
    /\ Call(asked)
    /\ smooth' = FALSE
    /\ UNCHANGED nonce

-----------------------------------------------------------------------------
(* HarnessAuthorizer. *)

(* Leave may_apply; calm: nothing has failed in this step either. *)
Return(ok, calm) ==
    /\ outcome' = [ok |-> ok, smooth |-> smooth /\ calm, stopped |-> stopped]
    /\ changes' = IF ok /\ asked.kind = "apply"
                  THEN Append(changes, [req |-> asked, boot |-> boots]) ELSE changes
    /\ client' = "idle" /\ attempt' = 0
    /\ smooth' = FALSE /\ stopped' = FALSE
    /\ UNCHANGED <<asked, nonce, calls>>

(* Mutant of MayApply: every answer of the gate that is not an error. *)
MayApplyAnswered(decision) == decision # "DENY_OPEN"

(* may_apply: ALLOW, and not from a dormant gate unless opted in. *)
MayApply(decision) == decision = "ALLOW" /\ (HarnessEnforced \/ AllowDormant)

(* An attempt has failed, the n-th: sleep and go on, or give up. *)
TryAgain(n) ==
    IF n <= Retries
    THEN /\ client' = "send" /\ attempt' = n /\ smooth' = FALSE
         /\ UNCHANGED <<asked, nonce, calls, outcome, changes, stopped>>
    ELSE Return(FALSE, FALSE)

(* The post of _query: it goes out, the connection fails, or the gateway   *)
(* does not know the API key (401, which is not tried again).              *)
Post ==
    /\ client = "send"
    /\ \/ /\ apiKeyOk
          /\ client' = "wait" /\ attempt' = attempt + 1
          /\ wire' = wire \cup {[id |-> <<calls, attempt + 1>>, req |-> asked]}
          /\ UNCHANGED <<asked, nonce, calls, outcome, changes, smooth, stopped>>
       \/ TryAgain(attempt + 1) /\ UNCHANGED wire
       \/ ~apiKeyOk /\ Return(FALSE, FALSE) /\ UNCHANGED wire
    /\ UNCHANGED <<vars, apiKeyOk, serves, reply>>

(* _to_verdict: what came back is the gate's answer, or not one of its     *)
(* answers at all (None, which refuses).                                   *)
TakeReply ==
    /\ client = "wait" /\ reply # NoReply
    /\ reply' = NoReply
    /\ Return(MayApply(reply), TRUE) \/ Return(FALSE, FALSE)
    /\ UNCHANGED <<vars, apiKeyOk, wire, serves>>

(* The timeout, or an answer that is no 200: also for an attempt that the  *)
(* gate has received, or will receive, or has answered.                    *)
Timeout ==
    /\ client = "wait"
    /\ reply' = NoReply
    /\ TryAgain(attempt)
    /\ UNCHANGED <<vars, apiKeyOk, wire, serves>>

-----------------------------------------------------------------------------
(* The gate, reached over the wire. *)

Deliver(w) ==
    \E m \in wire :
        /\ Receive(w, m.req) /\ UNCHANGED arrivals
        /\ wire' = wire \ {m}
        /\ serves' = [serves EXCEPT ![w] = m.id]
        /\ UNCHANGED <<apiKeyOk, callVars, reply, smooth, stopped>>

OtherCaller(w) ==
    /\ AnyCaller(w)
    /\ UNCHANGED clientVars

(* An answer reaches the client only on the connection it waits on. *)
Serve(w) ==
    /\ Step(w)
    /\ serves' = IF pc'[w] = "idle" THEN [serves EXCEPT ![w] = NoId] ELSE serves
    /\ reply' = IF pc'[w] = "idle" /\ client = "wait" /\ serves[w] = Id
                THEN Said(w) ELSE reply
    /\ UNCHANGED <<apiKeyOk, callVars, wire, smooth, stopped>>

(* The operator, the clock and the process of the gateway; a new process   *)
(* has none of the old connections.                                        *)
Surroundings ==
    /\ \/ Configure \/ Switch \/ Tick \/ Restart
    /\ smooth' = FALSE
    /\ stopped' = (stopped /\ breaker')
    /\ IF boots' = boots
       THEN UNCHANGED <<wire, serves, reply>>
       ELSE wire' = {} /\ serves' = [w \in Threads |-> NoId] /\ reply' = NoReply
    /\ UNCHANGED <<apiKeyOk, callVars>>

ClientNext ==
    \/ \E kind \in {"explore", "apply"} : Run(kind)
    \/ RunAgain
    \/ Post \/ TakeReply \/ Timeout
    \/ \E w \in Threads : Deliver(w) \/ OtherCaller(w) \/ Serve(w)
    \/ Surroundings

ClientSpec == ClientInit /\ [][ClientNext]_allVars

-----------------------------------------------------------------------------
(* A call that saw no failure and no change around it is granted: the loop *)
(* is refused only for a reason, never because of its own earlier calls,   *)
(* retries or commands, or because of what other callers sent.             *)
NoSpuriousRefusal == HarnessEnforced => (outcome.smooth => outcome.ok)

(* The operator's halt stops the loop: a call that ran entirely under an   *)
(* open breaker is refused, whatever was signed, retried or is still on    *)
(* its way from before.                                                    *)
HaltStopsLoop == HarnessEnforced => (outcome.stopped => ~outcome.ok)

(* Every change the loop makes is one the gate allowed, and on one signed  *)
(* command, within a life of the gateway and as long as no two requests    *)
(* raced through the check, it makes one change, however often the command *)
(* is sent again.                                                          *)
ChangeIsGranted ==
    HarnessEnforced =>
        /\ \A i \in DOMAIN changes :
              \E j \in DOMAIN granted : granted[j].req = changes[i].req
        /\ ~overlap => \A i, j \in DOMAIN changes : changes[i] = changes[j] => i = j
=============================================================================
