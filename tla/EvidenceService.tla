--------------------------- MODULE EvidenceService ---------------------------
(***************************************************************************)
(* The knowledge-query service (query/service.py): the scope gate, the     *)
(* query routes, attestation, the witness log and the live rotation of the *)
(* evidence key.  Its handlers are plain functions: FastAPI runs them on   *)
(* worker threads, they share the variables of create_app, and nothing is  *)
(* locked.  A step is a read or a write of a shared variable with the      *)
(* local work around it.                                                   *)
(***************************************************************************)
EXTENDS EvidenceLogs, FiniteSets

CONSTANTS
    Workers,        \* threads of the pool
    Graphs,         \* names of graphs
    Versions,       \* contents an artifact may have
    Bodies,         \* query plans and query texts
    Requests,       \* query requests that may arrive
    OpKey,          \* the key of the operation authority
    NoLimit,        \* max_results is None
    NoVersion,      \* no graph is loaded under the name
    NoScope,        \* no X-Evidence-Scope header
    BadScope,       \* a header that does not parse
    KindsOf,        \* KindsOf[b]: kinds of operation in the plan of b
    SizeOf,         \* SizeOf[<<b, v>>]: entities in the record for b on v
    Times,          \* what now_epoch_ns may answer
    MaxRequests, MaxRotations, MaxLoads, MaxChecks

Routes == {"op", "nl", "op_attested", "nl_attested"}
Scope ==
    [graph: Graphs, body: Bodies, capabilities: SUBSET UNION {KindsOf[b] : b \in Bodies},
     max_results: Nat \cup {NoLimit}, not_before: Nat, not_after: Nat, nonce: Nat,
     signer: {OpKey, NoKey}]
Request ==
    [route: Routes, graph: Graphs, body: Bodies, parses: BOOLEAN,
     scope: Scope \cup {NoScope, BadScope}]

(* Keys are numbered as they are generated; 0 is the key at start-up, the  *)
(* one operators pin.                                                      *)
Anchor == 0

ASSUME ServiceAssumption ==
    /\ Requests \subseteq Request
    /\ NoKey \notin Nat /\ NoLimit \notin Nat /\ NoVersion \notin Versions
    /\ NoScope \notin Scope /\ BadScope \notin Scope
    /\ SizeOf \in [Bodies \X Versions -> Nat]
    /\ Times \subseteq Nat
    /\ {MaxRequests, MaxRotations, MaxLoads, MaxChecks} \subseteq Nat

VARIABLES
    graphs, authority, provisioned, used_scope_nonces, trust_log, witness_log,
    current_key_seq, current_key_fingerprint,
    pc,         \* where each thread is
    req,        \* the query it serves
    loc,        \* its local variables
    agent,      \* a client in verify_authority
    answers,    \* what was served, in order (history)
    overlap,    \* which critical sections have overlapped (history)
    arrivals, keys, loads, checks

stateVars == <<graphs, authority, provisioned, used_scope_nonces, trust_log,
               witness_log, current_key_seq, current_key_fingerprint>>
threadVars == <<pc, req, loc>>
boundVars == <<arrivals, keys, loads, checks>>
vars == <<stateVars, threadVars, agent, answers, overlap, boundVars>>

NoRequest == [route |-> "none"]
Blank == [id |-> 0, at |-> 0, version |-> NoVersion, att |-> NoKey, log |-> <<>>,
          sk |-> NoKey, key_seq |-> 0, key_fingerprint |-> NoKey, new |-> NoKey]

Init ==
    /\ graphs = [g \in Graphs |-> NoVersion]
    /\ authority = Anchor
    /\ provisioned \in BOOLEAN
    /\ used_scope_nonces = {}
    /\ trust_log = BuildBootstrapLog(Anchor) /\ witness_log = <<>>
    /\ current_key_seq = 0 /\ current_key_fingerprint = Anchor
    /\ pc = [w \in Workers |-> "idle"]
    /\ req = [w \in Workers |-> NoRequest]
    /\ loc = [w \in Workers |-> Blank]
    /\ agent = [pc |-> "idle", key |-> NoKey, cached |-> NoKey, verdict |-> FALSE,
                calm |-> FALSE]
    /\ answers = <<>> /\ overlap = {}
    /\ arrivals = 0 /\ keys = 1 /\ loads = 0 /\ checks = 0

Goto(w, from, to) == pc[w] = from /\ pc' = [pc EXCEPT ![w] = to]
Set(w, l) == loc' = [loc EXCEPT ![w] = l] /\ UNCHANGED req

Appending(w) == pc[w] \in {"read_key", "read_binding", "append"}
Attesting(w) == Appending(w) \/ pc[w] = "read_log"
Rotating(w) == pc[w] \in {"rotate_log", "rotate_key", "rotate_append", "swap",
                          "set_seq", "set_fingerprint"}
Others(w) == Workers \ {w}
Note(kind, happens) == IF happens THEN {kind} ELSE {}

(* The response is sent, or the HTTPException; the thread is free again. *)
Leave(w, from) ==
    /\ Goto(w, from, "idle")
    /\ req' = [req EXCEPT ![w] = NoRequest]
    /\ loc' = [loc EXCEPT ![w] = Blank]

Serve(w, from, v) ==
    /\ Leave(w, from)
    /\ answers' = Append(answers, [id |-> loc[w].id, at |-> loc[w].at, req |-> req[w],
                                   version |-> v, key |-> loc[w].att])

-----------------------------------------------------------------------------
(* require_scope *)

Arrive(w, r) ==
    /\ arrivals < MaxRequests
    /\ Goto(w, "idle", "gate")
    /\ req' = [req EXCEPT ![w] = r]
    /\ loc' = [loc EXCEPT ![w] = [Blank EXCEPT !.id = arrivals + 1]]
    /\ arrivals' = arrivals + 1
    /\ UNCHANGED <<stateVars, agent, answers, overlap, keys, loads, checks>>

(* The header is there and parses, and verify_scope accepts it.  The graph *)
(* name it is given is the scope's own, so that check always succeeds; the *)
(* body is checked by the handler.                                         *)
VerifyScope(s, now) ==
    /\ s \notin {NoScope, BadScope}
    /\ s.nonce \notin used_scope_nonces
    /\ s.not_before <= now /\ now <= s.not_after
    /\ s.signer = OpKey

GateDormant(w) ==
    /\ Goto(w, "gate", "run")
    /\ ~provisioned
    /\ UNCHANGED <<stateVars, req, loc, agent, answers, overlap, boundVars>>

GateRefuse(w, now) ==
    /\ Leave(w, "gate")
    /\ provisioned
    /\ ~VerifyScope(req[w].scope, now)
    /\ UNCHANGED <<stateVars, agent, answers, overlap, boundVars>>

GateVerify(w, now) ==
    /\ Goto(w, "gate", "burn")
    /\ provisioned
    /\ VerifyScope(req[w].scope, now)
    /\ Set(w, [loc[w] EXCEPT !.at = now])
    /\ overlap' = overlap \cup
          Note("nonce", \E o \in Others(w) :
                  pc[o] = "burn" /\ req[o].scope.nonce = req[w].scope.nonce)
    /\ UNCHANGED <<stateVars, agent, answers, boundVars>>

(* Mutant of Burn: the nonce is not added. *)
BurnKeepsNonce(w) ==
    /\ Goto(w, "burn", "run")
    /\ UNCHANGED <<stateVars, req, loc, agent, answers, overlap, boundVars>>

Burn(w) ==
    /\ Goto(w, "burn", "run")
    /\ used_scope_nonces' = used_scope_nonces \cup {req[w].scope.nonce}
    /\ UNCHANGED <<graphs, authority, provisioned, trust_log, witness_log,
                   current_key_seq, current_key_fingerprint, req, loc, agent,
                   answers, overlap, boundVars>>

-----------------------------------------------------------------------------
(* The query routes up to the record: parsing, bindings and limits.        *)

Attested(r) == r.route \in {"op_attested", "nl_attested"}

(* /query/nl looks at the binding itself and _run does for the op routes;  *)
(* /query/nl/attested tells _run that it is done.                          *)
BindingChecked(r) == r.route # "nl_attested"

(* Mutant of EnforceConstraints: one result too many. *)
EnforceConstraintsOneMore(s, kinds, size) ==
    /\ s.capabilities # {} => kinds \subseteq s.capabilities
    /\ s.max_results # NoLimit => size <= s.max_results + 1

EnforceConstraints(s, kinds, size) ==
    /\ s.capabilities # {} => kinds \subseteq s.capabilities
    /\ s.max_results # NoLimit => size <= s.max_results

Admitted(r) ==
    /\ r.parses
    /\ graphs[r.graph] # NoVersion
    /\ provisioned =>
          /\ BindingChecked(r) => r.scope.body = r.body
          /\ EnforceConstraints(r.scope, KindsOf[r.body], SizeOf[<<r.body, graphs[r.graph]>>])

RunRefuse(w) ==
    /\ Leave(w, "run")
    /\ ~Admitted(req[w])
    /\ UNCHANGED <<stateVars, agent, answers, overlap, boundVars>>

(* The graph is read once; the record is of what it held then. *)
RunServe(w) ==
    /\ Serve(w, "run", graphs[req[w].graph])
    /\ ~Attested(req[w])
    /\ Admitted(req[w])
    /\ UNCHANGED <<stateVars, agent, overlap, boundVars>>

RunAttested(w) ==
    /\ Goto(w, "run", "attest")
    /\ Attested(req[w])
    /\ Admitted(req[w])
    /\ Set(w, [loc[w] EXCEPT !.version = graphs[req[w].graph]])
    /\ UNCHANGED <<stateVars, agent, answers, overlap, boundVars>>

LoadGraph(g, v) ==
    /\ loads < MaxLoads
    /\ graphs' = [graphs EXCEPT ![g] = v]
    /\ loads' = loads + 1
    /\ UNCHANGED <<authority, provisioned, used_scope_nonces, trust_log, witness_log,
                   current_key_seq, current_key_fingerprint, threadVars, agent,
                   answers, overlap, arrivals, keys, checks>>

-----------------------------------------------------------------------------
(* _run_attested and _append_witness.  The arguments of append_entry are   *)
(* evaluated in turn, with calls between them: the log, the signing key,   *)
(* then the number and the fingerprint of the key.                         *)

witnessFrame == <<graphs, authority, provisioned, used_scope_nonces, trust_log,
                  current_key_seq, current_key_fingerprint>>

Attest(w) ==
    /\ Goto(w, "attest", "read_log")
    /\ Set(w, [loc[w] EXCEPT !.att = authority])
    /\ overlap' = overlap \cup Note("rotate", \E o \in Others(w) : Rotating(o))
    /\ UNCHANGED <<stateVars, agent, answers, boundVars>>

ReadLog(w) ==
    /\ Goto(w, "read_log", "read_key")
    /\ Set(w, [loc[w] EXCEPT !.log = witness_log])
    /\ overlap' = overlap \cup Note("append", \E o \in Others(w) : Appending(o))
    /\ UNCHANGED <<stateVars, agent, answers, boundVars>>

ReadKey(w) ==
    /\ Goto(w, "read_key", "read_binding")
    /\ Set(w, [loc[w] EXCEPT !.sk = authority])
    /\ UNCHANGED <<stateVars, agent, answers, overlap, boundVars>>

ReadBinding(w) ==
    /\ Goto(w, "read_binding", "append")
    /\ Set(w, [loc[w] EXCEPT !.key_seq = current_key_seq,
                             !.key_fingerprint = current_key_fingerprint])
    /\ UNCHANGED <<stateVars, agent, answers, overlap, boundVars>>

(* Mutant of AppendWitness: the entry goes to the end of the shared list. *)
AppendWitnessInPlace(w) ==
    /\ Serve(w, "append", loc[w].version)
    /\ witness_log' = Append(witness_log,
          WitnessEntry(loc[w].log, loc[w].id, loc[w].sk, loc[w].key_seq,
                       loc[w].key_fingerprint))
    /\ UNCHANGED <<witnessFrame, agent, overlap, boundVars>>

AppendWitness(w) ==
    /\ Serve(w, "append", loc[w].version)
    /\ witness_log' = AppendEntry(loc[w].log, loc[w].id, loc[w].sk, loc[w].key_seq,
                                  loc[w].key_fingerprint)
    /\ UNCHANGED <<witnessFrame, agent, overlap, boundVars>>

-----------------------------------------------------------------------------
(* rotate_evidence_key, statement by statement. *)

rotateFrame == <<graphs, provisioned, used_scope_nonces, answers, overlap, boundVars>>

RotateBegin(w) ==
    /\ Goto(w, "idle", "rotate_log")
    /\ keys <= MaxRotations
    /\ Set(w, [Blank EXCEPT !.new = keys])
    /\ keys' = keys + 1
    /\ overlap' = overlap \cup Note("rotate", \E o \in Others(w) : Attesting(o) \/ Rotating(o))
    /\ agent' = [agent EXCEPT !.calm = FALSE]
    /\ UNCHANGED <<stateVars, answers, arrivals, loads, checks>>

RotateReadLog(w) ==
    /\ Goto(w, "rotate_log", "rotate_key")
    /\ Set(w, [loc[w] EXCEPT !.log = trust_log])
    /\ UNCHANGED <<stateVars, agent, answers, overlap, boundVars>>

RotateReadKey(w) ==
    /\ Goto(w, "rotate_key", "rotate_append")
    /\ Set(w, [loc[w] EXCEPT !.sk = authority])
    /\ UNCHANGED <<stateVars, agent, answers, overlap, boundVars>>

(* Mutant of RotateAppend: the new key signs its own entry. *)
RotateAppendSelfSigned(w) ==
    /\ Goto(w, "rotate_append", "swap")
    /\ trust_log' = AppendRotate(loc[w].log, loc[w].new, loc[w].new)
    /\ UNCHANGED <<rotateFrame, authority, witness_log, current_key_seq,
                   current_key_fingerprint, req, loc, agent>>

RotateAppend(w) ==
    /\ Goto(w, "rotate_append", "swap")
    /\ trust_log' = AppendRotate(loc[w].log, loc[w].new, loc[w].sk)
    /\ UNCHANGED <<rotateFrame, authority, witness_log, current_key_seq,
                   current_key_fingerprint, req, loc, agent>>

(* Mutant of RotateSwap: a new key starts a new witness log. *)
RotateSwapFreshLog(w) ==
    /\ Goto(w, "swap", "set_seq")
    /\ authority' = loc[w].new /\ witness_log' = <<>>
    /\ UNCHANGED <<rotateFrame, trust_log, current_key_seq, current_key_fingerprint,
                   req, loc, agent>>

RotateSwap(w) ==
    /\ Goto(w, "swap", "set_seq")
    /\ authority' = loc[w].new
    /\ UNCHANGED <<rotateFrame, trust_log, witness_log, current_key_seq,
                   current_key_fingerprint, req, loc, agent>>

RotateSetSeq(w) ==
    /\ Goto(w, "set_seq", "set_fingerprint")
    /\ current_key_seq' = trust_log[Len(trust_log)].seq
    /\ UNCHANGED <<rotateFrame, authority, trust_log, witness_log,
                   current_key_fingerprint, req, loc, agent>>

RotateSetFingerprint(w) ==
    /\ Leave(w, "set_fingerprint")
    /\ current_key_fingerprint' = authority
    /\ UNCHANGED <<rotateFrame, authority, trust_log, witness_log, current_key_seq, agent>>

-----------------------------------------------------------------------------
(* KnowledgeAgent.verify_authority: one response, whose key is read before *)
(* its trust log.                                                          *)

AgentFetch ==
    /\ checks < MaxChecks
    /\ agent.pc = "idle"
    /\ agent' = [agent EXCEPT !.pc = "log", !.key = authority, !.verdict = FALSE,
          !.calm = "rotate" \notin overlap /\ \A w \in Workers : ~Rotating(w)]
    /\ checks' = checks + 1
    /\ UNCHANGED <<stateVars, threadVars, answers, overlap, arrivals, keys, loads>>

(* Mutant of AgentVerify: the key must be the anchor itself. *)
AgentVerifyAnchor ==
    /\ agent.pc = "log"
    /\ LET ok == VerifyTrustLog(trust_log, Anchor)
       IN  agent' = [agent EXCEPT !.pc = "idle",
                        !.cached = IF ok THEN agent.key ELSE @,
                        !.verdict = ok /\ agent.key = Anchor]
    /\ UNCHANGED <<stateVars, threadVars, answers, overlap, boundVars>>

AgentVerify ==
    /\ agent.pc = "log"
    /\ LET ok == VerifyTrustLog(trust_log, Anchor)
       IN  agent' = [agent EXCEPT !.pc = "idle",
                        !.cached = IF ok THEN agent.key ELSE @,
                        !.verdict = ok /\ agent.key = CurrentPem(trust_log)]
    /\ UNCHANGED <<stateVars, threadVars, answers, overlap, boundVars>>

Query(w) ==
    \/ \E r \in Requests : Arrive(w, r)
    \/ GateDormant(w) \/ Burn(w)
    \/ \E now \in Times : GateRefuse(w, now) \/ GateVerify(w, now)
    \/ RunRefuse(w) \/ RunServe(w) \/ RunAttested(w)
    \/ Attest(w) \/ ReadLog(w) \/ ReadKey(w) \/ ReadBinding(w) \/ AppendWitness(w)

Rotate(w) ==
    \/ RotateBegin(w) \/ RotateReadLog(w) \/ RotateReadKey(w) \/ RotateAppend(w)
    \/ RotateSwap(w) \/ RotateSetSeq(w) \/ RotateSetFingerprint(w)

Next ==
    \/ \E w \in Workers : Query(w) \/ Rotate(w)
    \/ \E g \in Graphs, v \in Versions : LoadGraph(g, v)
    \/ AgentFetch \/ AgentVerify

Spec == Init /\ [][Next]_vars

-----------------------------------------------------------------------------
Key == 0 .. MaxRotations

(* Every variable has the shape the handlers rely on; a key number always  *)
(* names an entry that a trust log can have.                               *)
TypeOK ==
    /\ graphs \in [Graphs -> Versions \cup {NoVersion}]
    /\ authority \in Key /\ current_key_fingerprint \in Key
    /\ current_key_seq \in 0 .. MaxRotations
    /\ provisioned \in BOOLEAN
    /\ used_scope_nonces \subseteq Nat
    /\ Len(trust_log) \in 1 .. MaxRotations + 1
    /\ \A i \in DOMAIN trust_log : {trust_log[i].pem, trust_log[i].sig} \subseteq Key
    /\ Len(witness_log) <= MaxRequests
    /\ \A i \in DOMAIN witness_log :
          /\ witness_log[i].id \in 1 .. MaxRequests
          /\ {witness_log[i].sig, witness_log[i].key_fingerprint} \subseteq Key
    /\ \A w \in Workers : req[w] \in Requests \cup {NoRequest}
    /\ overlap \subseteq {"nonce", "append", "rotate"}

(* Whatever appends and rotations overlap on the threads, both logs stay   *)
(* hash chains without a gap: an overlap may drop an entry, it never       *)
(* leaves a log that fails to verify because of its links.                 *)
ChainsIntact == Chained(trust_log) /\ Chained(witness_log)

AttestedAnswers == {i \in DOMAIN answers : answers[i].key # NoKey}

(* As long as no two appends have overlapped, the witness log is the       *)
(* record of every attested answer, in the order in which they were        *)
(* served, across any rotation of the key.                                 *)
SerialComplete ==
    "append" \notin overlap =>
        /\ Len(witness_log) = Cardinality(AttestedAnswers)
        /\ \A i \in AttestedAnswers :
              witness_log[Cardinality({j \in AttestedAnswers : j <= i})].id = answers[i].id

(* As long as no rotation has overlapped an append or another rotation,    *)
(* the trust log verifies under the pinned anchor and its last key is the  *)
(* one in force, and every entry of the witness log verifies under the key *)
(* it names, which is the key that attested the answer: rotations leave    *)
(* the old entries verifiable.                                             *)
SerialAnchored ==
    "rotate" \notin overlap =>
        /\ VerifyTrustLog(trust_log, Anchor)
        /\ (\A w \in Workers : ~Rotating(w)) => CurrentPem(trust_log) = authority
        /\ witness_log # <<>> => VerifyWitnessLogAnchored(witness_log, trust_log)
        /\ \A i \in DOMAIN witness_log, j \in DOMAIN answers :
              answers[j].id = witness_log[i].id => answers[j].key = witness_log[i].sig

(* When the gate is on, whatever is served was asked for under a scope     *)
(* that the operation authority signed, in its time window, within its     *)
(* capabilities and its size on the very contents that were served, and,   *)
(* except on /query/nl/attested, for that query.                           *)
ScopeRespected ==
    /\ TypeOK
    /\ provisioned =>
        \A i \in DOMAIN answers :
            LET r == answers[i].req
                s == r.scope
            IN  /\ s \notin {NoScope, BadScope}
                /\ s.signer = OpKey
                /\ s.not_before <= answers[i].at /\ answers[i].at <= s.not_after
                /\ s.capabilities # {} => KindsOf[r.body] \subseteq s.capabilities
                /\ s.max_results # NoLimit =>
                      SizeOf[<<r.body, answers[i].version>>] <= s.max_results
                /\ r.route # "nl_attested" => s.body = r.body

(* As long as no two requests with one nonce were between the check and    *)
(* the burn at once, a scope is good for one answer.                       *)
SerialScopeOnce ==
    provisioned /\ "nonce" \notin overlap =>
        \A i, j \in DOMAIN answers :
            answers[i].req.scope.nonce = answers[j].req.scope.nonce => i = j

(* An agent that checks the service's key while no rotation is running     *)
(* accepts it, also after earlier rotations, and holds the key in force    *)
(* until the next one begins.                                              *)
AgentAccepts ==
    agent.calm /\ agent.pc = "idle" => agent.verdict /\ agent.cached = authority

-----------------------------------------------------------------------------
(* scope.py: "a scope for one graph cannot satisfy another" and "the scope *)
(* binds to the exact query body (raw NL text for /query/nl*".  The gate   *)
(* compares the scope's graph with itself, and /query/nl/attested checks   *)
(* no body.                                                                *)
ScopeBinds ==
    provisioned =>
        \A i \in DOMAIN answers :
            /\ answers[i].req.scope.graph = answers[i].req.graph
            /\ answers[i].req.scope.body = answers[i].req.body
=============================================================================
