--------------------------- MODULE EvidenceProofs ---------------------------
(***************************************************************************)
(* Proofs about EvidenceService for every number of threads, keys and      *)
(* requests.  First, its logs stay hash chains: a thread writes back a log *)
(* it read some steps ago, so the invariant says the same of every copy a  *)
(* thread holds.  Then what is served is in its scope, a scope serves      *)
(* once, the witness log is complete, and rotations keep both logs         *)
(* verifiable, the last three while the critical sections they depend on   *)
(* do not overlap.                                                         *)
(***************************************************************************)
EXTENDS EvidenceService, FiniteSetTheorems, TLAPS

IsSeq(log) == \E S : log \in Seq(S)
Sound(log) == IsSeq(log) /\ Chained(log)

(* The local variables of a thread: there is a log among them. *)
Local(l) == "log" \in DOMAIN l /\ Sound(l.log)

ChainInv ==
    /\ Sound(trust_log) /\ Sound(witness_log)
    /\ DOMAIN loc = Workers
    /\ \A w \in Workers : Local(loc[w])

(* An entry that carries the length of a log as its number and the hash of *)
(* the last entry extends the chain, as append_rotate and append_entry do. *)
LEMMA ChainExtends ==
    ASSUME NEW log, Sound(log), NEW e, e.seq = Len(log), e.prev = PrevHash(log)
    PROVE  Sound(Append(log, e))
<1> DEFINE new == Append(log, e)
<1>1. PICK S : log \in Seq(S)
  BY DEF Sound, IsSeq
<1>2. log \in Seq(S \cup {e})
  BY <1>1
<1>3. new \in Seq(S \cup {e})
  BY <1>2
<1>4. /\ Len(new) = Len(log) + 1 /\ DOMAIN new = 1 .. Len(log) + 1
      /\ new[Len(log) + 1] = e /\ \A i \in 1 .. Len(log) : new[i] = log[i]
      /\ DOMAIN log = 1 .. Len(log) /\ Len(log) \in Nat
  BY <1>2
<1>5. ASSUME NEW i \in DOMAIN new
      PROVE  /\ new[i].seq = i - 1
             /\ new[i].prev = IF i = 1 THEN <<>> ELSE Canonical(new[i - 1])
  <2>1. CASE i \in 1 .. Len(log)
    <3>1. new[i] = log[i] /\ i \in DOMAIN log
      BY <1>4, <2>1
    <3>2. i # 1 => new[i - 1] = log[i - 1]
      BY <1>4, <2>1
    <3>3. log[i].seq = i - 1 /\ log[i].prev = IF i = 1 THEN <<>> ELSE Canonical(log[i - 1])
      BY <3>1 DEF Sound, Chained
    <3>4. CASE i = 1
      BY <3>1, <3>3, <3>4
    <3>5. CASE i # 1
      BY <3>1, <3>2, <3>3, <3>5
    <3> QED
      BY <3>4, <3>5
  <2>2. CASE i = Len(log) + 1
    <3>1. new[i].seq = i - 1 /\ new[i].prev = PrevHash(log)
      BY <1>4, <2>2
    <3>2. i = 1 <=> log = <<>>
      BY <1>1, <1>4, <2>2
    <3>3. CASE i = 1
      BY <3>1, <3>2, <3>3 DEF PrevHash
    <3>4. CASE i # 1
      <4>1. i - 1 = Len(log) /\ Len(log) \in 1 .. Len(log)
        BY <1>4, <2>2, <3>4
      <4>2. new[i - 1] = log[Len(log)]
        BY <1>4, <4>1
      <4> QED
        BY <3>1, <3>2, <3>4, <4>2 DEF PrevHash
    <3> QED
      BY <3>3, <3>4
  <2> QED
    BY <1>4, <1>5, <2>1, <2>2
<1> QED
  BY <1>3, <1>5 DEF Sound, IsSeq, Chained

(* The logs a process starts with. *)
LEMMA ChainStarts == Sound(<<>>) /\ Sound(BuildBootstrapLog(Anchor))
<1> DEFINE b == [seq |-> 0, action |-> "bootstrap", pem |-> Anchor, prev |-> <<>>,
                 sig |-> Anchor]
<1>1. <<>> \in Seq({}) /\ <<b>> \in Seq({b}) /\ DOMAIN <<b>> = {1} /\ <<b>>[1] = b
  OBVIOUS
<1>2. Sound(<<>>)
  BY <1>1 DEF Sound, IsSeq, Chained
<1>3. IsSeq(<<b>>)
  BY <1>1 DEF IsSeq
<1>4. Chained(<<b>>)
  BY <1>1 DEF Chained
<1> QED
  BY <1>2, <1>3, <1>4 DEF Sound, BuildBootstrapLog

(* What the local variables of a thread may become without a new log. *)
LEMMA LocalsKeep ==
    ASSUME ChainInv, NEW w \in Workers, NEW l, Local(l),
           loc' = [loc EXCEPT ![w] = l]
    PROVE  DOMAIN loc' = Workers /\ \A o \in Workers : Local(loc'[o])
BY DEF ChainInv

(* Every step keeps both logs, and every copy of one, a chain. *)
LEMMA ChainStep == ChainInv /\ [Next]_vars => ChainInv'
<1> SUFFICES ASSUME ChainInv, [Next]_vars PROVE ChainInv'
  OBVIOUS
<1> DEFINE Logs == UNCHANGED <<trust_log, witness_log>>
           Copies == DOMAIN loc' = Workers /\ \A o \in Workers : Local(loc'[o])
<1>b. Local(Blank) /\ \A k : Local([Blank EXCEPT !.new = k])
                             /\ Local([Blank EXCEPT !.id = k])
  BY ChainStarts DEF Blank, Local
<1>c. Logs /\ Copies => ChainInv'
  BY DEF ChainInv
<1>d. Logs /\ UNCHANGED loc => ChainInv'
  BY DEF ChainInv
<1>e. ASSUME NEW w \in Workers, NEW from, Leave(w, from) PROVE Copies
  BY <1>b, <1>e, LocalsKeep DEF Leave
<1>1. CASE UNCHANGED vars
  BY <1>1, <1>d DEF vars, stateVars, threadVars
<1>2. ASSUME NEW w \in Workers, Query(w) PROVE ChainInv'
  <2>1. ASSUME NEW r \in Requests, Arrive(w, r) PROVE ChainInv'
    <3>1. Copies
      BY <1>b, <2>1, LocalsKeep DEF Arrive
    <3> QED
      BY <1>c, <2>1, <3>1 DEF Arrive, stateVars
  <2>2. CASE GateDormant(w)
    BY <1>d, <2>2 DEF GateDormant, stateVars
  <2>3. ASSUME NEW now \in Times, GateRefuse(w, now) PROVE ChainInv'
    BY <1>c, <1>e, <2>3 DEF GateRefuse, stateVars
  <2>4. ASSUME NEW now \in Times, GateVerify(w, now) PROVE ChainInv'
    <3>1. Local([loc[w] EXCEPT !.at = now])
      BY DEF ChainInv, Local
    <3>2. Copies
      BY <2>4, <3>1, LocalsKeep DEF GateVerify, Set
    <3> QED
      BY <1>c, <2>4, <3>2 DEF GateVerify, stateVars
  <2>5. CASE Burn(w)
    BY <1>d, <2>5 DEF Burn
  <2>6. CASE RunRefuse(w)
    BY <1>c, <1>e, <2>6 DEF RunRefuse, stateVars
  <2>7. CASE RunServe(w)
    BY <1>c, <1>e, <2>7 DEF RunServe, Serve, stateVars
  <2>8. CASE RunAttested(w)
    <3>1. Local([loc[w] EXCEPT !.version = graphs[req[w].graph]])
      BY DEF ChainInv, Local
    <3>2. Copies
      BY <2>8, <3>1, LocalsKeep DEF RunAttested, Set
    <3> QED
      BY <1>c, <2>8, <3>2 DEF RunAttested, stateVars
  <2>9. CASE Attest(w)
    <3>1. Local([loc[w] EXCEPT !.att = authority])
      BY DEF ChainInv, Local
    <3>2. Copies
      BY <2>9, <3>1, LocalsKeep DEF Attest, Set
    <3> QED
      BY <1>c, <2>9, <3>2 DEF Attest, stateVars
  <2>10. CASE ReadLog(w)
    <3>1. Local([loc[w] EXCEPT !.log = witness_log])
      BY DEF ChainInv, Local
    <3>2. Copies
      BY <2>10, <3>1, LocalsKeep DEF ReadLog, Set
    <3> QED
      BY <1>c, <2>10, <3>2 DEF ReadLog, stateVars
  <2>11. CASE ReadKey(w)
    <3>1. Local([loc[w] EXCEPT !.sk = authority])
      BY DEF ChainInv, Local
    <3>2. Copies
      BY <2>11, <3>1, LocalsKeep DEF ReadKey, Set
    <3> QED
      BY <1>c, <2>11, <3>2 DEF ReadKey, stateVars
  <2>12. CASE ReadBinding(w)
    <3>1. Local([loc[w] EXCEPT !.key_seq = current_key_seq,
                             !.key_fingerprint = current_key_fingerprint])
      BY DEF ChainInv, Local
    <3>2. Copies
      BY <2>12, <3>1, LocalsKeep DEF ReadBinding, Set
    <3> QED
      BY <1>c, <2>12, <3>2 DEF ReadBinding, stateVars
  <2>13. CASE AppendWitness(w)
    <3> DEFINE l == loc[w]
               e == WitnessEntry(l.log, l.id, l.sk, l.key_seq, l.key_fingerprint)
    <3>1. e.seq = Len(l.log) /\ e.prev = PrevHash(l.log)
      BY DEF WitnessEntry
    <3>2. Sound(Append(l.log, e))
      <4>1. Sound(l.log)
        BY DEF ChainInv, Local
      <4> HIDE DEF e, l
      <4> QED
        BY <3>1, <4>1, ChainExtends
    <3>3. witness_log' = Append(l.log, e) /\ UNCHANGED trust_log
      BY <2>13 DEF AppendWitness, AppendEntry, witnessFrame
    <3>4. Copies
      BY <1>e, <2>13 DEF AppendWitness, Serve
    <3> QED
      BY <3>2, <3>3, <3>4 DEF ChainInv
  <2> QED
    BY <1>2, <2>1, <2>2, <2>3, <2>4, <2>5, <2>6, <2>7, <2>8, <2>9, <2>10,
       <2>11, <2>12, <2>13 DEF Query
<1>3. ASSUME NEW w \in Workers, Rotate(w) PROVE ChainInv'
  <2>1. CASE RotateBegin(w)
    <3>1. Copies
      BY <1>b, <2>1, LocalsKeep DEF RotateBegin, Set
    <3> QED
      BY <1>c, <2>1, <3>1 DEF RotateBegin, stateVars
  <2>2. CASE RotateReadLog(w)
    <3>1. Local([loc[w] EXCEPT !.log = trust_log])
      BY DEF ChainInv, Local
    <3>2. Copies
      BY <2>2, <3>1, LocalsKeep DEF RotateReadLog, Set
    <3> QED
      BY <1>c, <2>2, <3>2 DEF RotateReadLog, stateVars
  <2>3. CASE RotateReadKey(w)
    <3>1. Local([loc[w] EXCEPT !.sk = authority])
      BY DEF ChainInv, Local
    <3>2. Copies
      BY <2>3, <3>1, LocalsKeep DEF RotateReadKey, Set
    <3> QED
      BY <1>c, <2>3, <3>2 DEF RotateReadKey, stateVars
  <2>4. CASE RotateAppend(w)
    <3> DEFINE l == loc[w]
               e == [seq |-> Len(l.log), action |-> "rotate", pem |-> l.new,
                     prev |-> PrevHash(l.log), sig |-> l.sk]
    <3>1. e.seq = Len(l.log) /\ e.prev = PrevHash(l.log)
      OBVIOUS
    <3>2. Sound(Append(l.log, e))
      <4>1. Sound(l.log)
        BY DEF ChainInv, Local
      <4> HIDE DEF e, l
      <4> QED
        BY <3>1, <4>1, ChainExtends
    <3>3. trust_log' = Append(l.log, e) /\ UNCHANGED <<witness_log, loc>>
      BY <2>4 DEF RotateAppend, AppendRotate
    <3> QED
      BY <3>2, <3>3 DEF ChainInv
  <2>5. CASE RotateSwap(w)
    BY <1>d, <2>5 DEF RotateSwap
  <2>6. CASE RotateSetSeq(w)
    BY <1>d, <2>6 DEF RotateSetSeq
  <2>7. CASE RotateSetFingerprint(w)
    BY <1>c, <1>e, <2>7 DEF RotateSetFingerprint
  <2> QED
    BY <1>3, <2>1, <2>2, <2>3, <2>4, <2>5, <2>6, <2>7 DEF Rotate
<1>4. CASE \E g \in Graphs, v \in Versions : LoadGraph(g, v)
  BY <1>d, <1>4 DEF LoadGraph, threadVars
<1>5. CASE AgentFetch \/ AgentVerify
  BY <1>d, <1>5 DEF AgentFetch, AgentVerify, stateVars, threadVars
<1> QED
  BY <1>1, <1>2, <1>3, <1>4, <1>5 DEF Next

(* Whatever appends and rotations overlap, on however many threads, the    *)
(* trust log and the witness log are hash chains without a gap.            *)
THEOREM LogsStayChained == Spec => []ChainsIntact
<1>1. Init => ChainInv
  BY ChainStarts DEF Init, ChainInv, Blank, Local
<1>2. ChainInv => ChainsIntact
  BY DEF ChainInv, Sound, ChainsIntact
<1> QED
  BY <1>1, <1>2, ChainStep, PTL DEF Spec

-----------------------------------------------------------------------------
(* What is served, and how long the logs may get. *)

Serving == {"gate", "burn", "run", "attest", "read_log", "read_key", "read_binding",
            "append"}
Writing == {"read_key", "read_binding", "append"}
Proposing == {"rotate_log", "rotate_key", "rotate_append"}
Replacing == Proposing \cup {"swap", "set_seq", "set_fingerprint"}
Places == {"idle"} \cup Serving \cup Replacing

Fields == {"id", "at", "version", "att", "log", "sk", "key_seq", "key_fingerprint", "new"}
Answer == [id: Nat, at: Nat, req: Requests, version: Versions \cup {NoVersion},
           key: Key \cup {NoKey}]

TrustKeys(log) == \A i \in DOMAIN log : {log[i].pem, log[i].sig} \subseteq Key
WitnessKeys(log) ==
    \A i \in DOMAIN log :
        /\ log[i].id \in 1 .. MaxRequests
        /\ {log[i].sig, log[i].key_fingerprint} \subseteq Key

(* What require_scope has checked, and what the handler has. *)
InWindow(s, now) ==
    /\ s \notin {NoScope, BadScope} /\ s.signer = OpKey
    /\ s.not_before <= now /\ now <= s.not_after
Within(r, v) ==
    /\ EnforceConstraints(r.scope, KindsOf[r.body], SizeOf[<<r.body, v>>])
    /\ BindingChecked(r) => r.scope.body = r.body

(* A thread at p that serves r with the local variables l; on says whether *)
(* the scope gate is.                                                      *)
Thread(on, p, r, l) ==
    /\ DOMAIN l = Fields
    /\ l.id \in Nat /\ l.at \in Nat /\ l.version \in Versions \cup {NoVersion}
    /\ l.att \in Key \cup {NoKey} /\ l.key_seq \in Nat
    /\ p \in Serving => r \in Requests /\ l.id \in 1 .. MaxRequests
    /\ p \in {"rotate_append", "read_binding", "append"} => l.sk \in Key
    /\ p = "append" => l.key_fingerprint \in Key
    /\ p \in Replacing => l.new \in Key
    /\ p \in {"rotate_key", "rotate_append"} => TrustKeys(l.log)
    /\ p \in Writing => WitnessKeys(l.log)
    /\ p = "burn" => on
    /\ on => /\ p \in Serving \ {"gate"} => InWindow(r.scope, l.at)
             /\ p \in Serving \ {"gate", "burn", "run"} => Within(r, l.version)

ThreadInv ==
    /\ pc \in [Workers -> Places] /\ req \in [Workers -> Requests \cup {NoRequest}]
    /\ loc = [w \in Workers |-> loc[w]]
    /\ \A w \in Workers : Thread(provisioned, pc[w], req[w], loc[w])

SharedInv ==
    /\ graphs \in [Graphs -> Versions \cup {NoVersion}]
    /\ authority \in Key /\ current_key_fingerprint \in Key
    /\ current_key_seq \in 0 .. MaxRotations
    /\ provisioned \in BOOLEAN /\ used_scope_nonces \subseteq Nat
    /\ TrustKeys(trust_log) /\ WitnessKeys(witness_log)
    /\ overlap \subseteq {"nonce", "append", "rotate"}
    /\ keys \in 1 .. MaxRotations + 1 /\ arrivals \in 0 .. MaxRequests
    /\ answers \in Seq(Answer)
    /\ provisioned => \A i \in DOMAIN answers : /\ InWindow(answers[i].req.scope, answers[i].at)
                                               /\ Within(answers[i].req, answers[i].version)

(* The rotations that have not written the trust log, the requests that    *)
(* have not been answered: a log has room for what they will add.          *)
Pending == {w \in Workers : pc[w] \in Proposing}
Busy == {w \in Workers : pc[w] \in Serving}

RoomInv ==
    /\ IsFiniteSet(Pending) /\ IsFiniteSet(Busy)
    /\ Len(trust_log) >= 1
    /\ Len(trust_log) + Cardinality(Pending) <= keys
    /\ Len(witness_log) + Cardinality(Busy) <= arrivals
    /\ \A w \in Workers :
          /\ pc[w] \in {"rotate_key", "rotate_append"} =>
                Len(loc[w].log) + Cardinality(Pending) <= keys
          /\ pc[w] \in Writing => Len(loc[w].log) + Cardinality(Busy) <= arrivals

ServiceInv == ChainInv /\ ThreadInv /\ SharedInv /\ RoomInv

(* What an append does to a sequence, whatever is in it. *)
LEMMA Grown ==
    ASSUME NEW log, IsSeq(log), NEW e
    PROVE  /\ Len(log) \in Nat /\ DOMAIN log = 1 .. Len(log)
           /\ Len(Append(log, e)) = Len(log) + 1
           /\ DOMAIN Append(log, e) = 1 .. Len(log) + 1
           /\ Append(log, e)[Len(log) + 1] = e
           /\ \A i \in 1 .. Len(log) : Append(log, e)[i] = log[i]
<1>1. PICK S : log \in Seq(S)
  BY DEF IsSeq
<1>2. log \in Seq(S \cup {e})
  BY <1>1
<1> QED
  BY <1>2

LEMMA LenIsNat == ASSUME NEW log, IsSeq(log) PROVE Len(log) \in Nat /\ DOMAIN log = 1 .. Len(log)
BY DEF IsSeq

(* A thread w goes to p, where it serves r with the local variables l. *)
Moves(w, p, r, l) ==
    /\ UNCHANGED provisioned
    /\ pc' = [pc EXCEPT ![w] = p]
    /\ req' = [req EXCEPT ![w] = r]
    /\ loc' = [loc EXCEPT ![w] = l]

LEMMA ThreadMoves ==
    ASSUME ThreadInv, NEW w \in Workers, NEW p \in Places,
           NEW r \in Requests \cup {NoRequest}, NEW l,
           Thread(provisioned, p, r, l), Moves(w, p, r, l)
    PROVE  ThreadInv'
<1>1. /\ pc' \in [Workers -> Places] /\ req' \in [Workers -> Requests \cup {NoRequest}]
      /\ loc' = [o \in Workers |-> loc'[o]]
  BY DEF ThreadInv, Moves
<1>2. ASSUME NEW o \in Workers PROVE Thread(provisioned', pc'[o], req'[o], loc'[o])
  <2>1. CASE o = w
    <3>1. pc'[o] = p /\ req'[o] = r /\ loc'[o] = l /\ provisioned' = provisioned
      BY <2>1 DEF ThreadInv, Moves
    <3> QED
      BY <3>1
  <2>2. CASE o # w
    <3>1. /\ pc'[o] = pc[o] /\ req'[o] = req[o] /\ loc'[o] = loc[o]
          /\ provisioned' = provisioned /\ Thread(provisioned, pc[o], req[o], loc[o])
      BY <2>2 DEF ThreadInv, Moves
    <3> QED
      BY <3>1
  <2> QED
    BY <2>1, <2>2
<1> QED
  BY <1>1, <1>2 DEF ThreadInv

(* The three forms of a move in the handlers. *)
LEMMA MoveForms ==
    ASSUME ThreadInv, NEW w \in Workers, NEW from, NEW p, UNCHANGED provisioned
    PROVE  /\ Goto(w, from, p) /\ UNCHANGED <<req, loc>> => Moves(w, p, req[w], loc[w])
           /\ \A l : Goto(w, from, p) /\ Set(w, l) => Moves(w, p, req[w], l)
           /\ Leave(w, from) => Moves(w, "idle", NoRequest, Blank)
<1>1. Goto(w, from, p) /\ UNCHANGED <<req, loc>> => Moves(w, p, req[w], loc[w])
  BY DEF ThreadInv, Moves, Goto
<1>2. \A l : Goto(w, from, p) /\ Set(w, l) => Moves(w, p, req[w], l)
  BY DEF ThreadInv, Moves, Goto, Set
<1>3. Leave(w, from) => Moves(w, "idle", NoRequest, Blank)
  BY DEF Moves, Goto, Leave
<1> QED
  BY <1>1, <1>2, <1>3

LEMMA IdleThread == ASSUME NEW on PROVE Thread(on, "idle", NoRequest, Blank)
<1> USE ServiceAssumption
<1> QED
  BY DEF Thread, Blank, Fields, Serving, Replacing, Proposing, Writing

(* What each step of a handler leaves a thread with. *)
LEMMA ThreadStep == ServiceInv /\ [Next]_vars => ThreadInv'
<1> SUFFICES ASSUME ServiceInv, [Next]_vars PROVE ThreadInv'
  OBVIOUS
<1> USE ServiceAssumption
<1>i. ThreadInv /\ SharedInv
  BY DEF ServiceInv
<1>t. ASSUME NEW w \in Workers PROVE Thread(provisioned, pc[w], req[w], loc[w])
  BY <1>i DEF ThreadInv
<1>p. UNCHANGED <<provisioned, threadVars>> => ThreadInv'
  BY <1>i DEF ThreadInv, threadVars
<1>e. ASSUME NEW w \in Workers, NEW from, Leave(w, from), UNCHANGED provisioned
      PROVE  ThreadInv'
  <2>1. Moves(w, "idle", NoRequest, Blank)
    BY <1>i, <1>e, MoveForms
  <2>2. "idle" \in Places /\ NoRequest \in Requests \cup {NoRequest}
    BY DEF Places
  <2> QED
    BY <1>i, <2>1, <2>2, IdleThread, ThreadMoves
<1>m. ASSUME NEW w \in Workers, NEW from \in Places, NEW p \in Places, NEW l,
             Goto(w, from, p), UNCHANGED provisioned, Set(w, l),
             Thread(provisioned, p, req[w], l)
      PROVE  ThreadInv'
  <2>1. Moves(w, p, req[w], l)
    BY <1>i, <1>m, MoveForms
  <2>2. req[w] \in Requests \cup {NoRequest}
    BY <1>i DEF ThreadInv
  <2> QED
    BY <1>i, <1>m, <2>1, <2>2, ThreadMoves
<1>n. ASSUME NEW w \in Workers, NEW from \in Places, NEW p \in Places,
             Goto(w, from, p), UNCHANGED <<provisioned, req, loc>>,
             Thread(provisioned, p, req[w], loc[w])
      PROVE  ThreadInv'
  <2>1. Moves(w, p, req[w], loc[w])
    BY <1>i, <1>n, MoveForms
  <2>2. req[w] \in Requests \cup {NoRequest}
    BY <1>i DEF ThreadInv
  <2> QED
    BY <1>i, <1>n, <2>1, <2>2, ThreadMoves
<1>k. MaxRotations \in Nat /\ MaxRequests \in Nat /\ current_key_seq \in Nat
  BY <1>i DEF SharedInv
<1>l. Places = {"idle", "gate", "burn", "run", "attest", "read_log", "read_key",
                "read_binding", "append", "rotate_log", "rotate_key", "rotate_append",
                "swap", "set_seq", "set_fingerprint"}
  BY DEF Places, Serving, Replacing, Proposing
<1>1. CASE UNCHANGED vars
  BY <1>1, <1>p DEF vars, stateVars, threadVars
<1>2. ASSUME NEW w \in Workers, Query(w) PROVE ThreadInv'
  <2>1. ASSUME NEW r \in Requests, Arrive(w, r) PROVE ThreadInv'
    <3> DEFINE l == [Blank EXCEPT !.id = arrivals + 1]
    <3>1. Moves(w, "gate", r, l)
      BY <2>1 DEF Arrive, Moves, Goto, stateVars
    <3>2. arrivals + 1 \in 1 .. MaxRequests
      BY <1>i, <2>1 DEF Arrive, SharedInv
    <3>3. Thread(provisioned, "gate", r, l)
      BY <3>2 DEF Thread, Blank, Fields, Serving, Replacing, Proposing, Writing
    <3> QED
      BY <1>i, <1>l, <3>1, <3>3, ThreadMoves
  <2>2. CASE GateDormant(w)
    <3>1. Goto(w, "gate", "run") /\ UNCHANGED <<provisioned, req, loc>> /\ ~provisioned
      BY <2>2 DEF GateDormant, stateVars
    <3>2. Thread(provisioned, "run", req[w], loc[w])
      BY <1>t, <3>1 DEF Thread, Goto, Serving, Replacing, Proposing, Writing
    <3> QED
      BY <1>l, <1>n, <3>1, <3>2
  <2>3. ASSUME NEW now \in Times, GateRefuse(w, now) PROVE ThreadInv'
    BY <1>e, <2>3 DEF GateRefuse, stateVars
  <2>4. ASSUME NEW now \in Times, GateVerify(w, now) PROVE ThreadInv'
    <3> DEFINE l == [loc[w] EXCEPT !.at = now]
    <3>1. Goto(w, "gate", "burn") /\ UNCHANGED provisioned /\ Set(w, l) /\ provisioned
      BY <2>4 DEF GateVerify, stateVars
    <3>2. VerifyScope(req[w].scope, now)
      BY <2>4 DEF GateVerify
    <3>3. Thread(provisioned, "burn", req[w], l)
      BY <1>t, <3>1, <3>2 DEF Thread, Goto, VerifyScope, InWindow, Fields, Serving,
                              Replacing, Proposing, Writing
    <3> QED
      BY <1>l, <1>m, <3>1, <3>3
  <2>5. CASE Burn(w)
    <3>1. Goto(w, "burn", "run") /\ UNCHANGED <<provisioned, req, loc>>
      BY <2>5 DEF Burn
    <3>2. Thread(provisioned, "run", req[w], loc[w])
      BY <1>t, <3>1 DEF Thread, Goto, Serving, Replacing, Proposing, Writing
    <3> QED
      BY <1>l, <1>n, <3>1, <3>2
  <2>6. CASE RunRefuse(w)
    BY <1>e, <2>6 DEF RunRefuse, stateVars
  <2>7. CASE RunServe(w)
    BY <1>e, <2>7 DEF RunServe, Serve, stateVars
  <2>8. CASE RunAttested(w)
    <3> DEFINE v == graphs[req[w].graph]
               l == [loc[w] EXCEPT !.version = v]
    <3>1. /\ Goto(w, "run", "attest") /\ UNCHANGED provisioned /\ Set(w, l)
          /\ Admitted(req[w])
      BY <2>8 DEF RunAttested, stateVars
    <3>2. req[w] \in Requests
      BY <1>t, <3>1 DEF Thread, Goto, Serving
    <3>3. v \in Versions \cup {NoVersion}
      BY <1>i, <3>2 DEF SharedInv, Request
    <3>4. provisioned => Within(req[w], v)
      BY <3>1 DEF Admitted, Within
    <3>5. Thread(provisioned, "attest", req[w], l)
      <4> HIDE DEF v
      <4> QED
        BY <1>t, <3>1, <3>3, <3>4 DEF Thread, Goto, Fields, Serving, Replacing, Proposing, Writing
    <3> QED
      BY <1>l, <1>m, <3>1, <3>5
  <2>9. CASE Attest(w)
    <3> DEFINE l == [loc[w] EXCEPT !.att = authority]
    <3>1. Goto(w, "attest", "read_log") /\ UNCHANGED provisioned /\ Set(w, l)
      BY <2>9 DEF Attest, stateVars
    <3>2. Thread(provisioned, "read_log", req[w], l)
      BY <1>i, <1>t, <3>1 DEF SharedInv, Thread, Goto, Fields, Serving, Replacing, Proposing, Writing
    <3> QED
      BY <1>l, <1>m, <3>1, <3>2
  <2>10. CASE ReadLog(w)
    <3> DEFINE l == [loc[w] EXCEPT !.log = witness_log]
    <3>1. Goto(w, "read_log", "read_key") /\ UNCHANGED provisioned /\ Set(w, l)
      BY <2>10 DEF ReadLog, stateVars
    <3>2. Thread(provisioned, "read_key", req[w], l)
      BY <1>i, <1>t, <3>1 DEF SharedInv, Thread, Goto, Fields, Serving, Replacing, Proposing, Writing
    <3> QED
      BY <1>l, <1>m, <3>1, <3>2
  <2>11. CASE ReadKey(w)
    <3> DEFINE l == [loc[w] EXCEPT !.sk = authority]
    <3>1. Goto(w, "read_key", "read_binding") /\ UNCHANGED provisioned /\ Set(w, l)
      BY <2>11 DEF ReadKey, stateVars
    <3>2. Thread(provisioned, "read_binding", req[w], l)
      BY <1>i, <1>t, <3>1 DEF SharedInv, Thread, Goto, Fields, Serving, Replacing, Proposing, Writing
    <3> QED
      BY <1>l, <1>m, <3>1, <3>2
  <2>12. CASE ReadBinding(w)
    <3> DEFINE l == [loc[w] EXCEPT !.key_seq = current_key_seq,
                                   !.key_fingerprint = current_key_fingerprint]
    <3>1. Goto(w, "read_binding", "append") /\ UNCHANGED provisioned /\ Set(w, l)
      BY <2>12 DEF ReadBinding, stateVars
    <3>2. Thread(provisioned, "append", req[w], l)
      BY <1>i, <1>k, <1>t, <3>1 DEF SharedInv, Thread, Goto, Fields, Serving, Replacing, Proposing, Writing
    <3> QED
      BY <1>l, <1>m, <3>1, <3>2
  <2>13. CASE AppendWitness(w)
    BY <1>e, <2>13 DEF AppendWitness, Serve, witnessFrame
  <2> QED
    BY <1>2, <2>1, <2>2, <2>3, <2>4, <2>5, <2>6, <2>7, <2>8, <2>9, <2>10,
       <2>11, <2>12, <2>13 DEF Query
<1>3. ASSUME NEW w \in Workers, Rotate(w) PROVE ThreadInv'
  <2>1. CASE RotateBegin(w)
    <3> DEFINE l == [Blank EXCEPT !.new = keys]
    <3>1. Goto(w, "idle", "rotate_log") /\ UNCHANGED provisioned /\ Set(w, l)
      BY <2>1 DEF RotateBegin, stateVars
    <3>2. keys \in Key
      <4>1. keys <= MaxRotations /\ keys \in 1 .. MaxRotations + 1
        BY <1>i, <2>1 DEF RotateBegin, SharedInv
      <4> QED
        BY <1>k, <4>1 DEF Key
    <3>3. Thread(provisioned, "rotate_log", req[w], l)
      BY <3>2 DEF Thread, Blank, Fields, Serving, Replacing, Proposing, Writing
    <3> QED
      BY <1>l, <1>m, <3>1, <3>3
  <2>2. CASE RotateReadLog(w)
    <3> DEFINE l == [loc[w] EXCEPT !.log = trust_log]
    <3>1. Goto(w, "rotate_log", "rotate_key") /\ UNCHANGED provisioned /\ Set(w, l)
      BY <2>2 DEF RotateReadLog, stateVars
    <3>2. Thread(provisioned, "rotate_key", req[w], l)
      BY <1>i, <1>t, <3>1 DEF SharedInv, Thread, Goto, Fields, Serving, Replacing, Proposing, Writing
    <3> QED
      BY <1>l, <1>m, <3>1, <3>2
  <2>3. CASE RotateReadKey(w)
    <3> DEFINE l == [loc[w] EXCEPT !.sk = authority]
    <3>1. Goto(w, "rotate_key", "rotate_append") /\ UNCHANGED provisioned /\ Set(w, l)
      BY <2>3 DEF RotateReadKey, stateVars
    <3>2. Thread(provisioned, "rotate_append", req[w], l)
      BY <1>i, <1>t, <3>1 DEF SharedInv, Thread, Goto, Fields, Serving, Replacing, Proposing, Writing
    <3> QED
      BY <1>l, <1>m, <3>1, <3>2
  <2>4. CASE RotateAppend(w)
    <3>1. Goto(w, "rotate_append", "swap") /\ UNCHANGED <<provisioned, req, loc>>
      BY <2>4 DEF RotateAppend, rotateFrame
    <3>2. Thread(provisioned, "swap", req[w], loc[w])
      BY <1>t, <3>1 DEF Thread, Goto, Serving, Replacing, Proposing, Writing
    <3> QED
      BY <1>l, <1>n, <3>1, <3>2
  <2>5. CASE RotateSwap(w)
    <3>1. Goto(w, "swap", "set_seq") /\ UNCHANGED <<provisioned, req, loc>>
      BY <2>5 DEF RotateSwap, rotateFrame
    <3>2. Thread(provisioned, "set_seq", req[w], loc[w])
      BY <1>t, <3>1 DEF Thread, Goto, Serving, Replacing, Proposing, Writing
    <3> QED
      BY <1>l, <1>n, <3>1, <3>2
  <2>6. CASE RotateSetSeq(w)
    <3>1. Goto(w, "set_seq", "set_fingerprint") /\ UNCHANGED <<provisioned, req, loc>>
      BY <2>6 DEF RotateSetSeq, rotateFrame
    <3>2. Thread(provisioned, "set_fingerprint", req[w], loc[w])
      BY <1>t, <3>1 DEF Thread, Goto, Serving, Replacing, Proposing, Writing
    <3> QED
      BY <1>l, <1>n, <3>1, <3>2
  <2>7. CASE RotateSetFingerprint(w)
    BY <1>e, <2>7 DEF RotateSetFingerprint, rotateFrame
  <2> QED
    BY <1>3, <2>1, <2>2, <2>3, <2>4, <2>5, <2>6, <2>7 DEF Rotate
<1>4. CASE \E g \in Graphs, v \in Versions : LoadGraph(g, v)
  BY <1>p, <1>4 DEF LoadGraph
<1>5. CASE AgentFetch \/ AgentVerify
  BY <1>p, <1>5 DEF AgentFetch, AgentVerify, stateVars
<1> QED
  BY <1>1, <1>2, <1>3, <1>4, <1>5 DEF Next

LEMMA Bounds ==
    ASSUME SharedInv
    PROVE  /\ keys \in Nat /\ arrivals \in Nat /\ current_key_seq \in Nat
           /\ MaxRotations \in Nat /\ MaxRequests \in Nat
           /\ 1 <= keys /\ keys <= MaxRotations + 1 /\ arrivals <= MaxRequests
<1>1. MaxRotations \in Nat /\ MaxRequests \in Nat
  BY ServiceAssumption
<1> QED
  BY <1>1 DEF SharedInv

(* The sets of threads that count, when a thread moves. *)
LEMMA Counted ==
    ASSUME ThreadInv, RoomInv, NEW w \in Workers, NEW p, pc' = [pc EXCEPT ![w] = p]
    PROVE  /\ IsFiniteSet(Busy') /\ IsFiniteSet(Pending')
           /\ {Cardinality(Busy), Cardinality(Busy'),
               Cardinality(Pending), Cardinality(Pending')} \subseteq Nat
           /\ Cardinality(Busy') =
                IF pc[w] \in Serving
                THEN IF p \in Serving THEN Cardinality(Busy) ELSE Cardinality(Busy) - 1
                ELSE IF p \in Serving THEN Cardinality(Busy) + 1 ELSE Cardinality(Busy)
           /\ Cardinality(Pending') =
                IF pc[w] \in Proposing
                THEN IF p \in Proposing THEN Cardinality(Pending) ELSE Cardinality(Pending) - 1
                ELSE IF p \in Proposing THEN Cardinality(Pending) + 1 ELSE Cardinality(Pending)
<1>1. IsFiniteSet(Busy) /\ IsFiniteSet(Pending)
  BY DEF RoomInv
<1>2. DOMAIN pc = Workers
  BY DEF ThreadInv
<1>3. /\ Busy' = (IF p \in Serving THEN Busy \cup {w} ELSE Busy \ {w})
      /\ w \in Busy <=> pc[w] \in Serving
  BY <1>2 DEF Busy
<1>4. /\ Pending' = (IF p \in Proposing THEN Pending \cup {w} ELSE Pending \ {w})
      /\ w \in Pending <=> pc[w] \in Proposing
  BY <1>2 DEF Pending
<1>5. /\ IsFiniteSet(Busy')
      /\ Cardinality(Busy') =
           IF pc[w] \in Serving
           THEN IF p \in Serving THEN Cardinality(Busy) ELSE Cardinality(Busy) - 1
           ELSE IF p \in Serving THEN Cardinality(Busy) + 1 ELSE Cardinality(Busy)
  BY <1>1, <1>3, FS_AddElement, FS_RemoveElement
<1>6. /\ IsFiniteSet(Pending')
      /\ Cardinality(Pending') =
           IF pc[w] \in Proposing
           THEN IF p \in Proposing THEN Cardinality(Pending) ELSE Cardinality(Pending) - 1
           ELSE IF p \in Proposing THEN Cardinality(Pending) + 1 ELSE Cardinality(Pending)
  BY <1>1, <1>4, FS_AddElement, FS_RemoveElement
<1>7. {Cardinality(Busy), Cardinality(Busy'),
       Cardinality(Pending), Cardinality(Pending')} \subseteq Nat
  BY <1>1, <1>5, <1>6, FS_CardinalityType
<1> QED
  BY <1>5, <1>6, <1>7

LEMMA Shift ==
    ASSUME NEW n \in Nat, NEW a \in Nat, NEW b \in Nat, NEW c \in Nat, NEW d \in Nat,
           n + a <= b, b + c <= d + a
    PROVE  n + c <= d
OBVIOUS

(* There is room after a move that makes none smaller. *)
LEMMA RoomMoves ==
    ASSUME ChainInv, ThreadInv, SharedInv, RoomInv, NEW w \in Workers, NEW p, NEW l,
           IsFiniteSet(Pending'), IsFiniteSet(Busy'),
           Cardinality(Pending') \in Nat, Cardinality(Busy') \in Nat,
           Cardinality(Pending) \in Nat, Cardinality(Busy) \in Nat,
           keys' \in Nat, arrivals' \in Nat,
           pc' = [pc EXCEPT ![w] = p], loc' = [loc EXCEPT ![w] = l],
           keys + Cardinality(Pending') <= keys' + Cardinality(Pending),
           arrivals + Cardinality(Busy') <= arrivals' + Cardinality(Busy),
           Len(trust_log') >= 1,
           Len(trust_log') + Cardinality(Pending') <= keys',
           Len(witness_log') + Cardinality(Busy') <= arrivals',
           p \in {"rotate_key", "rotate_append"} =>
               Len(l.log) + Cardinality(Pending') <= keys',
           p \in Writing => Len(l.log) + Cardinality(Busy') <= arrivals'
    PROVE  RoomInv'
<1>1. keys \in Nat /\ arrivals \in Nat
  BY Bounds
<1> DEFINE P == Cardinality(Pending)
           Q == Cardinality(Pending')
           B == Cardinality(Busy)
           C == Cardinality(Busy')
<1>h. /\ P \in Nat /\ Q \in Nat /\ B \in Nat /\ C \in Nat
      /\ keys + Q <= keys' + P /\ arrivals + C <= arrivals' + B
  OBVIOUS
<1>2. ASSUME NEW o \in Workers
      PROVE  /\ pc'[o] \in {"rotate_key", "rotate_append"} =>
                   Len(loc'[o].log) + Cardinality(Pending') <= keys'
             /\ pc'[o] \in Writing => Len(loc'[o].log) + Cardinality(Busy') <= arrivals'
  <2>1. CASE o = w
    <3>1. pc'[o] = p /\ loc'[o] = l
      BY <2>1 DEF ThreadInv, ChainInv
    <3> QED
      BY <3>1
  <2>2. CASE o # w
    <3>1. pc'[o] = pc[o] /\ loc'[o] = loc[o]
      BY <2>2 DEF ThreadInv, ChainInv
    <3>2. Len(loc[o].log) \in Nat
      BY LenIsNat DEF ChainInv, Local, Sound
    <3>3. /\ pc[o] \in {"rotate_key", "rotate_append"} =>
                Len(loc[o].log) + Cardinality(Pending) <= keys
          /\ pc[o] \in Writing => Len(loc[o].log) + Cardinality(Busy) <= arrivals
      BY DEF RoomInv
    <3> HIDE DEF P, Q, B, C
    <3>4. ASSUME NEW n \in Nat
          PROVE  /\ n + P <= keys => n + Q <= keys'
                 /\ n + B <= arrivals => n + C <= arrivals'
      BY <1>1, <1>h, <3>4, Shift
    <3> QED
      BY <3>1, <3>2, <3>3, <3>4 DEF P, Q, B, C
  <2> QED
    BY <2>1, <2>2
<1> QED
  BY <1>2 DEF RoomInv

(* Every step leaves room in the logs for what is under way. *)
LEMMA RoomStep == ServiceInv /\ [Next]_vars => RoomInv'
<1> SUFFICES ASSUME ServiceInv, [Next]_vars PROVE RoomInv'
  OBVIOUS
<1> DEFINE P == Cardinality(Pending)
           B == Cardinality(Busy)
<1>i. ChainInv /\ ThreadInv /\ SharedInv /\ RoomInv
  BY DEF ServiceInv
<1>b. keys \in Nat /\ arrivals \in Nat
  BY <1>i, Bounds
<1>r. /\ Len(trust_log) >= 1 /\ Len(trust_log) + P <= keys
      /\ Len(witness_log) + B <= arrivals
  BY <1>i DEF RoomInv
<1>n. P \in Nat /\ B \in Nat
  BY <1>i, FS_CardinalityType DEF RoomInv
<1>s. Len(trust_log) \in Nat /\ Len(witness_log) \in Nat
  BY <1>i, LenIsNat DEF ChainInv, Sound
<1>w. ASSUME NEW w \in Workers
      PROVE  /\ Len(loc[w].log) \in Nat /\ IsSeq(loc[w].log)
             /\ pc[w] \in {"rotate_key", "rotate_append"} => Len(loc[w].log) + P <= keys
             /\ pc[w] \in Writing => Len(loc[w].log) + B <= arrivals
  BY <1>i, LenIsNat DEF RoomInv, ChainInv, Local, Sound
<1>p. UNCHANGED <<pc, loc, trust_log, witness_log, keys, arrivals>> => RoomInv'
  BY <1>i DEF RoomInv, Pending, Busy
<1>m. ASSUME NEW w \in Workers, NEW p, NEW l,
             pc' = [pc EXCEPT ![w] = p], loc' = [loc EXCEPT ![w] = l],
             UNCHANGED <<trust_log, witness_log, keys, arrivals>>,
             p \in Serving => pc[w] \in Serving, p \in Proposing => pc[w] \in Proposing,
             p \in {"rotate_key", "rotate_append"} => Len(l.log) + P <= keys,
             p \in Writing => Len(l.log) + B <= arrivals, Len(l.log) \in Nat
      PROVE  RoomInv'
  <2> DEFINE Q == Cardinality(Pending')
             C == Cardinality(Busy')
  <2>5. /\ IsFiniteSet(Busy') /\ IsFiniteSet(Pending')
        /\ C \in Nat /\ Q \in Nat /\ C \in {B, B - 1} /\ Q \in {P, P - 1}
    BY <1>i, <1>m, Counted
  <2>6. keys' = keys /\ arrivals' = arrivals
    BY <1>m
  <2> HIDE DEF P, B, Q, C
  <2>1. /\ IsFiniteSet(Busy') /\ IsFiniteSet(Pending')
        /\ C \in Nat /\ Q \in Nat /\ C <= B /\ Q <= P
    BY <1>n, <2>5
  <2>2. ASSUME NEW n \in Nat
        PROVE  (n + P <= keys => n + Q <= keys) /\ (n + B <= arrivals => n + C <= arrivals)
    BY <1>b, <1>n, <2>1, <2>2
  <2>3. /\ Len(trust_log') >= 1 /\ Len(trust_log') + Q <= keys'
        /\ Len(witness_log') + C <= arrivals'
        /\ p \in {"rotate_key", "rotate_append"} => Len(l.log) + Q <= keys'
        /\ p \in Writing => Len(l.log) + C <= arrivals'
        /\ keys' \in Nat /\ arrivals' \in Nat
    BY <1>b, <1>m, <1>r, <1>s, <2>2
  <2>4. keys + Q <= keys' + P /\ arrivals + C <= arrivals' + B
    BY <1>b, <1>n, <2>1, <2>6
  <2> QED
    BY <1>i, <1>m, <1>n, <2>1, <2>3, <2>4, RoomMoves DEF P, B, Q, C
<1>e. ASSUME NEW w \in Workers, NEW from, Leave(w, from),
             UNCHANGED <<trust_log, witness_log, keys, arrivals>>
      PROVE  RoomInv'
  <2>1. "idle" \notin Serving \cup Proposing \cup Writing
    BY DEF Serving, Proposing, Writing
  <2>2. Len(Blank.log) \in Nat
    BY DEF Blank
  <2> QED
    BY <1>e, <1>m, <2>1, <2>2 DEF Leave, Goto
<1>q. ASSUME NEW w \in Workers, NEW from, NEW p, NEW l, Goto(w, from, p), Set(w, l),
             UNCHANGED <<trust_log, witness_log, keys, arrivals>>,
             p \in Serving => from \in Serving, p \in Proposing => from \in Proposing,
             p \in {"rotate_key", "rotate_append"} => Len(l.log) + P <= keys,
             p \in Writing => Len(l.log) + B <= arrivals, Len(l.log) \in Nat
      PROVE  RoomInv'
  BY <1>m, <1>q DEF Goto, Set
<1>k. ASSUME NEW w \in Workers, NEW from, NEW p, Goto(w, from, p), UNCHANGED loc,
             UNCHANGED <<trust_log, witness_log, keys, arrivals>>,
             p \in Serving => from \in Serving, p \notin Proposing, p \notin Writing
      PROVE  RoomInv'
  <2>1. loc' = [loc EXCEPT ![w] = loc[w]]
    BY <1>i, <1>k DEF ThreadInv
  <2>2. p \notin {"rotate_key", "rotate_append"}
    BY <1>k DEF Proposing
  <2> QED
    BY <1>k, <1>m, <1>w, <2>1, <2>2 DEF Goto
<1> USE DEF Serving, Proposing, Writing
<1>1. CASE UNCHANGED vars
  BY <1>1, <1>p DEF vars, stateVars, threadVars, boundVars
<1>2. ASSUME NEW w \in Workers, Query(w) PROVE RoomInv'
  <2>1. ASSUME NEW r \in Requests, Arrive(w, r) PROVE RoomInv'
    <3> DEFINE l == [Blank EXCEPT !.id = arrivals + 1]
               Q == Cardinality(Pending')
               C == Cardinality(Busy')
    <3>1. /\ pc[w] = "idle" /\ pc' = [pc EXCEPT ![w] = "gate"]
          /\ loc' = [loc EXCEPT ![w] = l] /\ arrivals' = arrivals + 1
          /\ UNCHANGED <<trust_log, witness_log, keys>>
      BY <2>1 DEF Arrive, Goto, stateVars
    <3>2. /\ IsFiniteSet(Busy') /\ IsFiniteSet(Pending')
          /\ C \in Nat /\ Q \in Nat /\ C = B + 1 /\ Q = P
      BY <1>i, <3>1, Counted
    <3> HIDE DEF P, B, Q, C, l
    <3>3. /\ Len(trust_log') >= 1 /\ Len(trust_log') + Q <= keys'
          /\ Len(witness_log') + C <= arrivals'
          /\ keys' \in Nat /\ arrivals' \in Nat
          /\ keys + Q <= keys' + P /\ arrivals + C <= arrivals' + B
      <4>1. Len(trust_log') >= 1 /\ Len(trust_log') + Q <= keys' /\ keys' \in Nat
        BY <1>b, <1>n, <1>r, <1>s, <3>1, <3>2
      <4>2. Len(witness_log') + C <= arrivals' /\ arrivals' \in Nat
        BY <1>b, <1>n, <1>r, <1>s, <3>1, <3>2
      <4>3. keys + Q <= keys' + P /\ arrivals + C <= arrivals' + B
        BY <1>b, <1>n, <1>r, <1>s, <3>1, <3>2
      <4> QED
        BY <4>1, <4>2, <4>3
    <3> QED
      BY <1>i, <1>n, <3>1, <3>2, <3>3, RoomMoves DEF P, B, Q, C
  <2>2. CASE GateDormant(w)
    BY <1>k, <2>2 DEF GateDormant, stateVars, boundVars
  <2>3. ASSUME NEW now \in Times, GateRefuse(w, now) PROVE RoomInv'
    BY <1>e, <2>3 DEF GateRefuse, stateVars, boundVars
  <2>4. ASSUME NEW now \in Times, GateVerify(w, now) PROVE RoomInv'
    <3>1. Len([loc[w] EXCEPT !.at = now].log) \in Nat
      BY <1>i, <1>w DEF ChainInv, Local
    <3> QED
      BY <1>q, <2>4, <3>1 DEF GateVerify, stateVars, boundVars
  <2>5. CASE Burn(w)
    BY <1>k, <2>5 DEF Burn, boundVars
  <2>6. CASE RunRefuse(w)
    BY <1>e, <2>6 DEF RunRefuse, stateVars, boundVars
  <2>7. CASE RunServe(w)
    BY <1>e, <2>7 DEF RunServe, Serve, stateVars, boundVars
  <2>8. CASE RunAttested(w)
    <3>1. Len([loc[w] EXCEPT !.version = graphs[req[w].graph]].log) \in Nat
      BY <1>i, <1>w DEF ChainInv, Local
    <3> QED
      BY <1>q, <2>8, <3>1 DEF RunAttested, stateVars, boundVars
  <2>9. CASE Attest(w)
    <3>1. Len([loc[w] EXCEPT !.att = authority].log) \in Nat
      BY <1>i, <1>w DEF ChainInv, Local
    <3> QED
      BY <1>q, <2>9, <3>1 DEF Attest, stateVars, boundVars
  <2>10. CASE ReadLog(w)
    <3>1. [loc[w] EXCEPT !.log = witness_log].log = witness_log
      BY <1>i DEF ChainInv, Local
    <3> QED
      BY <1>q, <1>r, <1>s, <2>10, <3>1 DEF ReadLog, stateVars, boundVars
  <2>11. CASE ReadKey(w)
    <3>1. [loc[w] EXCEPT !.sk = authority].log = loc[w].log
      BY <1>i DEF ChainInv, Local
    <3> QED
      BY <1>q, <1>w, <2>11, <3>1 DEF ReadKey, Goto, stateVars, boundVars
  <2>12. CASE ReadBinding(w)
    <3> DEFINE l == [loc[w] EXCEPT !.key_seq = current_key_seq,
                                   !.key_fingerprint = current_key_fingerprint]
    <3>1. l.log = loc[w].log
      BY <1>i DEF ChainInv, Local
    <3>2. /\ Goto(w, "read_binding", "append") /\ Set(w, l)
          /\ UNCHANGED <<trust_log, witness_log, keys, arrivals>>
      BY <2>12 DEF ReadBinding, stateVars, boundVars
    <3> HIDE DEF l
    <3> QED
      BY <1>q, <1>w, <3>1, <3>2 DEF Goto
  <2>13. CASE AppendWitness(w)
    <3> DEFINE Q == Cardinality(Pending')
               C == Cardinality(Busy')
    <3>1. /\ pc[w] = "append" /\ pc' = [pc EXCEPT ![w] = "idle"]
          /\ loc' = [loc EXCEPT ![w] = Blank]
          /\ UNCHANGED <<trust_log, keys, arrivals>>
      BY <2>13 DEF AppendWitness, Serve, Leave, Goto, witnessFrame, boundVars
    <3>2. /\ IsFiniteSet(Busy') /\ IsFiniteSet(Pending')
          /\ C \in Nat /\ Q \in Nat /\ C = B - 1 /\ Q = P
      <4>1. /\ pc[w] \in Serving /\ "idle" \notin Serving
            /\ pc[w] \notin Proposing /\ "idle" \notin Proposing
        BY <3>1
      <4> HIDE DEF Serving, Proposing, Writing
      <4> QED
        BY <1>i, <3>1, <4>1, Counted
    <3>3. Len(witness_log') = Len(loc[w].log) + 1
      BY <1>w, <2>13, Grown DEF AppendWitness, AppendEntry
    <3>4. Len(loc[w].log) \in Nat /\ Len(loc[w].log) + B <= arrivals
      BY <1>w, <3>1
    <3> HIDE DEF P, B, Q, C
    <3>5. /\ Len(trust_log') >= 1 /\ Len(trust_log') + Q <= keys'
          /\ Len(witness_log') + C <= arrivals'
          /\ keys' \in Nat /\ arrivals' \in Nat
          /\ keys + Q <= keys' + P /\ arrivals + C <= arrivals' + B
      <4>1. Len(trust_log') >= 1 /\ Len(trust_log') + Q <= keys' /\ keys' \in Nat
        BY <1>b, <1>n, <1>r, <1>s, <3>1, <3>2, <3>3, <3>4
      <4>2. Len(witness_log') + C <= arrivals' /\ arrivals' \in Nat
        BY <1>b, <1>n, <1>r, <1>s, <3>1, <3>2, <3>3, <3>4
      <4>3. keys + Q <= keys' + P /\ arrivals + C <= arrivals' + B
        BY <1>b, <1>n, <1>r, <1>s, <3>1, <3>2, <3>3, <3>4
      <4> QED
        BY <4>1, <4>2, <4>3
    <3> QED
      BY <1>i, <1>n, <3>1, <3>2, <3>5, RoomMoves DEF P, B, Q, C
  <2> QED
    BY <1>2, <2>1, <2>2, <2>3, <2>4, <2>5, <2>6, <2>7, <2>8, <2>9, <2>10,
       <2>11, <2>12, <2>13 DEF Query
<1>3. ASSUME NEW w \in Workers, Rotate(w) PROVE RoomInv'
  <2>1. CASE RotateBegin(w)
    <3> DEFINE l == [Blank EXCEPT !.new = keys]
               Q == Cardinality(Pending')
               C == Cardinality(Busy')
    <3>1. /\ pc[w] = "idle" /\ pc' = [pc EXCEPT ![w] = "rotate_log"]
          /\ loc' = [loc EXCEPT ![w] = l] /\ keys' = keys + 1
          /\ UNCHANGED <<trust_log, witness_log, arrivals>>
      BY <2>1 DEF RotateBegin, Goto, Set, stateVars
    <3>2. /\ IsFiniteSet(Busy') /\ IsFiniteSet(Pending')
          /\ C \in Nat /\ Q \in Nat /\ C = B /\ Q = P + 1
      BY <1>i, <3>1, Counted
    <3> HIDE DEF P, B, Q, C, l
    <3>3. /\ Len(trust_log') >= 1 /\ Len(trust_log') + Q <= keys'
          /\ Len(witness_log') + C <= arrivals'
          /\ keys' \in Nat /\ arrivals' \in Nat
          /\ keys + Q <= keys' + P /\ arrivals + C <= arrivals' + B
      <4>1. Len(trust_log') >= 1 /\ Len(trust_log') + Q <= keys' /\ keys' \in Nat
        BY <1>b, <1>n, <1>r, <1>s, <3>1, <3>2
      <4>2. Len(witness_log') + C <= arrivals' /\ arrivals' \in Nat
        BY <1>b, <1>n, <1>r, <1>s, <3>1, <3>2
      <4>3. keys + Q <= keys' + P /\ arrivals + C <= arrivals' + B
        BY <1>b, <1>n, <1>r, <1>s, <3>1, <3>2
      <4> QED
        BY <4>1, <4>2, <4>3
    <3> QED
      BY <1>i, <1>n, <3>1, <3>2, <3>3, RoomMoves DEF P, B, Q, C
  <2>2. CASE RotateReadLog(w)
    <3>1. [loc[w] EXCEPT !.log = trust_log].log = trust_log
      BY <1>i DEF ChainInv, Local
    <3> QED
      BY <1>q, <1>r, <1>s, <2>2, <3>1 DEF RotateReadLog, stateVars, boundVars
  <2>3. CASE RotateReadKey(w)
    <3>1. [loc[w] EXCEPT !.sk = authority].log = loc[w].log
      BY <1>i DEF ChainInv, Local
    <3> QED
      BY <1>q, <1>w, <2>3, <3>1 DEF RotateReadKey, Goto, stateVars, boundVars
  <2>4. CASE RotateAppend(w)
    <3> DEFINE Q == Cardinality(Pending')
               C == Cardinality(Busy')
    <3>1. /\ pc[w] = "rotate_append" /\ pc' = [pc EXCEPT ![w] = "swap"]
          /\ UNCHANGED <<loc, witness_log, keys, arrivals>>
      BY <2>4 DEF RotateAppend, Goto, rotateFrame, boundVars
    <3>2. loc' = [loc EXCEPT ![w] = loc[w]]
      BY <1>i, <3>1 DEF ThreadInv
    <3>3. /\ IsFiniteSet(Busy') /\ IsFiniteSet(Pending')
          /\ C \in Nat /\ Q \in Nat /\ C = B /\ Q = P - 1
      <4>1. /\ pc[w] \notin Serving /\ "swap" \notin Serving
            /\ pc[w] \in Proposing /\ "swap" \notin Proposing
        BY <3>1
      <4> HIDE DEF Serving, Proposing, Writing
      <4> QED
        BY <1>i, <3>1, <4>1, Counted
    <3>4. Len(trust_log') = Len(loc[w].log) + 1
      BY <1>w, <2>4, Grown DEF RotateAppend, AppendRotate
    <3>5. Len(loc[w].log) \in Nat /\ Len(loc[w].log) + P <= keys
      BY <1>w, <3>1
    <3> HIDE DEF P, B, Q, C
    <3>6. /\ Len(trust_log') >= 1 /\ Len(trust_log') + Q <= keys'
          /\ Len(witness_log') + C <= arrivals'
          /\ keys' \in Nat /\ arrivals' \in Nat
          /\ keys + Q <= keys' + P /\ arrivals + C <= arrivals' + B
      <4>1. Len(trust_log') >= 1 /\ Len(trust_log') + Q <= keys' /\ keys' \in Nat
        BY <1>b, <1>n, <1>r, <1>s, <3>1, <3>3, <3>4, <3>5
      <4>2. Len(witness_log') + C <= arrivals' /\ arrivals' \in Nat
        BY <1>b, <1>n, <1>r, <1>s, <3>1, <3>3, <3>4, <3>5
      <4>3. keys + Q <= keys' + P /\ arrivals + C <= arrivals' + B
        BY <1>b, <1>n, <1>r, <1>s, <3>1, <3>3, <3>4, <3>5
      <4> QED
        BY <4>1, <4>2, <4>3
    <3> QED
      BY <1>i, <1>n, <3>1, <3>2, <3>3, <3>6, RoomMoves DEF P, B, Q, C
  <2>5. CASE RotateSwap(w)
    BY <1>k, <2>5 DEF RotateSwap, rotateFrame, boundVars
  <2>6. CASE RotateSetSeq(w)
    BY <1>k, <2>6 DEF RotateSetSeq, rotateFrame, boundVars
  <2>7. CASE RotateSetFingerprint(w)
    BY <1>e, <2>7 DEF RotateSetFingerprint, rotateFrame, boundVars
  <2> QED
    BY <1>3, <2>1, <2>2, <2>3, <2>4, <2>5, <2>6, <2>7 DEF Rotate
<1>4. CASE \E g \in Graphs, v \in Versions : LoadGraph(g, v)
  BY <1>p, <1>4 DEF LoadGraph, threadVars
<1>5. CASE AgentFetch \/ AgentVerify
  BY <1>p, <1>5 DEF AgentFetch, AgentVerify, stateVars, threadVars, boundVars
<1> QED
  BY <1>1, <1>2, <1>3, <1>4, <1>5 DEF Next

(* An answer that is served keeps to its scope. *)
LEMMA ServeStep ==
    ASSUME SharedInv, ThreadInv, NEW w \in Workers, NEW from \in Serving, NEW v,
           pc[w] = from, Serve(w, from, v), UNCHANGED provisioned,
           v \in Versions \cup {NoVersion},
           provisioned => InWindow(req[w].scope, loc[w].at) /\ Within(req[w], v)
    PROVE  /\ answers' \in Seq(Answer)
           /\ provisioned' => \A i \in DOMAIN answers' :
                 /\ InWindow(answers'[i].req.scope, answers'[i].at)
                 /\ Within(answers'[i].req, answers'[i].version)
<1> DEFINE a == [id |-> loc[w].id, at |-> loc[w].at, req |-> req[w],
                 version |-> v, key |-> loc[w].att]
<1>1. answers' = Append(answers, a) /\ provisioned' = provisioned
  BY DEF Serve
<1>2. Thread(provisioned, pc[w], req[w], loc[w])
  BY DEF ThreadInv
<1>3. a \in Answer
  BY <1>2 DEF Thread, Answer
<1>4. a.req = req[w] /\ a.at = loc[w].at /\ a.version = v
  OBVIOUS
<1> HIDE DEF a
<1>5. answers \in Seq(Answer) /\ answers' \in Seq(Answer)
  BY <1>1, <1>3 DEF SharedInv
<1>6. ASSUME provisioned, NEW i \in DOMAIN answers'
      PROVE  InWindow(answers'[i].req.scope, answers'[i].at) /\
             Within(answers'[i].req, answers'[i].version)
  <2>1. CASE i = Len(answers) + 1
    <3>1. answers'[i] = a
      BY <1>1, <1>3, <1>5, <2>1
    <3> QED
      BY <1>4, <1>6, <3>1
  <2>2. CASE i # Len(answers) + 1
    <3>1. i \in DOMAIN answers /\ answers'[i] = answers[i]
      BY <1>1, <1>3, <1>5, <1>6, <2>2
    <3> QED
      BY <1>6, <3>1 DEF SharedInv
  <2> QED
    BY <2>1, <2>2
<1> QED
  BY <1>1, <1>5, <1>6

(* The keys of an entry that is added are keys. *)
LEMMA KeysGrow ==
    ASSUME NEW log, IsSeq(log), NEW e
    PROVE  /\ TrustKeys(log) /\ {e.pem, e.sig} \subseteq Key => TrustKeys(Append(log, e))
           /\ WitnessKeys(log) /\ e.id \in 1 .. MaxRequests
              /\ {e.sig, e.key_fingerprint} \subseteq Key => WitnessKeys(Append(log, e))
<1> DEFINE new == Append(log, e)
<1>1. ASSUME NEW i \in DOMAIN new PROVE new[i] = e \/ (i \in DOMAIN log /\ new[i] = log[i])
  <2>1. /\ Len(log) \in Nat /\ DOMAIN log = 1 .. Len(log) /\ DOMAIN new = 1 .. Len(log) + 1
        /\ new[Len(log) + 1] = e /\ \A k \in 1 .. Len(log) : new[k] = log[k]
    BY Grown
  <2> HIDE DEF new
  <2> QED
    BY <1>1, <2>1
<1> HIDE DEF new
<1>2. TrustKeys(log) /\ {e.pem, e.sig} \subseteq Key => TrustKeys(new)
  BY <1>1 DEF TrustKeys
<1>3. WitnessKeys(log) /\ e.id \in 1 .. MaxRequests
      /\ {e.sig, e.key_fingerprint} \subseteq Key => WitnessKeys(new)
  BY <1>1 DEF WitnessKeys
<1> QED
  BY <1>2, <1>3 DEF new

(* The shared variables keep their shape. *)
LEMMA SharedStep == ServiceInv /\ [Next]_vars => SharedInv'
<1> SUFFICES ASSUME ServiceInv, [Next]_vars PROVE SharedInv'
  OBVIOUS
<1>i. ChainInv /\ ThreadInv /\ SharedInv /\ RoomInv
  BY DEF ServiceInv
<1>t. ASSUME NEW w \in Workers PROVE Thread(provisioned, pc[w], req[w], loc[w])
  BY <1>i DEF ThreadInv
<1>b. /\ keys \in Nat /\ arrivals \in Nat /\ MaxRotations \in Nat /\ MaxRequests \in Nat
      /\ 1 <= keys /\ keys <= MaxRotations + 1 /\ arrivals <= MaxRequests
  BY <1>i, Bounds
<1>u. UNCHANGED <<stateVars, answers, overlap, keys, arrivals>> => SharedInv'
  BY <1>i DEF SharedInv, stateVars
<1>o. ASSUME NEW kind \in {"nonce", "append", "rotate"}, NEW b,
             overlap' = overlap \cup Note(kind, b)
      PROVE  overlap' \subseteq {"nonce", "append", "rotate"}
  BY <1>i, <1>o DEF SharedInv, Note
<1>v. UNCHANGED <<stateVars, answers, keys, arrivals>>
      /\ overlap' \subseteq {"nonce", "append", "rotate"} => SharedInv'
  BY <1>i DEF SharedInv, stateVars
<1>1. CASE UNCHANGED vars
  BY <1>1, <1>u DEF vars, boundVars
<1>2. ASSUME NEW w \in Workers, Query(w) PROVE SharedInv'
  <2>1. ASSUME NEW r \in Requests, Arrive(w, r) PROVE SharedInv'
    <3>1. arrivals' = arrivals + 1 /\ arrivals < MaxRequests
          /\ UNCHANGED <<stateVars, answers, overlap, keys>>
      BY <2>1 DEF Arrive
    <3>2. arrivals' \in 0 .. MaxRequests
      BY <1>b, <3>1
    <3> QED
      BY <1>i, <3>1, <3>2 DEF SharedInv, stateVars
  <2>2. CASE GateDormant(w)
    BY <1>u, <2>2 DEF GateDormant, boundVars
  <2>3. ASSUME NEW now \in Times, GateRefuse(w, now) PROVE SharedInv'
    BY <1>u, <2>3 DEF GateRefuse, boundVars
  <2>4. ASSUME NEW now \in Times, GateVerify(w, now) PROVE SharedInv'
    <3>1. overlap' \subseteq {"nonce", "append", "rotate"}
      BY <1>o, <2>4 DEF GateVerify
    <3> QED
      BY <1>v, <2>4, <3>1 DEF GateVerify, boundVars
  <2>5. CASE Burn(w)
    <3>1. req[w] \in Requests /\ InWindow(req[w].scope, loc[w].at)
      BY <1>t, <2>5 DEF Burn, Goto, Thread, Serving
    <3>2. req[w].scope \in Scope
      BY <3>1, ServiceAssumption DEF Request, InWindow
    <3>3. req[w].scope.nonce \in Nat
      BY <3>2 DEF Scope
    <3>4. /\ used_scope_nonces' = used_scope_nonces \cup {req[w].scope.nonce}
          /\ UNCHANGED <<graphs, authority, provisioned, trust_log, witness_log,
                   current_key_seq, current_key_fingerprint, answers, overlap, keys, arrivals>>
      BY <2>5 DEF Burn, boundVars
    <3> QED
      BY <1>i, <3>3, <3>4 DEF SharedInv
  <2>6. CASE RunRefuse(w)
    BY <1>u, <2>6 DEF RunRefuse, boundVars
  <2>7. CASE RunServe(w)
    <3> DEFINE v == graphs[req[w].graph]
    <3>1. /\ Serve(w, "run", v) /\ Admitted(req[w]) /\ pc[w] = "run"
          /\ UNCHANGED <<stateVars, overlap, keys, arrivals>>
      BY <2>7 DEF RunServe, Serve, Leave, Goto, boundVars
    <3>2. req[w] \in Requests /\ (provisioned => InWindow(req[w].scope, loc[w].at))
      BY <1>t, <3>1 DEF Thread, Serving
    <3>3. v \in Versions \cup {NoVersion}
      BY <1>i, <3>2, ServiceAssumption DEF SharedInv, Request
    <3>4. provisioned => Within(req[w], v)
      BY <3>1 DEF Admitted, Within
    <3>5. "run" \in Serving /\ UNCHANGED provisioned
      BY <3>1 DEF Serving, stateVars
    <3> HIDE DEF v
    <3>6. /\ answers' \in Seq(Answer)
          /\ provisioned' => \A i \in DOMAIN answers' :
                 /\ InWindow(answers'[i].req.scope, answers'[i].at)
                 /\ Within(answers'[i].req, answers'[i].version)
      BY <1>i, <3>1, <3>2, <3>3, <3>4, <3>5, ServeStep
    <3> QED
      BY <1>i, <3>1, <3>6 DEF SharedInv, stateVars
  <2>8. CASE RunAttested(w)
    BY <1>u, <2>8 DEF RunAttested, boundVars
  <2>9. CASE Attest(w)
    <3>1. overlap' \subseteq {"nonce", "append", "rotate"}
      BY <1>o, <2>9 DEF Attest
    <3> QED
      BY <1>v, <2>9, <3>1 DEF Attest, boundVars
  <2>10. CASE ReadLog(w)
    <3>1. overlap' \subseteq {"nonce", "append", "rotate"}
      BY <1>o, <2>10 DEF ReadLog
    <3> QED
      BY <1>v, <2>10, <3>1 DEF ReadLog, boundVars
  <2>11. CASE ReadKey(w)
    BY <1>u, <2>11 DEF ReadKey, boundVars
  <2>12. CASE ReadBinding(w)
    BY <1>u, <2>12 DEF ReadBinding, boundVars
  <2>13. CASE AppendWitness(w)
    <3> DEFINE l == loc[w]
               e == WitnessEntry(l.log, l.id, l.sk, l.key_seq, l.key_fingerprint)
    <3>1. /\ Serve(w, "append", l.version) /\ pc[w] = "append"
          /\ witness_log' = Append(l.log, e)
          /\ UNCHANGED <<witnessFrame, overlap, keys, arrivals>>
      BY <2>13 DEF AppendWitness, AppendEntry, Serve, Leave, Goto, boundVars
    <3>2. /\ l.version \in Versions \cup {NoVersion} /\ WitnessKeys(l.log)
          /\ l.id \in 1 .. MaxRequests /\ l.sk \in Key /\ l.key_fingerprint \in Key
          /\ provisioned => InWindow(req[w].scope, l.at) /\ Within(req[w], l.version)
      BY <1>t, <3>1 DEF Thread, Serving, Writing
    <3>3. "append" \in Serving /\ UNCHANGED provisioned
      BY <3>1 DEF Serving, witnessFrame
    <3>4. /\ answers' \in Seq(Answer)
          /\ provisioned' => \A i \in DOMAIN answers' :
                 /\ InWindow(answers'[i].req.scope, answers'[i].at)
                 /\ Within(answers'[i].req, answers'[i].version)
      BY <1>i, <3>1, <3>2, <3>3, ServeStep
    <3>5. e.id = l.id /\ e.sig = l.sk /\ e.key_fingerprint = l.key_fingerprint
      BY DEF WitnessEntry
    <3>6. IsSeq(l.log)
      BY <1>i DEF ChainInv, Local, Sound
    <3> HIDE DEF e, l
    <3>7. WitnessKeys(witness_log')
      BY <3>1, <3>2, <3>5, <3>6, KeysGrow
    <3> QED
      BY <1>i, <3>1, <3>4, <3>7 DEF SharedInv, witnessFrame
  <2> QED
    BY <1>2, <2>1, <2>2, <2>3, <2>4, <2>5, <2>6, <2>7, <2>8, <2>9, <2>10,
       <2>11, <2>12, <2>13 DEF Query
<1>3. ASSUME NEW w \in Workers, Rotate(w) PROVE SharedInv'
  <2>1. CASE RotateBegin(w)
    <3>1. keys' = keys + 1 /\ keys <= MaxRotations /\ UNCHANGED <<stateVars, answers, arrivals>>
      BY <2>1 DEF RotateBegin
    <3>2. keys' \in 1 .. MaxRotations + 1
      BY <1>b, <3>1
    <3>3. overlap' \subseteq {"nonce", "append", "rotate"}
      BY <1>o, <2>1 DEF RotateBegin
    <3> QED
      BY <1>i, <3>1, <3>2, <3>3 DEF SharedInv, stateVars
  <2>2. CASE RotateReadLog(w)
    BY <1>u, <2>2 DEF RotateReadLog, boundVars
  <2>3. CASE RotateReadKey(w)
    BY <1>u, <2>3 DEF RotateReadKey, boundVars
  <2>4. CASE RotateAppend(w)
    <3> DEFINE l == loc[w]
               e == [seq |-> Len(l.log), action |-> "rotate", pem |-> l.new,
                     prev |-> PrevHash(l.log), sig |-> l.sk]
    <3>1. /\ pc[w] = "rotate_append" /\ trust_log' = Append(l.log, e)
          /\ UNCHANGED <<graphs, authority, provisioned, used_scope_nonces, witness_log,
                   current_key_seq, current_key_fingerprint, answers, overlap, keys, arrivals>>
      BY <2>4 DEF RotateAppend, AppendRotate, Goto, rotateFrame, boundVars
    <3>2. TrustKeys(l.log) /\ l.new \in Key /\ l.sk \in Key
      BY <1>t, <3>1 DEF Thread, Replacing, Proposing
    <3>3. e.pem = l.new /\ e.sig = l.sk
      OBVIOUS
    <3>4. IsSeq(l.log)
      BY <1>i DEF ChainInv, Local, Sound
    <3> HIDE DEF e, l
    <3>5. TrustKeys(trust_log')
      BY <3>1, <3>2, <3>3, <3>4, KeysGrow
    <3> QED
      BY <1>i, <3>1, <3>5 DEF SharedInv
  <2>5. CASE RotateSwap(w)
    <3>1. /\ authority' = loc[w].new /\ pc[w] = "swap"
          /\ UNCHANGED <<graphs, provisioned, used_scope_nonces, trust_log, witness_log,
                   current_key_seq, current_key_fingerprint, answers, overlap, keys, arrivals>>
      BY <2>5 DEF RotateSwap, Goto, rotateFrame, boundVars
    <3>2. authority' \in Key
      BY <1>t, <3>1 DEF Thread, Replacing
    <3> QED
      BY <1>i, <3>1, <3>2 DEF SharedInv
  <2>6. CASE RotateSetSeq(w)
    <3> DEFINE n == Len(trust_log)
    <3>1. /\ current_key_seq' = trust_log[n].seq
          /\ UNCHANGED <<graphs, authority, provisioned, used_scope_nonces, trust_log,
                   witness_log, current_key_fingerprint, answers, overlap, keys, arrivals>>
      BY <2>6 DEF RotateSetSeq, rotateFrame, boundVars
    <3>2. n \in Nat /\ DOMAIN trust_log = 1 .. n /\ n >= 1 /\ n + Cardinality(Pending) <= keys
      BY <1>i, LenIsNat DEF ChainInv, Sound, RoomInv
    <3>3. Cardinality(Pending) \in Nat
      BY <1>i, FS_CardinalityType DEF RoomInv
    <3>4. n \in DOMAIN trust_log
      BY <3>2
    <3>5. trust_log[n].seq = n - 1
      BY <1>i, <3>4 DEF ChainInv, Sound, Chained
    <3> HIDE DEF n
    <3>6. n - 1 \in 0 .. MaxRotations
      BY <1>b, <3>2, <3>3
    <3> QED
      BY <1>i, <3>1, <3>5, <3>6 DEF SharedInv
  <2>7. CASE RotateSetFingerprint(w)
    BY <1>i, <2>7 DEF RotateSetFingerprint, SharedInv, rotateFrame, boundVars
  <2> QED
    BY <1>3, <2>1, <2>2, <2>3, <2>4, <2>5, <2>6, <2>7 DEF Rotate
<1>4. CASE \E g \in Graphs, v \in Versions : LoadGraph(g, v)
  BY <1>i, <1>4 DEF LoadGraph, SharedInv
<1>5. CASE AgentFetch \/ AgentVerify
  BY <1>u, <1>5 DEF AgentFetch, AgentVerify, boundVars
<1> QED
  BY <1>1, <1>2, <1>3, <1>4, <1>5 DEF Next

LEMMA ServiceStarts == Init => ServiceInv
<1> SUFFICES ASSUME Init PROVE ServiceInv
  OBVIOUS
<1> DEFINE b == [seq |-> 0, action |-> "bootstrap", pem |-> Anchor, prev |-> <<>>,
                 sig |-> Anchor]
<1>b. MaxRotations \in Nat /\ MaxRequests \in Nat
  BY ServiceAssumption
<1>a. Anchor \in Key
  BY <1>b DEF Anchor, Key
<1>1. ChainInv
  BY ChainStarts DEF Init, ChainInv, Blank, Local
<1>2. ThreadInv
  <2>1. /\ pc = [w \in Workers |-> "idle"] /\ req = [w \in Workers |-> NoRequest]
        /\ loc = [w \in Workers |-> Blank]
    BY DEF Init
  <2>2. "idle" \in Places
    BY DEF Places
  <2> HIDE DEF Init
  <2> QED
    BY <2>1, <2>2, IdleThread DEF ThreadInv
<1>3. /\ trust_log = <<b>> /\ witness_log = <<>> /\ answers = <<>>
      /\ keys = 1 /\ arrivals = 0
  BY DEF Init, BuildBootstrapLog
<1>4. /\ Len(<<b>>) = 1 /\ DOMAIN <<b>> = {1} /\ <<b>>[1] = b
      /\ b.pem = Anchor /\ b.sig = Anchor
  OBVIOUS
<1>5. SharedInv
  <2>1. TrustKeys(trust_log) /\ WitnessKeys(witness_log)
    BY <1>3, <1>4, <1>a DEF TrustKeys, WitnessKeys
  <2>2. keys \in 1 .. MaxRotations + 1 /\ arrivals \in 0 .. MaxRequests
    BY <1>3, <1>b
  <2>3. current_key_seq \in 0 .. MaxRotations /\ authority \in Key /\ current_key_fingerprint \in Key
    BY <1>a, <1>b DEF Init
  <2>4. answers \in Seq(Answer) /\ DOMAIN answers = {}
    BY <1>3
  <2> QED
    BY <2>1, <2>2, <2>3, <2>4 DEF Init, SharedInv
<1>6. RoomInv
  <2>1. Pending = {} /\ Busy = {}
    BY DEF Init, Pending, Busy, Serving, Proposing
  <2>2. \A w \in Workers : pc[w] \notin {"rotate_key", "rotate_append"} /\ pc[w] \notin Writing
    BY DEF Init, Writing
  <2> QED
    BY <1>3, <1>4, <2>1, <2>2, FS_EmptySet DEF RoomInv
<1> QED
  BY <1>1, <1>2, <1>5, <1>6 DEF ServiceInv

LEMMA ServiceHolds == Spec => []ServiceInv
<1>1. ServiceInv /\ [Next]_vars => ServiceInv'
  BY ChainStep, ThreadStep, SharedStep, RoomStep DEF ServiceInv
<1> QED
  BY <1>1, ServiceStarts, PTL DEF Spec

(* Whatever the gate lets through on any number of threads, what is served *)
(* is within its scope, and every number a handler writes names a key or a *)
(* request that exists.                                                    *)
THEOREM ScopeIsRespected == Spec => []ScopeRespected
<1>1. ServiceInv => ScopeRespected
  <2> SUFFICES ASSUME ServiceInv PROVE ScopeRespected
    OBVIOUS
  <2>i. ChainInv /\ ThreadInv /\ SharedInv /\ RoomInv
    BY DEF ServiceInv
  <2>b. /\ keys \in Nat /\ arrivals \in Nat /\ MaxRotations \in Nat /\ MaxRequests \in Nat
        /\ 1 <= keys /\ keys <= MaxRotations + 1 /\ arrivals <= MaxRequests
    BY <2>i, Bounds
  <2>1. Len(trust_log) \in 1 .. MaxRotations + 1 /\ Len(witness_log) <= MaxRequests
    <3>1. Len(trust_log) \in Nat /\ Len(witness_log) \in Nat
      BY <2>i, LenIsNat DEF ChainInv, Sound
    <3>2. Cardinality(Pending) \in Nat /\ Cardinality(Busy) \in Nat
      BY <2>i, FS_CardinalityType DEF RoomInv
    <3> QED
      BY <2>b, <2>i, <3>1, <3>2 DEF RoomInv
  <2>2. TypeOK
    BY <2>i, <2>1 DEF SharedInv, ThreadInv, TrustKeys, WitnessKeys, TypeOK
  <2>3. ASSUME provisioned, NEW i \in DOMAIN answers
        PROVE  InWindow(answers[i].req.scope, answers[i].at) /\ Within(answers[i].req, answers[i].version)
    BY <2>3, <2>i DEF SharedInv
  <2> QED
    BY <2>2, <2>3 DEF ScopeRespected, InWindow, Within, EnforceConstraints, BindingChecked
<1> QED
  BY <1>1, ServiceHolds, PTL

-----------------------------------------------------------------------------
(* A scope is good for one answer.  A nonce is checked and added in two    *)
(* steps; what is past the second step is in used_scope_nonces, what is    *)
(* between them is not, and is alone there with its nonce.                 *)

Spent == Serving \ {"gate", "burn"}

OnceUsed ==
    /\ \A w \in Workers :
          /\ pc[w] = "burn" => req[w].scope.nonce \notin used_scope_nonces
          /\ pc[w] \in Spent => req[w].scope.nonce \in used_scope_nonces
    /\ \A i \in DOMAIN answers : answers[i].req.scope.nonce \in used_scope_nonces

(* Both between the two steps, or both past them. *)
Alike(p, q) == (p = "burn" /\ q = "burn") \/ (p \in Spent /\ q \in Spent)

OnceApart ==
    /\ \A w, o \in Workers :
          w # o /\ Alike(pc[w], pc[o]) => req[w].scope.nonce # req[o].scope.nonce
    /\ \A w \in Workers, i \in DOMAIN answers :
          pc[w] \in Spent => req[w].scope.nonce # answers[i].req.scope.nonce
    /\ \A i, j \in DOMAIN answers :
          answers[i].req.scope.nonce = answers[j].req.scope.nonce => i = j

OnceInv == provisioned /\ "nonce" \notin overlap => OnceUsed /\ OnceApart

(* A thread that answers, or gives up, is idle again. *)
LEMMA AnswerOnce ==
    ASSUME ThreadInv, OnceUsed, OnceApart, NEW w \in Workers, answers \in Seq(Answer),
           pc[w] \in Spent, UNCHANGED used_scope_nonces,
           pc' = [pc EXCEPT ![w] = "idle"], req' = [req EXCEPT ![w] = NoRequest],
           NEW a \in Answer, a.req = req[w], answers' = Append(answers, a)
    PROVE  OnceUsed' /\ OnceApart'
<1>1. "idle" \notin Spent
  BY DEF Spent, Serving
<1>2. ASSUME NEW o \in Workers, pc'[o] \in Spent \/ pc'[o] = "burn"
      PROVE  o # w /\ pc'[o] = pc[o] /\ req'[o] = req[o]
  BY <1>1, <1>2 DEF ThreadInv
<1>3. ASSUME NEW i \in DOMAIN answers'
      PROVE  \/ i = Len(answers) + 1 /\ answers'[i] = a
             \/ i \in DOMAIN answers /\ answers'[i] = answers[i]
  BY <1>3
<1>4. Len(answers) + 1 \notin DOMAIN answers
  OBVIOUS
<1>5. OnceUsed'
  BY <1>2, <1>3 DEF OnceUsed
<1>6. ASSUME NEW i \in DOMAIN answers', NEW j \in DOMAIN answers',
             answers'[i].req.scope.nonce = answers'[j].req.scope.nonce
      PROVE  i = j
  BY <1>3, <1>6 DEF OnceApart
<1>7. ASSUME NEW o \in Workers, NEW i \in DOMAIN answers', pc'[o] \in Spent
      PROVE  req'[o].scope.nonce # answers'[i].req.scope.nonce
  BY <1>2, <1>3, <1>7 DEF OnceApart, Alike
<1>8. ASSUME NEW o \in Workers, NEW x \in Workers, o # x,
             Alike(pc'[o], pc'[x])
      PROVE  req'[o].scope.nonce # req'[x].scope.nonce
  BY <1>2, <1>8 DEF OnceApart, Alike
<1> QED
  BY <1>5, <1>6, <1>7, <1>8 DEF OnceApart, Alike

(* The other moves of a thread that verifies and burns nothing. *)
LEMMA MoveOnce ==
    ASSUME ThreadInv, OnceUsed, OnceApart, NEW w \in Workers, NEW p, NEW r,
           UNCHANGED <<used_scope_nonces, answers>>,
           pc' = [pc EXCEPT ![w] = p], req' = [req EXCEPT ![w] = r],
           p # "burn", p \in Spent => pc[w] \in Spent /\ r = req[w]
    PROVE  OnceUsed' /\ OnceApart'
<1>1. ASSUME NEW o \in Workers
      PROVE  /\ pc'[o] \in Spent => pc[o] \in Spent /\ req'[o] = req[o]
             /\ pc'[o] = "burn" => pc[o] = "burn" /\ req'[o] = req[o]
  BY DEF ThreadInv
<1>2. OnceUsed'
  BY <1>1 DEF OnceUsed
<1>3. ASSUME NEW o \in Workers, NEW x \in Workers, o # x,
             Alike(pc'[o], pc'[x])
      PROVE  req'[o].scope.nonce # req'[x].scope.nonce
  BY <1>1, <1>3 DEF OnceApart, Alike
<1> QED
  BY <1>1, <1>2, <1>3 DEF OnceApart, Alike

LEMMA OnceStep == ServiceInv /\ OnceInv /\ [Next]_vars => OnceInv'
<1> SUFFICES ASSUME ServiceInv, OnceInv, [Next]_vars, provisioned', "nonce" \notin overlap'
             PROVE  OnceUsed' /\ OnceApart'
  BY DEF OnceInv
<1>i. ThreadInv /\ SharedInv
  BY DEF ServiceInv
<1>g. provisioned' = provisioned /\ overlap \subseteq overlap' =>
      provisioned /\ OnceUsed /\ OnceApart
  BY DEF OnceInv
<1>q. DOMAIN req = Workers /\ DOMAIN pc = Workers
      /\ \A w \in Workers : req = [req EXCEPT ![w] = req[w]]
  BY <1>i DEF ThreadInv
<1>u. ASSUME UNCHANGED <<provisioned, overlap, used_scope_nonces, pc, req, answers>>
      PROVE  OnceUsed' /\ OnceApart'
  BY <1>g, <1>u DEF OnceUsed, OnceApart
<1>m. ASSUME NEW w \in Workers, NEW p, NEW r, UNCHANGED <<provisioned, used_scope_nonces, answers>>,
             overlap \subseteq overlap',
             pc' = [pc EXCEPT ![w] = p], req' = [req EXCEPT ![w] = r],
             p # "burn", p \in Spent => pc[w] \in Spent /\ r = req[w]
      PROVE  OnceUsed' /\ OnceApart'
  BY <1>g, <1>i, <1>m, MoveOnce
<1>l. ASSUME NEW w \in Workers, NEW from, Leave(w, from),
             UNCHANGED <<provisioned, used_scope_nonces, answers, overlap>>
      PROVE  OnceUsed' /\ OnceApart'
  <2>1. "idle" \notin Spent
    BY DEF Spent, Serving
  <2> QED
    BY <1>l, <1>m, <2>1 DEF Leave, Goto
<1>n. ASSUME NEW w \in Workers, NEW from, NEW p, Goto(w, from, p),
             UNCHANGED <<provisioned, used_scope_nonces, answers, req>>,
             overlap \subseteq overlap', p # "burn", p \in Spent => from \in Spent
      PROVE  OnceUsed' /\ OnceApart'
  <2>1. req' = [req EXCEPT ![w] = req[w]]
    BY <1>n, <1>q
  <2> QED
    BY <1>m, <1>n, <2>1 DEF Goto
<1>s. ASSUME NEW w \in Workers, NEW from \in Spent, NEW v \in Versions \cup {NoVersion},
             Serve(w, from, v), UNCHANGED <<provisioned, used_scope_nonces, overlap>>
      PROVE  OnceUsed' /\ OnceApart'
  <2> DEFINE a == [id |-> loc[w].id, at |-> loc[w].at, req |-> req[w],
                   version |-> v, key |-> loc[w].att]
  <2>1. /\ pc[w] = from /\ pc' = [pc EXCEPT ![w] = "idle"]
        /\ req' = [req EXCEPT ![w] = NoRequest] /\ answers' = Append(answers, a)
    BY <1>s DEF Serve, Leave, Goto
  <2>2. a \in Answer
    <3>1. Thread(provisioned, pc[w], req[w], loc[w]) /\ pc[w] \in Serving
      BY <1>i, <1>s, <2>1 DEF ThreadInv, Spent
    <3> QED
      BY <3>1 DEF Thread, Answer
  <2>3. a.req = req[w] /\ pc[w] \in Spent /\ answers \in Seq(Answer)
    BY <1>i, <1>s, <2>1 DEF SharedInv
  <2> HIDE DEF a
  <2> QED
    BY <1>g, <1>i, <1>s, <2>1, <2>2, <2>3, AnswerOnce
<1>p. Spent = {"run", "attest", "read_log", "read_key", "read_binding", "append"}
  BY DEF Spent, Serving
<1>1. CASE UNCHANGED vars
  BY <1>1, <1>u DEF vars, stateVars, threadVars
<1>2. ASSUME NEW w \in Workers, Query(w) PROVE OnceUsed' /\ OnceApart'
  <2>1. ASSUME NEW r \in Requests, Arrive(w, r) PROVE OnceUsed' /\ OnceApart'
    BY <1>m, <1>p, <2>1 DEF Arrive, Goto, stateVars
  <2>2. CASE GateDormant(w)
    BY <1>g, <2>2 DEF GateDormant, stateVars
  <2>3. ASSUME NEW now \in Times, GateRefuse(w, now) PROVE OnceUsed' /\ OnceApart'
    BY <1>l, <2>3 DEF GateRefuse, stateVars
  <2>4. ASSUME NEW now \in Times, GateVerify(w, now) PROVE OnceUsed' /\ OnceApart'
    <3>1. /\ pc[w] = "gate" /\ pc' = [pc EXCEPT ![w] = "burn"] /\ UNCHANGED req
          /\ UNCHANGED <<provisioned, used_scope_nonces, answers>>
          /\ overlap \subseteq overlap'
      BY <2>4 DEF GateVerify, Goto, Set, stateVars
    <3>2. OnceUsed /\ OnceApart
      BY <1>g, <3>1
    <3>3. req[w].scope.nonce \notin used_scope_nonces
      BY <2>4 DEF GateVerify, VerifyScope
    <3>4. ASSUME NEW o \in Workers, o # w, pc[o] = "burn"
          PROVE  req[o].scope.nonce # req[w].scope.nonce
      BY <2>4, <3>4 DEF GateVerify, Note, Others
    <3>5. ASSUME NEW o \in Workers
          PROVE  /\ pc'[o] \in Spent => pc[o] \in Spent
                 /\ pc'[o] = "burn" => o = w \/ pc[o] = "burn"
      BY <1>p, <1>q, <3>1
    <3>6. OnceUsed'
      BY <3>1, <3>2, <3>3, <3>5 DEF OnceUsed
    <3>7. ASSUME NEW o \in Workers, NEW x \in Workers, o # x,
                 Alike(pc'[o], pc'[x])
          PROVE  req'[o].scope.nonce # req'[x].scope.nonce
      BY <3>1, <3>2, <3>4, <3>5, <3>7 DEF OnceApart, Alike
    <3> QED
      BY <3>1, <3>2, <3>5, <3>6, <3>7 DEF OnceApart, Alike
  <2>5. CASE Burn(w)
    <3> DEFINE n == req[w].scope.nonce
    <3>1. /\ pc[w] = "burn" /\ pc' = [pc EXCEPT ![w] = "run"] /\ UNCHANGED req
          /\ used_scope_nonces' = used_scope_nonces \cup {n}
          /\ UNCHANGED <<provisioned, overlap, answers>>
      BY <2>5 DEF Burn, Goto
    <3>2. OnceUsed /\ OnceApart
      BY <1>g, <3>1
    <3>3. n \notin used_scope_nonces
      BY <3>1, <3>2 DEF OnceUsed
    <3>4. ASSUME NEW o \in Workers
          PROVE  /\ pc'[o] = "burn" => o # w /\ pc[o] = "burn" /\ req[o].scope.nonce # n
                 /\ pc'[o] \in Spent /\ o # w => pc[o] \in Spent /\ req[o].scope.nonce # n
      <4>1. /\ pc'[o] = "burn" => o # w /\ pc[o] = "burn"
            /\ pc'[o] \in Spent /\ o # w => pc[o] \in Spent
        BY <1>q, <3>1
      <4>2. pc[o] = "burn" /\ o # w => req[o].scope.nonce # n
        BY <3>1, <3>2 DEF OnceApart, Alike
      <4>3. pc[o] \in Spent => req[o].scope.nonce # n
        BY <3>2, <3>3 DEF OnceUsed
      <4> QED
        BY <4>1, <4>2, <4>3
    <3>5. \A i \in DOMAIN answers : answers[i].req.scope.nonce # n
      BY <3>2, <3>3 DEF OnceUsed
    <3>6. OnceUsed'
      BY <3>1, <3>2, <3>4 DEF OnceUsed
    <3>7. ASSUME NEW o \in Workers, NEW x \in Workers, o # x,
                 Alike(pc'[o], pc'[x])
          PROVE  req'[o].scope.nonce # req'[x].scope.nonce
      BY <3>1, <3>2, <3>4, <3>7 DEF OnceApart, Alike
    <3> QED
      BY <3>1, <3>2, <3>4, <3>5, <3>6, <3>7 DEF OnceApart, Alike
  <2>6. CASE RunRefuse(w)
    BY <1>l, <2>6 DEF RunRefuse, stateVars
  <2>7. CASE RunServe(w)
    <3>1. pc[w] = "run" /\ req[w] \in Requests
      BY <1>i, <2>7 DEF RunServe, Serve, Leave, Goto, ThreadInv, Thread, Serving
    <3>2. graphs[req[w].graph] \in Versions \cup {NoVersion}
      BY <1>i, <3>1, ServiceAssumption DEF SharedInv, Request
    <3> QED
      BY <1>p, <1>s, <2>7, <3>2 DEF RunServe, stateVars
  <2>8. CASE RunAttested(w)
    BY <1>n, <1>p, <2>8 DEF RunAttested, Set, stateVars
  <2>9. CASE Attest(w)
    BY <1>n, <1>p, <2>9 DEF Attest, Set, stateVars
  <2>10. CASE ReadLog(w)
    BY <1>n, <1>p, <2>10 DEF ReadLog, Set, stateVars
  <2>11. CASE ReadKey(w)
    BY <1>n, <1>p, <2>11 DEF ReadKey, Set, stateVars
  <2>12. CASE ReadBinding(w)
    BY <1>n, <1>p, <2>12 DEF ReadBinding, Set, stateVars
  <2>13. CASE AppendWitness(w)
    <3>1. loc[w].version \in Versions \cup {NoVersion}
      BY <1>i DEF ThreadInv, Thread
    <3> QED
      BY <1>p, <1>s, <2>13, <3>1 DEF AppendWitness, witnessFrame
  <2> QED
    BY <1>2, <2>1, <2>2, <2>3, <2>4, <2>5, <2>6, <2>7, <2>8, <2>9, <2>10,
       <2>11, <2>12, <2>13 DEF Query
<1>3. ASSUME NEW w \in Workers, Rotate(w) PROVE OnceUsed' /\ OnceApart'
  <2>1. CASE RotateBegin(w)
    BY <1>n, <1>p, <2>1 DEF RotateBegin, Set, stateVars
  <2>2. CASE RotateReadLog(w)
    BY <1>n, <1>p, <2>2 DEF RotateReadLog, Set, stateVars
  <2>3. CASE RotateReadKey(w)
    BY <1>n, <1>p, <2>3 DEF RotateReadKey, Set, stateVars
  <2>4. CASE RotateAppend(w)
    BY <1>n, <1>p, <2>4 DEF RotateAppend, rotateFrame
  <2>5. CASE RotateSwap(w)
    BY <1>n, <1>p, <2>5 DEF RotateSwap, rotateFrame
  <2>6. CASE RotateSetSeq(w)
    BY <1>n, <1>p, <2>6 DEF RotateSetSeq, rotateFrame
  <2>7. CASE RotateSetFingerprint(w)
    BY <1>l, <2>7 DEF RotateSetFingerprint, rotateFrame
  <2> QED
    BY <1>3, <2>1, <2>2, <2>3, <2>4, <2>5, <2>6, <2>7 DEF Rotate
<1>4. CASE \E g \in Graphs, v \in Versions : LoadGraph(g, v)
  BY <1>u, <1>4 DEF LoadGraph, threadVars
<1>5. CASE AgentFetch \/ AgentVerify
  BY <1>u, <1>5 DEF AgentFetch, AgentVerify, stateVars, threadVars
<1> QED
  BY <1>1, <1>2, <1>3, <1>4, <1>5 DEF Next

(* While no two requests with one nonce are between the check and the burn *)
(* at once, a scope yields one answer, on any number of threads.           *)
THEOREM ScopeYieldsOneAnswer == Spec => []SerialScopeOnce
<1>1. Init => OnceInv
  <2>1. ASSUME Init PROVE OnceUsed /\ OnceApart
    <3>1. answers = <<>> /\ DOMAIN answers = {} /\ \A w \in Workers : pc[w] = "idle"
      BY <2>1 DEF Init
    <3>2. "idle" \notin Spent
      BY DEF Spent, Serving
    <3> QED
      BY <3>1, <3>2 DEF OnceUsed, OnceApart, Alike
  <2> QED
    BY <2>1 DEF OnceInv
<1>2. OnceInv => SerialScopeOnce
  BY DEF OnceInv, OnceApart, SerialScopeOnce
<1> QED
  BY <1>1, <1>2, OnceStep, ServiceHolds, PTL DEF Spec

-----------------------------------------------------------------------------
(* The witness log is complete.  An append replaces the shared list by a   *)
(* copy of it with an entry more: nothing is lost while the copy of the    *)
(* one thread that appends is still the shared list.  A thread has an      *)
(* attestation exactly when it has passed attest.                          *)

Unattested == {"gate", "burn", "run", "attest"}

AttestedInv ==
    \A w \in Workers :
        /\ pc[w] \in Unattested => loc[w].att = NoKey
        /\ pc[w] \in Writing \cup {"read_log"} => loc[w].att \in Key

OneAppends ==
    /\ \A w, o \in Workers : Appending(w) /\ Appending(o) => w = o
    /\ \A w \in Workers : Appending(w) => loc[w].log = witness_log

Rank(A, i) == {j \in A : j <= i}
Complete ==
    /\ Len(witness_log) = Cardinality(AttestedAnswers)
    /\ \A i \in AttestedAnswers : witness_log[Cardinality(Rank(AttestedAnswers, i))].id = answers[i].id

CompleteInv == AttestedInv /\ ("append" \notin overlap => OneAppends /\ Complete)

LEMMA AttestedStep == ServiceInv /\ AttestedInv /\ [Next]_vars => AttestedInv'
<1> SUFFICES ASSUME ServiceInv, AttestedInv, [Next]_vars PROVE AttestedInv'
  OBVIOUS
<1>i. ThreadInv /\ SharedInv
  BY DEF ServiceInv
<1> USE DEF Unattested, Writing
<1>d. DOMAIN pc = Workers /\ DOMAIN loc = Workers /\ \A w \in Workers : DOMAIN loc[w] = Fields
  BY <1>i DEF ThreadInv, Thread
<1>u. UNCHANGED <<pc, loc>> => AttestedInv'
  BY DEF AttestedInv
<1>m. ASSUME NEW w \in Workers, NEW p, NEW l, pc' = [pc EXCEPT ![w] = p],
             loc' = [loc EXCEPT ![w] = l], p \in Unattested => l.att = NoKey,
             p \in Writing \cup {"read_log"} => l.att \in Key
      PROVE  AttestedInv'
  BY <1>d, <1>m DEF AttestedInv
<1>l. ASSUME NEW w \in Workers, NEW from, Leave(w, from) PROVE AttestedInv'
  BY <1>l, <1>m DEF Leave, Goto
<1>n. ASSUME NEW w \in Workers, NEW from, NEW p, Goto(w, from, p), UNCHANGED loc,
             p \in Unattested => from \in Unattested, p \notin Writing \cup {"read_log"}
      PROVE  AttestedInv'
  BY <1>d, <1>n DEF AttestedInv, Goto
<1>s. ASSUME NEW w \in Workers, NEW from, NEW p, NEW l, Goto(w, from, p), Set(w, l),
             l.att = loc[w].att, p \in Unattested => from \in Unattested,
             p \in Writing \cup {"read_log"} => from \in Writing \cup {"read_log"}
      PROVE  AttestedInv'
  BY <1>d, <1>s DEF AttestedInv, Goto, Set
<1>1. CASE UNCHANGED vars
  BY <1>1, <1>u DEF vars, threadVars
<1>2. ASSUME NEW w \in Workers, Query(w) PROVE AttestedInv'
  <2>1. ASSUME NEW r \in Requests, Arrive(w, r) PROVE AttestedInv'
    BY <1>m, <2>1 DEF Arrive, Goto, Blank
  <2>2. CASE GateDormant(w)
    BY <1>n, <2>2 DEF GateDormant
  <2>3. ASSUME NEW now \in Times, GateRefuse(w, now) PROVE AttestedInv'
    BY <1>l, <2>3 DEF GateRefuse
  <2>4. ASSUME NEW now \in Times, GateVerify(w, now) PROVE AttestedInv'
    <3>1. [loc[w] EXCEPT !.at = now].att = loc[w].att
      BY <1>d DEF Fields
    <3> QED
      BY <1>s, <2>4, <3>1 DEF GateVerify
  <2>5. CASE Burn(w)
    BY <1>n, <2>5 DEF Burn
  <2>6. CASE RunRefuse(w)
    BY <1>l, <2>6 DEF RunRefuse
  <2>7. CASE RunServe(w)
    BY <1>l, <2>7 DEF RunServe, Serve
  <2>8. CASE RunAttested(w)
    <3>1. [loc[w] EXCEPT !.version = graphs[req[w].graph]].att = loc[w].att
      BY <1>d DEF Fields
    <3> QED
      BY <1>s, <2>8, <3>1 DEF RunAttested
  <2>9. CASE Attest(w)
    <3>1. [loc[w] EXCEPT !.att = authority].att \in Key
      BY <1>d, <1>i DEF Fields, SharedInv
    <3> QED
      BY <1>m, <2>9, <3>1 DEF Attest, Goto, Set
  <2>10. CASE ReadLog(w)
    <3>1. [loc[w] EXCEPT !.log = witness_log].att = loc[w].att
      BY <1>d DEF Fields
    <3> QED
      BY <1>s, <2>10, <3>1 DEF ReadLog
  <2>11. CASE ReadKey(w)
    <3>1. [loc[w] EXCEPT !.sk = authority].att = loc[w].att
      BY <1>d DEF Fields
    <3> QED
      BY <1>s, <2>11, <3>1 DEF ReadKey
  <2>12. CASE ReadBinding(w)
    <3> DEFINE l == [loc[w] EXCEPT !.key_seq = current_key_seq,
                                   !.key_fingerprint = current_key_fingerprint]
    <3>1. l.att = loc[w].att
      BY <1>d DEF Fields
    <3>2. Goto(w, "read_binding", "append") /\ Set(w, l)
      BY <2>12 DEF ReadBinding
    <3> HIDE DEF l
    <3> QED
      BY <1>s, <3>1, <3>2
  <2>13. CASE AppendWitness(w)
    BY <1>l, <2>13 DEF AppendWitness, Serve
  <2> QED
    BY <1>2, <2>1, <2>2, <2>3, <2>4, <2>5, <2>6, <2>7, <2>8, <2>9, <2>10,
       <2>11, <2>12, <2>13 DEF Query
<1>3. ASSUME NEW w \in Workers, Rotate(w) PROVE AttestedInv'
  <2>1. CASE RotateBegin(w)
    BY <1>m, <2>1 DEF RotateBegin, Goto, Set
  <2>2. CASE RotateReadLog(w)
    BY <1>m, <2>2 DEF RotateReadLog, Goto, Set
  <2>3. CASE RotateReadKey(w)
    BY <1>m, <2>3 DEF RotateReadKey, Goto, Set
  <2>4. CASE RotateAppend(w)
    BY <1>n, <2>4 DEF RotateAppend
  <2>5. CASE RotateSwap(w)
    BY <1>n, <2>5 DEF RotateSwap
  <2>6. CASE RotateSetSeq(w)
    BY <1>n, <2>6 DEF RotateSetSeq
  <2>7. CASE RotateSetFingerprint(w)
    BY <1>l, <2>7 DEF RotateSetFingerprint
  <2> QED
    BY <1>3, <2>1, <2>2, <2>3, <2>4, <2>5, <2>6, <2>7 DEF Rotate
<1>4. CASE \E g \in Graphs, v \in Versions : LoadGraph(g, v)
  BY <1>u, <1>4 DEF LoadGraph, threadVars
<1>5. CASE AgentFetch \/ AgentVerify
  BY <1>u, <1>5 DEF AgentFetch, AgentVerify, threadVars
<1> QED
  BY <1>1, <1>2, <1>3, <1>4, <1>5 DEF Next

(* An answer without an attestation leaves the record as it is. *)
LEMMA PlainAnswer ==
    ASSUME Complete, answers \in Seq(Answer), NEW a \in Answer, a.key = NoKey,
           answers' = Append(answers, a), UNCHANGED witness_log
    PROVE  Complete'
<1>1. AttestedAnswers' = AttestedAnswers /\ \A i \in AttestedAnswers : answers'[i] = answers[i]
  BY DEF AttestedAnswers
<1> QED
  BY <1>1 DEF Complete

(* An answer with one adds its entry at the end. *)
LEMMA AttestedAnswer ==
    ASSUME Complete, answers \in Seq(Answer), NEW a \in Answer, a.key # NoKey,
           IsSeq(witness_log), NEW e, e.id = a.id,
           answers' = Append(answers, a), witness_log' = Append(witness_log, e)
    PROVE  Complete'
<1> DEFINE n == Len(answers)
           A == AttestedAnswers
<1>1. n \in Nat /\ DOMAIN answers = 1 .. n /\ DOMAIN answers' = 1 .. n + 1
      /\ answers'[n + 1] = a /\ \A i \in 1 .. n : answers'[i] = answers[i]
  OBVIOUS
<1>2. A \subseteq 1 .. n /\ A' = A \cup {n + 1} /\ n + 1 \notin A
  BY <1>1 DEF AttestedAnswers
<1>3. IsFiniteSet(A) /\ Cardinality(A) \in Nat
  <2>1. IsFiniteSet(1 .. n)
    <3>1. 1 \in Int /\ n \in Int
      BY <1>1
    <3> HIDE DEF n
    <3> QED
      BY <3>1, FS_Interval
  <2>2. IsFiniteSet(A)
    BY <1>2, <2>1, FS_Subset
  <2> QED
    BY <2>2, FS_CardinalityType
<1>4. Cardinality(A') = Cardinality(A) + 1
  BY <1>2, <1>3, FS_AddElement
<1>5. /\ Len(witness_log) \in Nat /\ Len(witness_log') = Len(witness_log) + 1
      /\ witness_log'[Len(witness_log) + 1] = e
      /\ \A i \in 1 .. Len(witness_log) : witness_log'[i] = witness_log[i]
  BY Grown
<1>6. Len(witness_log) = Cardinality(A)
  BY DEF Complete
<1>7. ASSUME NEW i \in A PROVE witness_log'[Cardinality(Rank(A', i))].id = answers'[i].id
  <2>1. Rank(A', i) = Rank(A, i) /\ Rank(A, i) \subseteq A /\ i \in Rank(A, i)
    BY <1>1, <1>2 DEF Rank
  <2>2. IsFiniteSet(Rank(A, i)) /\ Cardinality(Rank(A, i)) \in Nat
        /\ Cardinality(Rank(A, i)) <= Cardinality(A)
    BY <1>3, <2>1, FS_Subset, FS_CardinalityType
  <2>3. Cardinality(Rank(A, i)) # 0
    BY <2>1, <2>2, FS_EmptySet
  <2>4. Cardinality(Rank(A, i)) \in 1 .. Len(witness_log)
    BY <1>3, <1>6, <2>2, <2>3
  <2>5. witness_log[Cardinality(Rank(A, i))].id = answers[i].id
    BY <1>7 DEF Complete
  <2> QED
    BY <1>1, <1>2, <1>5, <1>7, <2>1, <2>4, <2>5
<1>8. witness_log'[Cardinality(Rank(A', n + 1))].id = answers'[n + 1].id
  <2>1. \A j \in A' : j <= n + 1
    BY <1>1, <1>2
  <2>2. Rank(A', n + 1) = A'
    BY <2>1 DEF Rank
  <2> QED
    BY <1>1, <1>4, <1>5, <1>6, <2>2
<1>9. ASSUME NEW i \in A' PROVE witness_log'[Cardinality(Rank(A', i))].id = answers'[i].id
  BY <1>2, <1>7, <1>8, <1>9
<1> QED
  BY <1>4, <1>5, <1>6, <1>9 DEF Complete

LEMMA CompleteStep == ServiceInv /\ CompleteInv /\ [Next]_vars => CompleteInv'
<1> SUFFICES ASSUME ServiceInv, CompleteInv, [Next]_vars, "append" \notin overlap'
             PROVE  OneAppends' /\ Complete'
  BY AttestedStep DEF CompleteInv
<1>i. ChainInv /\ ThreadInv /\ SharedInv /\ AttestedInv
  BY DEF ServiceInv, CompleteInv
<1>g. overlap \subseteq overlap' => OneAppends /\ Complete
  BY DEF CompleteInv
<1>d. DOMAIN pc = Workers /\ DOMAIN loc = Workers /\ \A w \in Workers : DOMAIN loc[w] = Fields
  BY <1>i DEF ThreadInv, Thread
<1>p. Writing = {"read_key", "read_binding", "append"}
      /\ \A w \in Workers : Appending(w) <=> pc[w] \in Writing
  BY DEF Writing, Appending
<1>c. UNCHANGED <<answers, witness_log>> /\ Complete => Complete'
  BY DEF Complete, Rank, AttestedAnswers
<1>u. ASSUME UNCHANGED <<pc, loc, answers, witness_log, overlap>> PROVE OneAppends' /\ Complete'
  BY <1>c, <1>g, <1>u DEF OneAppends, Appending
<1>m. ASSUME NEW w \in Workers, NEW p, NEW l, OneAppends, pc' = [pc EXCEPT ![w] = p],
             loc' = [loc EXCEPT ![w] = l], UNCHANGED witness_log,
             p \in Writing => Appending(w) /\ l.log = loc[w].log
      PROVE  OneAppends'
  <2>1. ASSUME NEW o \in Workers, Appending(o)'
        PROVE  Appending(o) /\ loc'[o].log = loc[o].log
    BY <1>d, <1>m, <1>p, <2>1 DEF Appending
  <2> QED
    BY <1>m, <2>1 DEF OneAppends
<1>l. ASSUME NEW w \in Workers, NEW from, Leave(w, from), OneAppends, UNCHANGED witness_log
      PROVE  OneAppends'
  <2>1. "idle" \notin Writing
    BY <1>p
  <2> QED
    BY <1>l, <1>m, <2>1 DEF Leave, Goto
<1>n. ASSUME NEW w \in Workers, NEW from, NEW p, Goto(w, from, p), p \notin Writing,
             UNCHANGED <<loc, answers, witness_log>>, overlap \subseteq overlap'
      PROVE  OneAppends' /\ Complete'
  <2>1. loc' = [loc EXCEPT ![w] = loc[w]]
    BY <1>i, <1>n DEF ThreadInv
  <2> QED
    BY <1>c, <1>g, <1>m, <1>n, <2>1 DEF Goto
<1>s. ASSUME NEW w \in Workers, NEW from, NEW p, NEW l, Goto(w, from, p), Set(w, l),
             p \in Writing => from \in Writing /\ l.log = loc[w].log,
             UNCHANGED <<answers, witness_log>>, overlap \subseteq overlap'
      PROVE  OneAppends' /\ Complete'
  BY <1>c, <1>g, <1>m, <1>p, <1>s DEF Goto, Set
<1>e. ASSUME NEW w \in Workers, NEW from, Leave(w, from),
             UNCHANGED <<answers, witness_log, overlap>>
      PROVE  OneAppends' /\ Complete'
  BY <1>c, <1>e, <1>g, <1>l
<1>a. ASSUME NEW w \in Workers, pc[w] \in Serving, NEW v \in Versions \cup {NoVersion}
      PROVE  [id |-> loc[w].id, at |-> loc[w].at, req |-> req[w], version |-> v,
              key |-> loc[w].att] \in Answer
  BY <1>a, <1>i DEF ThreadInv, Thread, Answer
<1>1. CASE UNCHANGED vars
  BY <1>1, <1>u DEF vars, stateVars, threadVars
<1>2. ASSUME NEW w \in Workers, Query(w) PROVE OneAppends' /\ Complete'
  <2>1. ASSUME NEW r \in Requests, Arrive(w, r) PROVE OneAppends' /\ Complete'
    BY <1>c, <1>g, <1>m, <1>p, <2>1 DEF Arrive, Goto, stateVars
  <2>2. CASE GateDormant(w)
    BY <1>n, <1>p, <2>2 DEF GateDormant, stateVars
  <2>3. ASSUME NEW now \in Times, GateRefuse(w, now) PROVE OneAppends' /\ Complete'
    BY <1>e, <2>3 DEF GateRefuse, stateVars
  <2>4. ASSUME NEW now \in Times, GateVerify(w, now) PROVE OneAppends' /\ Complete'
    BY <1>p, <1>s, <2>4 DEF GateVerify, stateVars
  <2>5. CASE Burn(w)
    BY <1>n, <1>p, <2>5 DEF Burn
  <2>6. CASE RunRefuse(w)
    BY <1>e, <2>6 DEF RunRefuse, stateVars
  <2>7. CASE RunServe(w)
    <3> DEFINE v == graphs[req[w].graph]
               a == [id |-> loc[w].id, at |-> loc[w].at, req |-> req[w], version |-> v,
                     key |-> loc[w].att]
    <3>1. /\ pc[w] = "run" /\ Leave(w, "run") /\ answers' = Append(answers, a)
          /\ UNCHANGED <<witness_log, overlap>>
      BY <2>7 DEF RunServe, Serve, Leave, Goto, stateVars
    <3>2. req[w] \in Requests /\ pc[w] \in Serving
      BY <1>i, <3>1 DEF ThreadInv, Thread, Serving
    <3>3. v \in Versions \cup {NoVersion}
      BY <1>i, <3>2, ServiceAssumption DEF SharedInv, Request
    <3>4. a \in Answer
      BY <1>a, <3>2, <3>3
    <3>5. a.key = NoKey
      BY <1>i, <3>1 DEF AttestedInv, Unattested
    <3>6. answers \in Seq(Answer)
      BY <1>i DEF SharedInv
    <3> HIDE DEF a
    <3> QED
      BY <1>g, <1>l, <3>1, <3>4, <3>5, <3>6, PlainAnswer
  <2>8. CASE RunAttested(w)
    BY <1>p, <1>s, <2>8 DEF RunAttested, stateVars
  <2>9. CASE Attest(w)
    BY <1>p, <1>s, <2>9 DEF Attest, stateVars
  <2>10. CASE ReadLog(w)
    <3>1. /\ pc[w] = "read_log" /\ pc' = [pc EXCEPT ![w] = "read_key"]
          /\ loc' = [loc EXCEPT ![w] = [loc[w] EXCEPT !.log = witness_log]]
          /\ UNCHANGED <<witness_log, answers>> /\ overlap \subseteq overlap'
      BY <2>10 DEF ReadLog, Goto, Set, stateVars
    <3>2. \A o \in Workers : o # w => ~Appending(o)
      BY <2>10 DEF ReadLog, Note, Others
    <3>3. ASSUME NEW o \in Workers, Appending(o)' PROVE o = w
      BY <1>d, <3>1, <3>2, <3>3 DEF Appending
    <3>4. loc'[w].log = witness_log'
      BY <1>d, <3>1 DEF Fields
    <3> QED
      BY <1>c, <1>g, <3>1, <3>3, <3>4 DEF OneAppends
  <2>11. CASE ReadKey(w)
    <3>1. [loc[w] EXCEPT !.sk = authority].log = loc[w].log
      BY <1>d DEF Fields
    <3> QED
      BY <1>p, <1>s, <2>11, <3>1 DEF ReadKey, stateVars
  <2>12. CASE ReadBinding(w)
    <3> DEFINE l == [loc[w] EXCEPT !.key_seq = current_key_seq,
                                   !.key_fingerprint = current_key_fingerprint]
    <3>1. l.log = loc[w].log
      BY <1>d DEF Fields
    <3>2. /\ Goto(w, "read_binding", "append") /\ Set(w, l)
          /\ UNCHANGED <<answers, witness_log, overlap>>
      BY <2>12 DEF ReadBinding, stateVars
    <3> HIDE DEF l
    <3> QED
      BY <1>p, <1>s, <3>1, <3>2
  <2>13. CASE AppendWitness(w)
    <3> DEFINE l == loc[w]
               e == WitnessEntry(l.log, l.id, l.sk, l.key_seq, l.key_fingerprint)
               a == [id |-> l.id, at |-> l.at, req |-> req[w], version |-> l.version,
                     key |-> l.att]
    <3>1. /\ pc[w] = "append" /\ Leave(w, "append") /\ answers' = Append(answers, a)
          /\ witness_log' = Append(l.log, e) /\ UNCHANGED overlap
      BY <2>13 DEF AppendWitness, AppendEntry, Serve, Leave, Goto
    <3>2. OneAppends /\ Complete /\ Appending(w)
      BY <1>g, <3>1 DEF Appending
    <3>3. l.log = witness_log
      BY <3>2 DEF OneAppends
    <3>4. a \in Answer
      <4>1. l.version \in Versions \cup {NoVersion} /\ pc[w] \in Serving
        BY <1>i, <3>1 DEF ThreadInv, Thread, Serving
      <4> QED
        BY <1>a, <4>1
    <3>5. a.key # NoKey
      <4>1. l.att \in Key
        BY <1>i, <1>p, <3>1 DEF AttestedInv
      <4> QED
        BY <4>1, ServiceAssumption DEF Key
    <3>6. answers \in Seq(Answer) /\ IsSeq(witness_log) /\ e.id = a.id
      BY <1>i DEF SharedInv, ChainInv, Sound, WitnessEntry
    <3>7. Complete'
      <4> HIDE DEF a, e, l
      <4> QED
        BY <3>1, <3>2, <3>3, <3>4, <3>5, <3>6, AttestedAnswer
    <3>8. ASSUME NEW o \in Workers, Appending(o)' PROVE FALSE
      <4>1. o # w /\ Appending(o)
        BY <1>d, <3>1, <3>8 DEF Leave, Goto, Appending
      <4> QED
        BY <3>2, <4>1 DEF OneAppends
    <3> QED
      BY <3>7, <3>8 DEF OneAppends
  <2> QED
    BY <1>2, <2>1, <2>2, <2>3, <2>4, <2>5, <2>6, <2>7, <2>8, <2>9, <2>10,
       <2>11, <2>12, <2>13 DEF Query
<1>3. ASSUME NEW w \in Workers, Rotate(w) PROVE OneAppends' /\ Complete'
  <2>1. CASE RotateBegin(w)
    BY <1>p, <1>s, <2>1 DEF RotateBegin, stateVars
  <2>2. CASE RotateReadLog(w)
    BY <1>p, <1>s, <2>2 DEF RotateReadLog, stateVars
  <2>3. CASE RotateReadKey(w)
    BY <1>p, <1>s, <2>3 DEF RotateReadKey, stateVars
  <2>4. CASE RotateAppend(w)
    BY <1>n, <1>p, <2>4 DEF RotateAppend, rotateFrame
  <2>5. CASE RotateSwap(w)
    BY <1>n, <1>p, <2>5 DEF RotateSwap, rotateFrame
  <2>6. CASE RotateSetSeq(w)
    BY <1>n, <1>p, <2>6 DEF RotateSetSeq, rotateFrame
  <2>7. CASE RotateSetFingerprint(w)
    BY <1>e, <2>7 DEF RotateSetFingerprint, rotateFrame
  <2> QED
    BY <1>3, <2>1, <2>2, <2>3, <2>4, <2>5, <2>6, <2>7 DEF Rotate
<1>4. CASE \E g \in Graphs, v \in Versions : LoadGraph(g, v)
  BY <1>u, <1>4 DEF LoadGraph, threadVars
<1>5. CASE AgentFetch \/ AgentVerify
  BY <1>u, <1>5 DEF AgentFetch, AgentVerify, stateVars, threadVars
<1> QED
  BY <1>1, <1>2, <1>3, <1>4, <1>5 DEF Next

(* While no two appends overlap, the witness log is the record of every    *)
(* attested answer in the order in which they were served, across every    *)
(* rotation, on any number of threads.                                     *)
THEOREM WitnessLogIsComplete == Spec => []SerialComplete
<1>1. Init => CompleteInv
  <2> SUFFICES ASSUME Init PROVE CompleteInv
    OBVIOUS
  <2>1. answers = <<>> /\ witness_log = <<>> /\ \A w \in Workers : pc[w] = "idle"
    BY DEF Init
  <2>2. AttestedAnswers = {}
    BY <2>1 DEF AttestedAnswers
  <2>3. Complete
    BY <2>1, <2>2, FS_EmptySet DEF Complete
  <2>4. AttestedInv /\ OneAppends
    BY <2>1 DEF AttestedInv, OneAppends, Appending, Unattested, Writing
  <2> QED
    BY <2>3, <2>4 DEF CompleteInv
<1>2. CompleteInv => SerialComplete
  BY DEF CompleteInv, Complete, Rank, SerialComplete
<1> QED
  BY <1>1, <1>2, CompleteStep, ServiceHolds, PTL DEF Spec

-----------------------------------------------------------------------------
(* Every answer has a number of its own, and a log only holds entries of   *)
(* answers that were given.                                                *)

Recorded(log, ans) == \A i \in DOMAIN log : \E j \in DOMAIN ans : ans[j].id = log[i].id

NumberInv ==
    /\ \A w, o \in Workers :
          w # o /\ pc[w] \in Serving /\ pc[o] \in Serving => loc[w].id # loc[o].id
    /\ \A w \in Workers : pc[w] \in Serving =>
          /\ loc[w].id <= arrivals
          /\ \A j \in DOMAIN answers : answers[j].id # loc[w].id
    /\ \A j \in DOMAIN answers : answers[j].id <= arrivals
    /\ Recorded(witness_log, answers)
    /\ \A w \in Workers : pc[w] \in Writing => Recorded(loc[w].log, answers)

(* While no rotation overlaps an append or another rotation: the trust log *)
(* was written by one rotation at a time, each signed by the key before,   *)
(* and whoever attests has the key of its last entry.                      *)

LastKey(trust) == trust[Len(trust)].pem

Signed(trust) ==
    /\ trust # <<>> /\ trust[1].pem = Anchor
    /\ \A i \in DOMAIN trust :
          /\ trust[i].action = IF i = 1 THEN "bootstrap" ELSE "rotate"
          /\ trust[i].sig = IF i = 1 THEN Anchor ELSE trust[i - 1].pem

Anchored(log, trust) ==
    \A i \in DOMAIN log :
        /\ log[i].key_seq \in Nat /\ log[i].key_seq + 1 \in DOMAIN trust
        /\ trust[log[i].key_seq + 1].pem = log[i].key_fingerprint
        /\ log[i].sig = log[i].key_fingerprint

Agrees(log, ans) ==
    \A i \in DOMAIN log, j \in DOMAIN ans : ans[j].id = log[i].id => ans[j].key = log[i].sig

Attests == Writing \cup {"read_log"}
Late == {"swap", "set_seq", "set_fingerprint"}

RotationApart ==
    \A w, o \in Workers :
        pc[w] \in Replacing => pc[o] \notin Attests /\ (pc[o] \in Replacing => o = w)

(* What a thread at p holds of the trust log and of the key in force. *)
Holds(p, l, trust, key) ==
    /\ p \in {"rotate_key", "rotate_append"} => l.log = trust
    /\ p = "rotate_append" => l.sk = key
    /\ p = "swap" => l.new = LastKey(trust)
    /\ p \in Attests => l.att = key
    /\ p \in {"read_binding", "append"} => l.sk = key
    /\ p = "append" => l.key_seq = Len(trust) - 1 /\ l.key_fingerprint = LastKey(trust)
    /\ p \in Writing => Anchored(l.log, trust)

InForce ==
    /\ (\A w \in Workers : pc[w] # "swap") => authority = LastKey(trust_log)
    /\ (\A w \in Workers : pc[w] \notin {"swap", "set_seq"}) =>
          current_key_seq = Len(trust_log) - 1
    /\ (\A w \in Workers : pc[w] \notin Late) =>
          current_key_fingerprint = LastKey(trust_log)

TrustInv ==
    /\ RotationApart
    /\ Signed(trust_log)
    /\ InForce
    /\ Anchored(witness_log, trust_log)
    /\ \A w \in Workers : Holds(pc[w], loc[w], trust_log, authority)

AgreeInv ==
    /\ Agrees(witness_log, answers)
    /\ \A w \in Workers : pc[w] \in Writing => Agrees(loc[w].log, answers)

(* An agent whose check met no rotation, and has met none since. *)
CalmInv ==
    /\ DOMAIN agent = {"pc", "key", "cached", "verdict", "calm"}
    /\ agent.calm =>
          /\ "rotate" \notin overlap /\ \A w \in Workers : pc[w] \notin Replacing
          /\ agent.pc = "log" => agent.key = authority
          /\ agent.pc = "idle" => agent.verdict /\ agent.cached = authority
          /\ agent.pc \in {"idle", "log"}

AnchorInv == NumberInv /\ CalmInv /\ ("rotate" \notin overlap => TrustInv /\ AgreeInv)

(* What an answer does to what is recorded and to what agrees with it. *)
LEMMA AnswersGrow ==
    ASSUME NEW log, NEW ans, IsSeq(ans), NEW a
    PROVE  /\ Recorded(log, ans) => Recorded(log, Append(ans, a))
           /\ Agrees(log, ans) /\ (\A i \in DOMAIN log : log[i].id # a.id) =>
                 Agrees(log, Append(ans, a))
<1> DEFINE new == Append(ans, a)
<1>1. /\ Len(ans) \in Nat /\ DOMAIN ans = 1 .. Len(ans) /\ DOMAIN new = 1 .. Len(ans) + 1
      /\ new[Len(ans) + 1] = a /\ \A k \in 1 .. Len(ans) : new[k] = ans[k]
  BY Grown
<1> HIDE DEF new
<1>2. \A j \in DOMAIN ans : j \in DOMAIN new /\ new[j] = ans[j]
  BY <1>1
<1>3. \A j \in DOMAIN new : new[j] = a \/ (j \in DOMAIN ans /\ new[j] = ans[j])
  BY <1>1
<1>4. Recorded(log, ans) => Recorded(log, new)
  BY <1>2 DEF Recorded
<1>5. Agrees(log, ans) /\ (\A i \in DOMAIN log : log[i].id # a.id) => Agrees(log, new)
  BY <1>3 DEF Agrees
<1> QED
  BY <1>4, <1>5 DEF new

(* The entry and the answer of one request are added together. *)
LEMMA EntryGrows ==
    ASSUME NEW log, IsSeq(log), NEW ans, IsSeq(ans), NEW e, NEW a, a.id = e.id
    PROVE  /\ Recorded(log, ans) => Recorded(Append(log, e), Append(ans, a))
           /\ Agrees(log, ans) /\ Recorded(log, ans) /\ a.key = e.sig
              /\ (\A j \in DOMAIN ans : ans[j].id # a.id) =>
                 Agrees(Append(log, e), Append(ans, a))
<1> DEFINE new == Append(ans, a)
           all == Append(log, e)
<1>1. /\ Len(ans) \in Nat /\ DOMAIN ans = 1 .. Len(ans) /\ DOMAIN new = 1 .. Len(ans) + 1
      /\ new[Len(ans) + 1] = a /\ \A k \in 1 .. Len(ans) : new[k] = ans[k]
  BY Grown
<1>2. /\ Len(log) \in Nat /\ DOMAIN log = 1 .. Len(log) /\ DOMAIN all = 1 .. Len(log) + 1
      /\ all[Len(log) + 1] = e /\ \A k \in 1 .. Len(log) : all[k] = log[k]
  BY Grown
<1> HIDE DEF new, all
<1>3. /\ \A j \in DOMAIN ans : j \in DOMAIN new /\ new[j] = ans[j]
      /\ \E j \in DOMAIN new : new[j] = a
  BY <1>1
<1>4. \A j \in DOMAIN new : new[j] = a \/ (j \in DOMAIN ans /\ new[j] = ans[j])
  BY <1>1
<1>5. \A i \in DOMAIN all : all[i] = e \/ (i \in DOMAIN log /\ all[i] = log[i])
  BY <1>2
<1>6. Recorded(log, ans) => Recorded(all, new)
  BY <1>3, <1>5 DEF Recorded
<1>7. ASSUME Agrees(log, ans), Recorded(log, ans), a.key = e.sig,
             \A j \in DOMAIN ans : ans[j].id # a.id
      PROVE  Agrees(all, new)
  <2>1. ASSUME NEW i \in DOMAIN all, NEW j \in DOMAIN new, new[j].id = all[i].id
        PROVE  new[j].key = all[i].sig
    <3>1. CASE all[i] = e
      <4>1. new[j] = a
        BY <1>4, <1>7, <2>1, <3>1
      <4> QED
        BY <1>7, <3>1, <4>1
    <3>2. CASE i \in DOMAIN log /\ all[i] = log[i]
      <4>1. PICK k \in DOMAIN ans : ans[k].id = log[i].id
        BY <1>7, <3>2 DEF Recorded
      <4>2. j \in DOMAIN ans /\ new[j] = ans[j]
        BY <1>4, <1>7, <2>1, <3>2, <4>1
      <4> QED
        BY <1>7, <2>1, <3>2, <4>2 DEF Agrees
    <3> QED
      BY <1>5, <3>1, <3>2
  <2> QED
    BY <2>1 DEF Agrees
<1> QED
  BY <1>6, <1>7 DEF new, all

LEMMA NumberStep == ServiceInv /\ NumberInv /\ [Next]_vars => NumberInv'
<1> SUFFICES ASSUME ServiceInv, NumberInv, [Next]_vars PROVE NumberInv'
  OBVIOUS
<1>i. ChainInv /\ ThreadInv /\ SharedInv
  BY DEF ServiceInv
<1>d. DOMAIN pc = Workers /\ DOMAIN loc = Workers /\ \A w \in Workers : DOMAIN loc[w] = Fields
  BY <1>i DEF ThreadInv, Thread
<1>b. arrivals \in Nat /\ \A w \in Workers : loc[w].id \in Nat
  BY <1>i, Bounds DEF ThreadInv, Thread
<1>a. answers \in Seq(Answer) /\ IsSeq(answers)
  BY <1>i DEF SharedInv, IsSeq
<1>f. \A j \in DOMAIN answers : answers[j].id \in Nat
  <2>1. ASSUME NEW j \in DOMAIN answers PROVE answers[j] \in Answer
    BY <1>a
  <2> QED
    BY <2>1 DEF Answer
<1>p. /\ Writing \subseteq Serving /\ "idle" \notin Serving
      /\ Writing = {"read_key", "read_binding", "append"}
      /\ Serving = {"gate", "burn", "run", "attest", "read_log", "read_key", "read_binding",
                    "append"}
  BY DEF Writing, Serving
<1>u. UNCHANGED <<pc, loc, answers, witness_log, arrivals>> => NumberInv'
  BY DEF NumberInv
<1>m. ASSUME NEW w \in Workers, NEW p, NEW l, pc' = [pc EXCEPT ![w] = p],
             loc' = [loc EXCEPT ![w] = l], UNCHANGED <<answers, witness_log, arrivals>>,
             p \in Serving => pc[w] \in Serving /\ l.id = loc[w].id,
             p \in Writing => Recorded(l.log, answers)
      PROVE  NumberInv'
  <2>1. ASSUME NEW o \in Workers
        PROVE  /\ pc'[o] \in Serving => pc[o] \in Serving /\ loc'[o].id = loc[o].id
               /\ pc'[o] \in Writing => Recorded(loc'[o].log, answers)
    <3>1. CASE o = w
      BY <1>d, <1>m, <3>1
    <3>2. CASE o # w
      <4>1. pc'[o] = pc[o] /\ loc'[o] = loc[o]
        BY <1>d, <1>m, <3>2
      <4> QED
        BY <4>1 DEF NumberInv
    <3> QED
      BY <3>1, <3>2
  <2> QED
    BY <1>m, <2>1 DEF NumberInv
<1>l. ASSUME NEW w \in Workers, NEW from, Leave(w, from),
             UNCHANGED <<answers, witness_log, arrivals>>
      PROVE  NumberInv'
  BY <1>l, <1>m, <1>p DEF Leave, Goto
<1>n. ASSUME NEW w \in Workers, NEW from, NEW p, Goto(w, from, p), p \notin Writing,
             UNCHANGED <<loc, answers, witness_log, arrivals>>,
             p \in Serving => from \in Serving
      PROVE  NumberInv'
  <2>1. loc' = [loc EXCEPT ![w] = loc[w]]
    BY <1>i, <1>n DEF ThreadInv
  <2> QED
    BY <1>m, <1>n, <2>1 DEF Goto
<1>s. ASSUME NEW w \in Workers, NEW from, NEW p, NEW l, Goto(w, from, p), Set(w, l),
             UNCHANGED <<answers, witness_log, arrivals>>,
             p \in Serving => from \in Serving /\ l.id = loc[w].id,
             p \in Writing => Recorded(l.log, answers)
      PROVE  NumberInv'
  BY <1>m, <1>s DEF Goto, Set
<1>r. Recorded(witness_log, answers)
      /\ \A w \in Workers : pc[w] \in Writing => Recorded(loc[w].log, answers)
  BY DEF NumberInv
<1>v. ASSUME NEW w \in Workers, NEW from \in Serving, NEW v, Serve(w, from, v),
             Recorded(witness_log', answers'), UNCHANGED arrivals
      PROVE  NumberInv'
  <2> DEFINE a == [id |-> loc[w].id, at |-> loc[w].at, req |-> req[w], version |-> v,
                   key |-> loc[w].att]
  <2>1. /\ pc[w] \in Serving /\ pc' = [pc EXCEPT ![w] = "idle"]
        /\ loc' = [loc EXCEPT ![w] = Blank] /\ answers' = Append(answers, a)
    BY <1>v DEF Serve, Leave, Goto
  <2>2. a.id = loc[w].id
    OBVIOUS
  <2> HIDE DEF a
  <2>3. ASSUME NEW o \in Workers, pc'[o] \in Serving
        PROVE  o # w /\ pc'[o] = pc[o] /\ loc'[o] = loc[o]
    BY <1>d, <1>p, <2>1, <2>3
  <2>4. \A j \in DOMAIN answers' : answers'[j] = a \/ (j \in DOMAIN answers /\ answers'[j] = answers[j])
    <3>1. /\ Len(answers) \in Nat /\ DOMAIN answers = 1 .. Len(answers)
          /\ DOMAIN answers' = 1 .. Len(answers) + 1 /\ answers'[Len(answers) + 1] = a
          /\ \A k \in 1 .. Len(answers) : answers'[k] = answers[k]
      BY <1>a, <2>1, Grown
    <3> QED
      BY <3>1
  <2>5. ASSUME NEW o \in Workers, pc'[o] \in Serving
        PROVE  /\ loc'[o].id <= arrivals'
               /\ \A j \in DOMAIN answers' : answers'[j].id # loc'[o].id
    BY <1>v, <2>1, <2>2, <2>3, <2>4, <2>5 DEF NumberInv
  <2>6. \A j \in DOMAIN answers' : answers'[j].id <= arrivals'
    BY <1>v, <2>1, <2>2, <2>4 DEF NumberInv
  <2>7. ASSUME NEW o \in Workers, pc'[o] \in Writing PROVE Recorded(loc'[o].log, answers')
    BY <1>a, <1>p, <1>r, <2>1, <2>3, <2>7, AnswersGrow
  <2>8. \A o, x \in Workers :
          o # x /\ pc'[o] \in Serving /\ pc'[x] \in Serving => loc'[o].id # loc'[x].id
    BY <2>3 DEF NumberInv
  <2> QED
    BY <1>v, <2>5, <2>6, <2>7, <2>8 DEF NumberInv
<1>1. CASE UNCHANGED vars
  BY <1>1, <1>u DEF vars, stateVars, threadVars, boundVars
<1>2. ASSUME NEW w \in Workers, Query(w) PROVE NumberInv'
  <2>1. ASSUME NEW r \in Requests, Arrive(w, r) PROVE NumberInv'
    <3> DEFINE l == [Blank EXCEPT !.id = arrivals + 1]
    <3>1. /\ pc' = [pc EXCEPT ![w] = "gate"] /\ loc' = [loc EXCEPT ![w] = l]
          /\ arrivals' = arrivals + 1 /\ UNCHANGED <<answers, witness_log>>
      BY <2>1 DEF Arrive, Goto, stateVars
    <3>2. l.id = arrivals + 1
      BY DEF Blank
    <3> HIDE DEF l
    <3>3. ASSUME NEW o \in Workers, o # w PROVE pc'[o] = pc[o] /\ loc'[o] = loc[o]
      BY <1>d, <3>1, <3>3
    <3>4. pc'[w] = "gate" /\ loc'[w].id = arrivals + 1
      BY <1>d, <3>1, <3>2
    <3>5. ASSUME NEW o \in Workers, pc'[o] \in Serving
          PROVE  /\ loc'[o].id <= arrivals'
                 /\ \A j \in DOMAIN answers' : answers'[j].id # loc'[o].id
                 /\ o # w => loc'[o].id <= arrivals
      <4>1. CASE o = w
        BY <1>b, <1>f, <3>1, <3>4, <4>1 DEF NumberInv
      <4>2. CASE o # w
        BY <1>b, <3>1, <3>3, <3>5, <4>2 DEF NumberInv
      <4> QED
        BY <4>1, <4>2
    <3>6. ASSUME NEW o \in Workers, NEW x \in Workers, o # x, pc'[o] \in Serving, pc'[x] \in Serving
          PROVE  loc'[o].id # loc'[x].id
      <4>1. CASE o = w
        BY <1>b, <3>3, <3>4, <3>5, <3>6, <4>1
      <4>2. CASE x = w
        BY <1>b, <3>3, <3>4, <3>5, <3>6, <4>2
      <4>3. CASE o # w /\ x # w
        BY <3>3, <3>6, <4>3 DEF NumberInv
      <4> QED
        BY <4>1, <4>2, <4>3
    <3>7. \A j \in DOMAIN answers' : answers'[j].id <= arrivals'
      BY <1>b, <1>f, <3>1 DEF NumberInv
    <3>8. ASSUME NEW o \in Workers, pc'[o] \in Writing PROVE Recorded(loc'[o].log, answers')
      BY <1>p, <1>r, <3>1, <3>3, <3>4, <3>8
    <3> QED
      BY <1>r, <3>1, <3>5, <3>6, <3>7, <3>8 DEF NumberInv
  <2>2. CASE GateDormant(w)
    BY <1>n, <1>p, <2>2 DEF GateDormant, stateVars, boundVars
  <2>3. ASSUME NEW now \in Times, GateRefuse(w, now) PROVE NumberInv'
    BY <1>l, <2>3 DEF GateRefuse, stateVars, boundVars
  <2>4. ASSUME NEW now \in Times, GateVerify(w, now) PROVE NumberInv'
    <3>1. [loc[w] EXCEPT !.at = now].id = loc[w].id
      BY <1>d DEF Fields
    <3> QED
      BY <1>p, <1>s, <2>4, <3>1 DEF GateVerify, stateVars, boundVars
  <2>5. CASE Burn(w)
    BY <1>n, <1>p, <2>5 DEF Burn, boundVars
  <2>6. CASE RunRefuse(w)
    BY <1>l, <2>6 DEF RunRefuse, stateVars, boundVars
  <2>7. CASE RunServe(w)
    <3>1. Serve(w, "run", graphs[req[w].graph]) /\ UNCHANGED <<witness_log, arrivals>>
      BY <2>7 DEF RunServe, stateVars, boundVars
    <3>2. Recorded(witness_log', answers')
      BY <1>a, <1>r, <3>1, AnswersGrow DEF Serve
    <3> QED
      BY <1>p, <1>v, <3>1, <3>2
  <2>8. CASE RunAttested(w)
    <3>1. [loc[w] EXCEPT !.version = graphs[req[w].graph]].id = loc[w].id
      BY <1>d DEF Fields
    <3> QED
      BY <1>p, <1>s, <2>8, <3>1 DEF RunAttested, stateVars, boundVars
  <2>9. CASE Attest(w)
    <3>1. [loc[w] EXCEPT !.att = authority].id = loc[w].id
      BY <1>d DEF Fields
    <3> QED
      BY <1>p, <1>s, <2>9, <3>1 DEF Attest, stateVars, boundVars
  <2>10. CASE ReadLog(w)
    <3> DEFINE l == [loc[w] EXCEPT !.log = witness_log]
    <3>1. l.id = loc[w].id /\ l.log = witness_log
      BY <1>d DEF Fields
    <3>2. /\ Goto(w, "read_log", "read_key") /\ Set(w, l)
          /\ UNCHANGED <<answers, witness_log, arrivals>>
      BY <2>10 DEF ReadLog, stateVars, boundVars
    <3> HIDE DEF l
    <3> QED
      BY <1>p, <1>r, <1>s, <3>1, <3>2
  <2>11. CASE ReadKey(w)
    <3> DEFINE l == [loc[w] EXCEPT !.sk = authority]
    <3>1. l.id = loc[w].id /\ l.log = loc[w].log
      BY <1>d DEF Fields
    <3>2. /\ Goto(w, "read_key", "read_binding") /\ Set(w, l) /\ pc[w] = "read_key"
          /\ UNCHANGED <<answers, witness_log, arrivals>>
      BY <2>11 DEF ReadKey, Goto, stateVars, boundVars
    <3> HIDE DEF l
    <3> QED
      BY <1>p, <1>r, <1>s, <3>1, <3>2
  <2>12. CASE ReadBinding(w)
    <3> DEFINE l == [loc[w] EXCEPT !.key_seq = current_key_seq,
                                   !.key_fingerprint = current_key_fingerprint]
    <3>1. l.id = loc[w].id /\ l.log = loc[w].log
      BY <1>d DEF Fields
    <3>2. /\ Goto(w, "read_binding", "append") /\ Set(w, l) /\ pc[w] = "read_binding"
          /\ UNCHANGED <<answers, witness_log, arrivals>>
      BY <2>12 DEF ReadBinding, Goto, stateVars, boundVars
    <3> HIDE DEF l
    <3> QED
      BY <1>p, <1>r, <1>s, <3>1, <3>2
  <2>13. CASE AppendWitness(w)
    <3> DEFINE l == loc[w]
               e == WitnessEntry(l.log, l.id, l.sk, l.key_seq, l.key_fingerprint)
               a == [id |-> l.id, at |-> l.at, req |-> req[w], version |-> l.version,
                     key |-> l.att]
    <3>1. /\ Serve(w, "append", l.version) /\ UNCHANGED arrivals /\ pc[w] = "append"
          /\ witness_log' = Append(l.log, e) /\ answers' = Append(answers, a)
      BY <2>13 DEF AppendWitness, AppendEntry, Serve, Leave, Goto, boundVars
    <3>2. a.id = e.id /\ IsSeq(l.log)
      BY <1>i DEF WitnessEntry, ChainInv, Local, Sound
    <3>3. Recorded(witness_log', answers')
      <4>1. Recorded(l.log, answers)
        BY <1>p, <1>r, <3>1
      <4> HIDE DEF a, e, l
      <4> QED
        BY <1>a, <3>1, <3>2, <4>1, EntryGrows
    <3> QED
      BY <1>p, <1>v, <3>1, <3>3
  <2> QED
    BY <1>2, <2>1, <2>2, <2>3, <2>4, <2>5, <2>6, <2>7, <2>8, <2>9, <2>10,
       <2>11, <2>12, <2>13 DEF Query
<1>3. ASSUME NEW w \in Workers, Rotate(w) PROVE NumberInv'
  <2>1. CASE RotateBegin(w)
    BY <1>p, <1>s, <2>1 DEF RotateBegin, stateVars
  <2>2. CASE RotateReadLog(w)
    BY <1>p, <1>s, <2>2 DEF RotateReadLog, stateVars, boundVars
  <2>3. CASE RotateReadKey(w)
    BY <1>p, <1>s, <2>3 DEF RotateReadKey, stateVars, boundVars
  <2>4. CASE RotateAppend(w)
    BY <1>n, <1>p, <2>4 DEF RotateAppend, rotateFrame, boundVars
  <2>5. CASE RotateSwap(w)
    BY <1>n, <1>p, <2>5 DEF RotateSwap, rotateFrame, boundVars
  <2>6. CASE RotateSetSeq(w)
    BY <1>n, <1>p, <2>6 DEF RotateSetSeq, rotateFrame, boundVars
  <2>7. CASE RotateSetFingerprint(w)
    BY <1>l, <2>7 DEF RotateSetFingerprint, rotateFrame, boundVars
  <2> QED
    BY <1>3, <2>1, <2>2, <2>3, <2>4, <2>5, <2>6, <2>7 DEF Rotate
<1>4. CASE \E g \in Graphs, v \in Versions : LoadGraph(g, v)
  BY <1>u, <1>4 DEF LoadGraph, threadVars
<1>5. CASE AgentFetch \/ AgentVerify
  BY <1>u, <1>5 DEF AgentFetch, AgentVerify, stateVars, threadVars, boundVars
<1> QED
  BY <1>1, <1>2, <1>3, <1>4, <1>5 DEF Next

(* A rotation signed with the last key extends a signed log, and leaves    *)
(* every entry that is anchored in it anchored.                            *)
LEMMA TrustGrows ==
    ASSUME NEW trust, IsSeq(trust), Signed(trust), NEW e,
           e.action = "rotate", e.sig = LastKey(trust)
    PROVE  /\ Signed(Append(trust, e)) /\ LastKey(Append(trust, e)) = e.pem
           /\ \A log : Anchored(log, trust) => Anchored(log, Append(trust, e))
<1> DEFINE new == Append(trust, e)
           n == Len(trust)
<1>1. /\ n \in Nat /\ DOMAIN trust = 1 .. n /\ DOMAIN new = 1 .. n + 1 /\ Len(new) = n + 1
      /\ new[n + 1] = e /\ \A k \in 1 .. n : new[k] = trust[k]
  BY Grown
<1>2. n >= 1
  <2>1. PICK S : trust \in Seq(S)
    BY DEF IsSeq
  <2>2. trust # <<>>
    BY DEF Signed
  <2> QED
    BY <2>1, <2>2
<1>3. trust[1].pem = Anchor /\ LastKey(trust) = trust[n].pem
  BY DEF Signed, LastKey
<1> HIDE DEF new, n
<1>4. new # <<>> /\ new[1].pem = Anchor /\ LastKey(new) = e.pem
  <2>1. new # <<>>
    BY <1>1, <1>2
  <2> QED
    BY <1>1, <1>2, <1>3, <2>1 DEF LastKey
<1>5. ASSUME NEW i \in DOMAIN new
      PROVE  /\ new[i].action = IF i = 1 THEN "bootstrap" ELSE "rotate"
             /\ new[i].sig = IF i = 1 THEN Anchor ELSE new[i - 1].pem
  <2>1. CASE i = n + 1
    <3>1. new[i] = e /\ i # 1 /\ i - 1 = n /\ new[i - 1] = trust[n]
      BY <1>1, <1>2, <2>1
    <3> QED
      BY <1>3, <3>1
  <2>2. CASE i # n + 1
    <3>1. i \in DOMAIN trust /\ new[i] = trust[i] /\ (i # 1 => new[i - 1] = trust[i - 1])
      BY <1>1, <1>5, <2>2
    <3>2. /\ trust[i].action = IF i = 1 THEN "bootstrap" ELSE "rotate"
          /\ trust[i].sig = IF i = 1 THEN Anchor ELSE trust[i - 1].pem
      BY <3>1 DEF Signed
    <3> QED
      BY <3>1, <3>2
  <2> QED
    BY <2>1, <2>2
<1>6. ASSUME NEW log, Anchored(log, trust) PROVE Anchored(log, new)
  <2>1. \A k \in DOMAIN trust : k \in DOMAIN new /\ new[k] = trust[k]
    BY <1>1
  <2> QED
    BY <1>6, <2>1 DEF Anchored
<1>7. Signed(new)
  BY <1>4, <1>5 DEF Signed
<1> QED
  BY <1>4, <1>6, <1>7 DEF new

(* verify_trust_log accepts such a log, and its current key is the last. *)
LEMMA SignedVerifies ==
    ASSUME NEW trust, Sound(trust), Signed(trust)
    PROVE  VerifyTrustLog(trust, Anchor) /\ CurrentPem(trust) = LastKey(trust)
<1> DEFINE n == Len(trust)
<1>1. n \in Nat /\ DOMAIN trust = 1 .. n
  BY LenIsNat DEF Sound
<1>2. n >= 1
  <2>1. PICK S : trust \in Seq(S)
    BY DEF Sound, IsSeq
  <2>2. trust # <<>>
    BY DEF Signed
  <2> QED
    BY <2>1, <2>2
<1> HIDE DEF n
<1>3. ASSUME NEW i \in DOMAIN trust, i # 1 PROVE ExpectedSigner(trust, i) = trust[i - 1].pem
  <2> DEFINE kept == {j \in 1 .. i - 1 : trust[j].action # "revoke"}
             last == CHOOSE j \in kept : \A k \in kept : k <= j
  <2>1. i \in 2 .. n
    BY <1>1, <1>2, <1>3
  <2>2. kept = 1 .. i - 1
    <3>1. ASSUME NEW j \in 1 .. i - 1 PROVE trust[j].action # "revoke"
      <4>1. j \in DOMAIN trust
        BY <1>1, <2>1
      <4>2. trust[j].action \in {"bootstrap", "rotate"}
        BY <4>1 DEF Signed
      <4> QED
        BY <4>2
    <3> QED
      BY <3>1
  <2>3. i - 1 \in kept /\ \A k \in kept : k <= i - 1
    BY <1>1, <2>1, <2>2
  <2>4. kept # {} /\ last \in kept /\ i - 1 <= last /\ last <= i - 1
    <3> HIDE DEF kept
    <3> QED
      BY <2>3
  <2>5. last = i - 1
    <3>1. last \in Int /\ i - 1 \in Int
      <4> HIDE DEF kept, last
      <4> QED
        BY <1>1, <2>1, <2>2, <2>4
    <3> HIDE DEF last, kept
    <3> QED
      BY <2>4, <3>1
  <2>6. ExpectedSigner(trust, i) = trust[last].pem
    BY <1>3, <2>4 DEF ExpectedSigner
  <2> QED
    BY <2>5, <2>6
<1>4. ASSUME NEW i \in DOMAIN trust
      PROVE  /\ trust[i].action \in IF i = 1 THEN {"bootstrap"} ELSE {"rotate", "revoke"}
             /\ trust[i].sig = ExpectedSigner(trust, i)
  <2>1. /\ trust[i].action = IF i = 1 THEN "bootstrap" ELSE "rotate"
        /\ trust[i].sig = IF i = 1 THEN Anchor ELSE trust[i - 1].pem
        /\ trust[1].pem = Anchor
    BY DEF Signed
  <2>2. CASE i = 1
    BY <2>1, <2>2 DEF ExpectedSigner
  <2>3. CASE i # 1
    BY <1>3, <2>1, <2>3
  <2> QED
    BY <2>2, <2>3
<1>5. VerifyTrustLog(trust, Anchor)
  BY <1>4 DEF VerifyTrustLog, Signed, Sound
<1>6. CurrentPem(trust) = LastKey(trust)
  <2>1. n \in DOMAIN trust
    BY <1>1, <1>2
  <2>2. trust[n].action \in {"bootstrap", "rotate"} /\ trust # <<>>
    BY <2>1 DEF Signed
  <2> QED
    BY <2>2 DEF CurrentPem, LastKey, n
<1> QED
  BY <1>5, <1>6

(* verify_witness_log_anchored accepts a chain of anchored entries. *)
LEMMA AnchoredVerifies ==
    ASSUME NEW log, Sound(log), log # <<>>, NEW trust, Sound(trust), Signed(trust),
           Anchored(log, trust)
    PROVE  VerifyWitnessLogAnchored(log, trust)
<1>1. Len(trust) \in Nat /\ DOMAIN trust = 1 .. Len(trust)
  BY LenIsNat DEF Sound
<1>2. ASSUME NEW i \in DOMAIN log
      PROVE  log[i].sig = TrustedKeyForSeq(trust, log[i].key_seq, log[i].key_fingerprint)
  <2> DEFINE s == log[i].key_seq
  <2>1. /\ s \in Nat /\ s + 1 \in DOMAIN trust
        /\ trust[s + 1].pem = log[i].key_fingerprint /\ log[i].sig = log[i].key_fingerprint
    BY DEF Anchored
  <2>2. trust[s + 1].action \in {"bootstrap", "rotate"}
    <3> HIDE DEF s
    <3> QED
      BY <2>1 DEF Signed
  <2>3. s < Len(trust)
    <3> HIDE DEF s
    <3> QED
      BY <1>1, <2>1
  <2> QED
    BY <2>1, <2>2, <2>3 DEF TrustedKeyForSeq
<1> QED
  BY <1>2 DEF VerifyWitnessLogAnchored, Sound

(* Where a thread holds nothing of the trust log. *)
LEMMA HoldsNothing ==
    ASSUME NEW p, p \notin Attests, p \notin {"rotate_key", "rotate_append", "swap"},
           NEW l, NEW trust, NEW key
    PROVE  Holds(p, l, trust, key)
<1>1. p \notin Writing /\ p \notin {"read_binding", "append"}
  BY DEF Attests, Writing
<1> QED
  BY <1>1 DEF Holds

LEMMA TrustStep ==
    ASSUME ServiceInv, TrustInv, [Next]_vars, "rotate" \notin overlap'
    PROVE  TrustInv'
<1>i. ChainInv /\ ThreadInv /\ SharedInv
  BY DEF ServiceInv
<1>h. /\ RotationApart /\ Signed(trust_log) /\ InForce /\ Anchored(witness_log, trust_log)
      /\ \A w \in Workers : Holds(pc[w], loc[w], trust_log, authority)
  BY DEF TrustInv
<1>d. DOMAIN pc = Workers /\ DOMAIN loc = Workers /\ \A w \in Workers : DOMAIN loc[w] = Fields
  BY <1>i DEF ThreadInv, Thread
<1>p. /\ Writing = {"read_key", "read_binding", "append"}
      /\ Attests = {"read_log", "read_key", "read_binding", "append"}
      /\ Late = {"swap", "set_seq", "set_fingerprint"}
      /\ Replacing = {"rotate_log", "rotate_key", "rotate_append", "swap", "set_seq",
                      "set_fingerprint"}
  BY DEF Attests, Writing, Late, Replacing, Proposing
<1>t. /\ Len(trust_log) \in Nat /\ DOMAIN trust_log = 1 .. Len(trust_log)
      /\ Len(trust_log) >= 1 /\ Len(trust_log) \in DOMAIN trust_log
  <2>1. Len(trust_log) \in Nat /\ DOMAIN trust_log = 1 .. Len(trust_log)
    BY <1>i, LenIsNat DEF ChainInv, Sound
  <2>2. Len(trust_log) >= 1
    BY DEF ServiceInv, RoomInv
  <2> QED
    BY <2>1, <2>2
<1>u. UNCHANGED <<trust_log, authority, current_key_seq, current_key_fingerprint,
                  witness_log, pc, loc>> => TrustInv'
  BY DEF TrustInv, RotationApart, InForce
<1>m. ASSUME NEW w \in Workers, NEW p, NEW l, pc' = [pc EXCEPT ![w] = p],
             loc' = [loc EXCEPT ![w] = l], pc[w] \notin Late, p \notin Late,
             UNCHANGED <<trust_log, authority, current_key_seq, current_key_fingerprint>>,
             Anchored(witness_log', trust_log), RotationApart',
             Holds(p, l, trust_log, authority)
      PROVE  TrustInv'
  <2>1. ASSUME NEW o \in Workers PROVE Holds(pc'[o], loc'[o], trust_log', authority')
    <3>1. CASE o = w
      <4>1. pc'[o] = p /\ loc'[o] = l /\ trust_log' = trust_log /\ authority' = authority
        BY <1>d, <1>m, <3>1
      <4> QED
        BY <1>m, <4>1
    <3>2. CASE o # w
      <4>1. pc'[o] = pc[o] /\ loc'[o] = loc[o] /\ trust_log' = trust_log /\ authority' = authority
        BY <1>d, <1>m, <3>2
      <4> QED
        BY <1>h, <4>1
    <3> QED
      BY <3>1, <3>2
  <2>2. \A o \in Workers : pc'[o] = pc[o] \/ (o = w /\ pc[o] \notin Late /\ pc'[o] \notin Late)
    BY <1>d, <1>m
  <2>3. InForce'
    BY <1>h, <1>m, <1>p, <2>2 DEF InForce
  <2> QED
    BY <1>h, <1>m, <2>1, <2>3 DEF TrustInv
<1>a. ASSUME NEW w \in Workers, NEW p, pc' = [pc EXCEPT ![w] = p],
             p \in Replacing => pc[w] \in Replacing, p \in Attests => pc[w] \in Attests
      PROVE  RotationApart'
  <2>1. ASSUME NEW o \in Workers
        PROVE  /\ pc'[o] \in Replacing => pc[o] \in Replacing
               /\ pc'[o] \in Attests => pc[o] \in Attests
    BY <1>a, <1>d
  <2> QED
    BY <1>h, <2>1 DEF RotationApart
<1> DEFINE Same == UNCHANGED <<trust_log, authority, current_key_seq, current_key_fingerprint>>
<1>l. ASSUME NEW w \in Workers, NEW from, Leave(w, from), Same, from \notin Late,
             Anchored(witness_log', trust_log)
      PROVE  TrustInv'
  <2>1. /\ pc' = [pc EXCEPT ![w] = "idle"] /\ loc' = [loc EXCEPT ![w] = Blank]
        /\ pc[w] = from
    BY <1>l DEF Leave, Goto
  <2>2. "idle" \notin Late /\ "idle" \notin Replacing /\ "idle" \notin Attests
    BY <1>p
  <2>3. RotationApart'
    BY <1>a, <2>1, <2>2
  <2>4. Holds("idle", Blank, trust_log, authority)
    BY <2>2, HoldsNothing
  <2> QED
    BY <1>l, <1>m, <2>1, <2>2, <2>3, <2>4
<1>n. ASSUME NEW w \in Workers, NEW from, NEW p, Goto(w, from, p),
             UNCHANGED <<loc, witness_log>>, Same, from \notin Late,
             p \notin Attests, p \notin Replacing
      PROVE  TrustInv'
  <2>1. loc' = [loc EXCEPT ![w] = loc[w]] /\ pc' = [pc EXCEPT ![w] = p] /\ pc[w] = from
    BY <1>i, <1>n DEF ThreadInv, Goto
  <2>2. p \notin Late /\ p \notin {"rotate_key", "rotate_append", "swap"}
    BY <1>n, <1>p
  <2>3. RotationApart'
    BY <1>a, <1>n, <2>1
  <2>4. Holds(p, loc[w], trust_log, authority)
    BY <1>n, <2>2, HoldsNothing
  <2> QED
    BY <1>h, <1>m, <1>n, <2>1, <2>2, <2>3, <2>4
<1>s. ASSUME NEW w \in Workers, NEW from, NEW p, NEW l, Goto(w, from, p), Set(w, l),
             UNCHANGED witness_log, Same, from \notin Late, p \notin Late,
             p \in Replacing => from \in Replacing, p \in Attests => from \in Attests,
             Holds(p, l, trust_log, authority)
      PROVE  TrustInv'
  <2>1. pc[w] = from /\ pc' = [pc EXCEPT ![w] = p] /\ loc' = [loc EXCEPT ![w] = l]
    BY <1>s DEF Goto, Set
  <2>2. RotationApart'
    BY <1>a, <1>s, <2>1
  <2> QED
    BY <1>h, <1>m, <1>s, <2>1, <2>2
(* No other thread holds anything while one rotates. *)
<1>o. ASSUME NEW w \in Workers, pc[w] \in Replacing, NEW o \in Workers, o # w
      PROVE  pc[o] \notin Attests /\ pc[o] \notin Replacing
  BY <1>h, <1>o DEF RotationApart
<1>q. ASSUME NEW w \in Workers, pc[w] \in Replacing, NEW p, pc' = [pc EXCEPT ![w] = p],
             p \notin Attests, UNCHANGED loc, Holds(p, loc[w], trust_log', authority')
      PROVE  /\ RotationApart'
             /\ \A o \in Workers : Holds(pc'[o], loc'[o], trust_log', authority')
             /\ \A o \in Workers : o # w => pc'[o] \notin Replacing
  <2>1. pc'[w] = p /\ loc'[w] = loc[w]
    BY <1>d, <1>q
  <2>2. ASSUME NEW o \in Workers, o # w
        PROVE  pc'[o] = pc[o] /\ pc[o] \notin Attests /\ pc[o] \notin Replacing
    BY <1>d, <1>o, <1>q, <2>2
  <2>3. ASSUME NEW o \in Workers PROVE Holds(pc'[o], loc'[o], trust_log', authority')
    <3>1. CASE o = w
      BY <1>q, <2>1, <3>1
    <3>2. CASE o # w
      <4>1. /\ pc'[o] \notin Attests /\ pc'[o] \notin {"rotate_key", "rotate_append", "swap"}
        BY <1>p, <2>2, <3>2
      <4> QED
        BY <4>1, HoldsNothing
    <3> QED
      BY <3>1, <3>2
  <2>4. RotationApart'
    BY <1>q, <2>1, <2>2 DEF RotationApart
  <2> QED
    BY <2>2, <2>3, <2>4
<1>1. CASE UNCHANGED vars
  BY <1>1, <1>u DEF vars, stateVars, threadVars
<1>2. ASSUME NEW w \in Workers, Query(w) PROVE TrustInv'
  <2>1. ASSUME NEW r \in Requests, Arrive(w, r) PROVE TrustInv'
    <3> DEFINE l == [Blank EXCEPT !.id = arrivals + 1]
    <3>1. /\ pc[w] = "idle" /\ pc' = [pc EXCEPT ![w] = "gate"]
          /\ loc' = [loc EXCEPT ![w] = l] /\ Same /\ UNCHANGED witness_log
      BY <2>1 DEF Arrive, Goto, stateVars
    <3>2. RotationApart'
      BY <1>a, <1>p, <3>1
    <3>3. Holds("gate", l, trust_log, authority)
      BY <1>p, HoldsNothing
    <3> HIDE DEF l
    <3> QED
      BY <1>h, <1>m, <1>p, <3>1, <3>2, <3>3
  <2>2. CASE GateDormant(w)
    BY <1>n, <1>p, <2>2 DEF GateDormant, stateVars
  <2>3. ASSUME NEW now \in Times, GateRefuse(w, now) PROVE TrustInv'
    BY <1>h, <1>l, <1>p, <2>3 DEF GateRefuse, stateVars
  <2>4. ASSUME NEW now \in Times, GateVerify(w, now) PROVE TrustInv'
    <3>1. Holds("burn", [loc[w] EXCEPT !.at = now], trust_log, authority)
      BY <1>p, HoldsNothing
    <3> QED
      BY <1>p, <1>s, <2>4, <3>1 DEF GateVerify, stateVars
  <2>5. CASE Burn(w)
    BY <1>n, <1>p, <2>5 DEF Burn
  <2>6. CASE RunRefuse(w)
    BY <1>h, <1>l, <1>p, <2>6 DEF RunRefuse, stateVars
  <2>7. CASE RunServe(w)
    BY <1>h, <1>l, <1>p, <2>7 DEF RunServe, Serve, stateVars
  <2>8. CASE RunAttested(w)
    <3>1. Holds("attest", [loc[w] EXCEPT !.version = graphs[req[w].graph]], trust_log, authority)
      BY <1>p, HoldsNothing
    <3> QED
      BY <1>p, <1>s, <2>8, <3>1 DEF RunAttested, stateVars
  <2>9. CASE Attest(w)
    <3> DEFINE l == [loc[w] EXCEPT !.att = authority]
    <3>1. /\ pc[w] = "attest" /\ pc' = [pc EXCEPT ![w] = "read_log"]
          /\ loc' = [loc EXCEPT ![w] = l] /\ Same /\ UNCHANGED witness_log
      BY <2>9 DEF Attest, Goto, Set, stateVars
    <3>2. \A o \in Workers : o # w => pc[o] \notin Replacing
      BY <1>p, <2>9 DEF Attest, Note, Others, Rotating
    <3>3. \A o \in Workers : pc'[o] \notin Replacing
      BY <1>d, <1>p, <3>1, <3>2
    <3>4. RotationApart'
      BY <3>3 DEF RotationApart
    <3>5. l.att = authority
      BY <1>d DEF Fields
    <3>6. Holds("read_log", l, trust_log, authority)
      <4> HIDE DEF l
      <4> QED
        BY <1>p, <3>5 DEF Holds
    <3> HIDE DEF l
    <3> QED
      BY <1>h, <1>m, <1>p, <3>1, <3>4, <3>6
  <2>10. CASE ReadLog(w)
    <3> DEFINE l == [loc[w] EXCEPT !.log = witness_log]
    <3>1. /\ Goto(w, "read_log", "read_key") /\ Set(w, l) /\ Same /\ UNCHANGED witness_log
          /\ pc[w] = "read_log"
      BY <2>10 DEF ReadLog, Goto, stateVars
    <3>2. l.att = loc[w].att /\ l.log = witness_log
      BY <1>d DEF Fields
    <3>3. Holds("read_key", l, trust_log, authority)
      <4> HIDE DEF l
      <4> QED
        BY <1>h, <1>p, <3>1, <3>2 DEF Holds
    <3> HIDE DEF l
    <3> QED
      BY <1>p, <1>s, <3>1, <3>3
  <2>11. CASE ReadKey(w)
    <3> DEFINE l == [loc[w] EXCEPT !.sk = authority]
    <3>1. /\ Goto(w, "read_key", "read_binding") /\ Set(w, l) /\ Same /\ UNCHANGED witness_log
          /\ pc[w] = "read_key"
      BY <2>11 DEF ReadKey, Goto, stateVars
    <3>2. l.att = loc[w].att /\ l.log = loc[w].log /\ l.sk = authority
      BY <1>d DEF Fields
    <3>3. Holds("read_binding", l, trust_log, authority)
      <4> HIDE DEF l
      <4> QED
        BY <1>h, <1>p, <3>1, <3>2 DEF Holds
    <3> HIDE DEF l
    <3> QED
      BY <1>p, <1>s, <3>1, <3>3
  <2>12. CASE ReadBinding(w)
    <3> DEFINE l == [loc[w] EXCEPT !.key_seq = current_key_seq,
                                   !.key_fingerprint = current_key_fingerprint]
    <3>1. /\ Goto(w, "read_binding", "append") /\ Set(w, l) /\ Same /\ UNCHANGED witness_log
          /\ pc[w] = "read_binding"
      BY <2>12 DEF ReadBinding, Goto, stateVars
    <3>2. /\ l.att = loc[w].att /\ l.log = loc[w].log /\ l.sk = loc[w].sk
          /\ l.key_seq = current_key_seq /\ l.key_fingerprint = current_key_fingerprint
      BY <1>d DEF Fields
    <3>3. \A o \in Workers : pc[o] \notin Replacing
      BY <1>h, <1>p, <3>1 DEF RotationApart
    <3>4. /\ current_key_seq = Len(trust_log) - 1
          /\ current_key_fingerprint = LastKey(trust_log)
      BY <1>h, <1>p, <3>3 DEF InForce
    <3>5. Holds("append", l, trust_log, authority)
      <4> HIDE DEF l
      <4> QED
        BY <1>h, <1>p, <3>1, <3>2, <3>4 DEF Holds
    <3> HIDE DEF l
    <3> QED
      BY <1>p, <1>s, <3>1, <3>5
  <2>13. CASE AppendWitness(w)
    <3> DEFINE l == loc[w]
               e == WitnessEntry(l.log, l.id, l.sk, l.key_seq, l.key_fingerprint)
    <3>1. /\ Leave(w, "append") /\ pc[w] = "append" /\ Same
          /\ witness_log' = Append(l.log, e)
      BY <2>13 DEF AppendWitness, AppendEntry, Serve, Leave, Goto, witnessFrame
    <3>2. /\ e.key_seq = l.key_seq /\ e.key_fingerprint = l.key_fingerprint /\ e.sig = l.sk
      BY DEF WitnessEntry
    <3>3. /\ l.sk = authority /\ l.key_seq = Len(trust_log) - 1
          /\ l.key_fingerprint = LastKey(trust_log) /\ Anchored(l.log, trust_log)
      BY <1>h, <1>p, <3>1 DEF Holds
    <3>4. \A o \in Workers : pc[o] \notin Replacing
      BY <1>h, <1>p, <3>1 DEF RotationApart
    <3>5. authority = LastKey(trust_log)
      BY <1>h, <1>p, <3>4 DEF InForce
    <3>6. IsSeq(l.log)
      BY <1>i DEF ChainInv, Local, Sound
    <3> HIDE DEF l, e
    <3>7. /\ e.key_seq \in Nat /\ e.key_seq + 1 \in DOMAIN trust_log
          /\ trust_log[e.key_seq + 1].pem = e.key_fingerprint /\ e.sig = e.key_fingerprint
      <4>1. e.key_seq + 1 = Len(trust_log) /\ e.key_seq \in Nat
        BY <1>t, <3>2, <3>3
      <4> QED
        BY <1>t, <3>2, <3>3, <3>5, <4>1 DEF LastKey
    <3>8. /\ Len(l.log) \in Nat /\ DOMAIN l.log = 1 .. Len(l.log)
          /\ DOMAIN witness_log' = 1 .. Len(l.log) + 1 /\ witness_log'[Len(l.log) + 1] = e
          /\ \A k \in 1 .. Len(l.log) : witness_log'[k] = l.log[k]
      BY <3>1, <3>6, Grown
    <3>9. \A i \in DOMAIN witness_log' :
             witness_log'[i] = e \/ (i \in DOMAIN l.log /\ witness_log'[i] = l.log[i])
      BY <3>8
    <3>10. Anchored(witness_log', trust_log)
      BY <3>3, <3>7, <3>9 DEF Anchored
    <3> QED
      BY <1>l, <1>p, <3>1, <3>10
  <2> QED
    BY <1>2, <2>1, <2>2, <2>3, <2>4, <2>5, <2>6, <2>7, <2>8, <2>9, <2>10,
       <2>11, <2>12, <2>13 DEF Query
<1>3. ASSUME NEW w \in Workers, Rotate(w) PROVE TrustInv'
  <2>1. CASE RotateBegin(w)
    <3> DEFINE l == [Blank EXCEPT !.new = keys]
    <3>1. /\ pc[w] = "idle" /\ pc' = [pc EXCEPT ![w] = "rotate_log"]
          /\ loc' = [loc EXCEPT ![w] = l] /\ Same /\ UNCHANGED witness_log
      BY <2>1 DEF RotateBegin, Goto, Set, stateVars
    <3>2. \A o \in Workers : o # w => pc[o] \notin Replacing /\ pc[o] \notin Attests
      BY <1>p, <2>1 DEF RotateBegin, Note, Others, Rotating, Attesting, Appending
    <3>3. /\ \A o \in Workers : pc'[o] \notin Attests
          /\ \A o \in Workers : pc'[o] \in Replacing => o = w
      BY <1>d, <1>p, <3>1, <3>2
    <3>4. RotationApart'
      BY <3>3 DEF RotationApart
    <3>5. Holds("rotate_log", l, trust_log, authority)
      BY <1>p, HoldsNothing
    <3> HIDE DEF l
    <3> QED
      BY <1>h, <1>m, <1>p, <3>1, <3>4, <3>5
  <2>2. CASE RotateReadLog(w)
    <3> DEFINE l == [loc[w] EXCEPT !.log = trust_log]
    <3>1. Goto(w, "rotate_log", "rotate_key") /\ Set(w, l) /\ Same /\ UNCHANGED witness_log
      BY <2>2 DEF RotateReadLog, stateVars
    <3>2. l.log = trust_log
      BY <1>d DEF Fields
    <3> HIDE DEF l
    <3>3. Holds("rotate_key", l, trust_log, authority)
      BY <1>p, <3>2 DEF Holds
    <3> QED
      BY <1>p, <1>s, <3>1, <3>3
  <2>3. CASE RotateReadKey(w)
    <3> DEFINE l == [loc[w] EXCEPT !.sk = authority]
    <3>1. /\ Goto(w, "rotate_key", "rotate_append") /\ Set(w, l) /\ Same
          /\ UNCHANGED witness_log /\ pc[w] = "rotate_key"
      BY <2>3 DEF RotateReadKey, Goto, stateVars
    <3>2. l.log = loc[w].log /\ l.sk = authority
      BY <1>d DEF Fields
    <3> HIDE DEF l
    <3>3. Holds("rotate_append", l, trust_log, authority)
      BY <1>h, <1>p, <3>1, <3>2 DEF Holds
    <3> QED
      BY <1>p, <1>s, <3>1, <3>3
  <2>4. CASE RotateAppend(w)
    <3> DEFINE l == loc[w]
               e == [seq |-> Len(l.log), action |-> "rotate", pem |-> l.new,
                     prev |-> PrevHash(l.log), sig |-> l.sk]
    <3>1. /\ pc[w] = "rotate_append" /\ pc' = [pc EXCEPT ![w] = "swap"]
          /\ trust_log' = Append(l.log, e)
          /\ UNCHANGED <<authority, witness_log, current_key_seq, current_key_fingerprint, loc>>
      BY <2>4 DEF RotateAppend, AppendRotate, Goto
    <3>2. e.action = "rotate" /\ e.pem = l.new /\ e.sig = l.sk
      OBVIOUS
    <3>3. l.log = trust_log /\ l.sk = authority
      BY <1>h, <3>1 DEF Holds
    <3>4. \A o \in Workers : pc[o] # "swap"
      BY <1>o, <1>p, <3>1
    <3>5. authority = LastKey(trust_log)
      BY <1>h, <3>4 DEF InForce
    <3>6. IsSeq(trust_log)
      BY <1>i DEF ChainInv, Sound
    <3> HIDE DEF l, e
    <3>7. /\ Signed(trust_log') /\ LastKey(trust_log') = l.new
          /\ Anchored(witness_log, trust_log) => Anchored(witness_log, trust_log')
      <4>1. Signed(Append(trust_log, e)) /\ LastKey(Append(trust_log, e)) = e.pem
            /\ \A log : Anchored(log, trust_log) => Anchored(log, Append(trust_log, e))
        BY <1>h, <3>2, <3>3, <3>5, <3>6, TrustGrows
      <4> QED
        BY <3>1, <3>2, <3>3, <4>1
    <3>8. Holds("swap", loc[w], trust_log', authority')
      BY <1>p, <3>7 DEF Holds, l
    <3>9. RotationApart' /\ \A o \in Workers : Holds(pc'[o], loc'[o], trust_log', authority')
      BY <1>p, <1>q, <3>1, <3>8
    <3>10. InForce'
      <4>1. pc'[w] = "swap"
        BY <1>d, <3>1
      <4> QED
        BY <1>p, <4>1 DEF InForce
    <3> QED
      BY <1>h, <3>1, <3>7, <3>9, <3>10 DEF TrustInv
  <2>5. CASE RotateSwap(w)
    <3>1. /\ pc[w] = "swap" /\ pc' = [pc EXCEPT ![w] = "set_seq"]
          /\ authority' = loc[w].new
          /\ UNCHANGED <<trust_log, witness_log, current_key_seq, current_key_fingerprint, loc>>
      BY <2>5 DEF RotateSwap, Goto
    <3>2. loc[w].new = LastKey(trust_log)
      BY <1>h, <3>1 DEF Holds
    <3>3. Holds("set_seq", loc[w], trust_log', authority')
      BY <1>p, HoldsNothing
    <3>4. RotationApart' /\ \A o \in Workers : Holds(pc'[o], loc'[o], trust_log', authority')
      BY <1>p, <1>q, <3>1, <3>3
    <3>5. InForce'
      <4>1. pc'[w] = "set_seq"
        BY <1>d, <3>1
      <4> QED
        BY <1>p, <3>1, <3>2, <4>1 DEF InForce
    <3> QED
      BY <1>h, <3>1, <3>4, <3>5 DEF TrustInv
  <2>6. CASE RotateSetSeq(w)
    <3>1. /\ pc[w] = "set_seq" /\ pc' = [pc EXCEPT ![w] = "set_fingerprint"]
          /\ current_key_seq' = trust_log[Len(trust_log)].seq
          /\ UNCHANGED <<trust_log, witness_log, authority, current_key_fingerprint, loc>>
      BY <2>6 DEF RotateSetSeq, Goto
    <3>2. trust_log[Len(trust_log)].seq = Len(trust_log) - 1
      BY <1>i, <1>t DEF ChainInv, Sound, Chained
    <3>3. Holds("set_fingerprint", loc[w], trust_log', authority')
      BY <1>p, HoldsNothing
    <3>4. RotationApart' /\ \A o \in Workers : Holds(pc'[o], loc'[o], trust_log', authority')
      BY <1>p, <1>q, <3>1, <3>3
    <3>5. InForce'
      <4>1. pc'[w] = "set_fingerprint"
        BY <1>d, <3>1
      <4>2. \A o \in Workers : pc[o] # "swap"
        BY <1>o, <1>p, <3>1
      <4>3. authority = LastKey(trust_log)
        BY <1>h, <4>2 DEF InForce
      <4> QED
        BY <1>p, <3>1, <3>2, <4>1, <4>3 DEF InForce
    <3> QED
      BY <1>h, <3>1, <3>4, <3>5 DEF TrustInv
  <2>7. CASE RotateSetFingerprint(w)
    <3>1. /\ pc[w] = "set_fingerprint" /\ pc' = [pc EXCEPT ![w] = "idle"]
          /\ loc' = [loc EXCEPT ![w] = Blank] /\ current_key_fingerprint' = authority
          /\ UNCHANGED <<trust_log, witness_log, authority, current_key_seq>>
      BY <2>7 DEF RotateSetFingerprint, Leave, Goto
    <3>2. ASSUME NEW o \in Workers
          PROVE  pc'[o] \notin Attests /\ pc'[o] \notin Replacing
      BY <1>d, <1>o, <1>p, <3>1
    <3>3. ASSUME NEW o \in Workers PROVE Holds(pc'[o], loc'[o], trust_log', authority')
      <4>1. pc'[o] \notin {"rotate_key", "rotate_append", "swap"}
        BY <1>p, <3>2
      <4> QED
        BY <3>2, <4>1, HoldsNothing
    <3>4. \A o \in Workers : pc[o] \notin {"swap", "set_seq"}
      BY <1>o, <1>p, <3>1
    <3>5. authority = LastKey(trust_log) /\ current_key_seq = Len(trust_log) - 1
      BY <1>h, <3>4 DEF InForce
    <3>6. InForce'
      BY <3>1, <3>5 DEF InForce
    <3>7. RotationApart'
      BY <3>2 DEF RotationApart
    <3> QED
      BY <1>h, <3>1, <3>3, <3>6, <3>7 DEF TrustInv
  <2> QED
    BY <1>3, <2>1, <2>2, <2>3, <2>4, <2>5, <2>6, <2>7 DEF Rotate
<1>4. CASE \E g \in Graphs, v \in Versions : LoadGraph(g, v)
  BY <1>u, <1>4 DEF LoadGraph, threadVars
<1>5. CASE AgentFetch \/ AgentVerify
  BY <1>u, <1>5 DEF AgentFetch, AgentVerify, stateVars, threadVars
<1> QED
  BY <1>1, <1>2, <1>3, <1>4, <1>5 DEF Next

(* An entry is signed with the key that attested its answer. *)
LEMMA AgreeStep ==
    ASSUME ServiceInv, NumberInv, TrustInv, AgreeInv, [Next]_vars
    PROVE  AgreeInv'
<1>i. ChainInv /\ ThreadInv /\ SharedInv
  BY DEF ServiceInv
<1>d. DOMAIN pc = Workers /\ DOMAIN loc = Workers /\ \A w \in Workers : DOMAIN loc[w] = Fields
  BY <1>i DEF ThreadInv, Thread
<1>a. IsSeq(answers)
  BY <1>i DEF SharedInv, IsSeq
<1>p. /\ Writing = {"read_key", "read_binding", "append"} /\ Writing \subseteq Serving
      /\ "run" \in Serving /\ "append" \in Serving
  BY DEF Writing, Serving
<1>h. Agrees(witness_log, answers)
      /\ \A w \in Workers : pc[w] \in Writing => Agrees(loc[w].log, answers)
  BY DEF AgreeInv
<1>r. Recorded(witness_log, answers)
      /\ \A w \in Workers : pc[w] \in Writing => Recorded(loc[w].log, answers)
  BY DEF NumberInv
<1>u. UNCHANGED <<pc, loc, answers, witness_log>> => AgreeInv'
  BY DEF AgreeInv
<1>m. ASSUME NEW w \in Workers, NEW p, NEW l, pc' = [pc EXCEPT ![w] = p],
             loc' = [loc EXCEPT ![w] = l], UNCHANGED <<answers, witness_log>>,
             p \in Writing => Agrees(l.log, answers)
      PROVE  AgreeInv'
  BY <1>d, <1>h, <1>m DEF AgreeInv
<1>l. ASSUME NEW w \in Workers, NEW from, Leave(w, from), UNCHANGED <<answers, witness_log>>
      PROVE  AgreeInv'
  BY <1>l, <1>m, <1>p DEF Leave, Goto
<1>n. ASSUME NEW w \in Workers, NEW from, NEW p, Goto(w, from, p), p \notin Writing,
             UNCHANGED <<loc, answers, witness_log>>
      PROVE  AgreeInv'
  BY <1>d, <1>h, <1>n DEF AgreeInv, Goto
<1>s. ASSUME NEW w \in Workers, NEW from, NEW p, NEW l, Goto(w, from, p), Set(w, l),
             UNCHANGED <<answers, witness_log>>, p \in Writing => Agrees(l.log, answers)
      PROVE  AgreeInv'
  BY <1>m, <1>s DEF Goto, Set
(* The number of a request under way is in no log yet. *)
<1>f. ASSUME NEW w \in Workers, pc[w] \in Serving, NEW log, Recorded(log, answers)
      PROVE  \A i \in DOMAIN log : log[i].id # loc[w].id
  BY <1>f DEF Recorded, NumberInv
<1>v. ASSUME NEW w \in Workers, NEW from \in Serving, NEW v, Serve(w, from, v),
             Agrees(witness_log', answers')
      PROVE  AgreeInv'
  <2> DEFINE a == [id |-> loc[w].id, at |-> loc[w].at, req |-> req[w], version |-> v,
                   key |-> loc[w].att]
  <2>1. /\ pc[w] \in Serving /\ pc' = [pc EXCEPT ![w] = "idle"]
        /\ loc' = [loc EXCEPT ![w] = Blank] /\ answers' = Append(answers, a)
    BY <1>v DEF Serve, Leave, Goto
  <2>2. a.id = loc[w].id
    OBVIOUS
  <2> HIDE DEF a
  <2>3. ASSUME NEW o \in Workers, pc'[o] \in Writing PROVE Agrees(loc'[o].log, answers')
    <3>1. pc[o] \in Writing /\ loc'[o] = loc[o]
      BY <1>d, <1>p, <2>1, <2>3
    <3>2. Agrees(loc[o].log, answers) /\ \A i \in DOMAIN loc[o].log : loc[o].log[i].id # a.id
      BY <1>f, <1>h, <1>r, <2>1, <2>2, <3>1
    <3> QED
      BY <1>a, <2>1, <3>1, <3>2, AnswersGrow
  <2> QED
    BY <1>v, <2>3 DEF AgreeInv
<1>1. CASE UNCHANGED vars
  BY <1>1, <1>u DEF vars, stateVars, threadVars
<1>2. ASSUME NEW w \in Workers, Query(w) PROVE AgreeInv'
  <2>1. ASSUME NEW r \in Requests, Arrive(w, r) PROVE AgreeInv'
    BY <1>m, <1>p, <2>1 DEF Arrive, Goto, stateVars
  <2>2. CASE GateDormant(w)
    BY <1>n, <1>p, <2>2 DEF GateDormant, stateVars
  <2>3. ASSUME NEW now \in Times, GateRefuse(w, now) PROVE AgreeInv'
    BY <1>l, <2>3 DEF GateRefuse, stateVars
  <2>4. ASSUME NEW now \in Times, GateVerify(w, now) PROVE AgreeInv'
    BY <1>p, <1>s, <2>4 DEF GateVerify, stateVars
  <2>5. CASE Burn(w)
    BY <1>n, <1>p, <2>5 DEF Burn
  <2>6. CASE RunRefuse(w)
    BY <1>l, <2>6 DEF RunRefuse, stateVars
  <2>7. CASE RunServe(w)
    <3> DEFINE a == [id |-> loc[w].id, at |-> loc[w].at, req |-> req[w],
                     version |-> graphs[req[w].graph], key |-> loc[w].att]
    <3>1. /\ Serve(w, "run", graphs[req[w].graph]) /\ UNCHANGED witness_log
          /\ pc[w] = "run" /\ answers' = Append(answers, a)
      BY <2>7 DEF RunServe, Serve, Leave, Goto, stateVars
    <3>2. \A i \in DOMAIN witness_log : witness_log[i].id # a.id
      BY <1>f, <1>p, <1>r, <3>1
    <3> HIDE DEF a
    <3>3. Agrees(witness_log', answers')
      BY <1>a, <1>h, <3>1, <3>2, AnswersGrow
    <3> QED
      BY <1>p, <1>v, <3>1, <3>3
  <2>8. CASE RunAttested(w)
    BY <1>p, <1>s, <2>8 DEF RunAttested, stateVars
  <2>9. CASE Attest(w)
    BY <1>p, <1>s, <2>9 DEF Attest, stateVars
  <2>10. CASE ReadLog(w)
    <3>1. [loc[w] EXCEPT !.log = witness_log].log = witness_log
      BY <1>d DEF Fields
    <3> QED
      BY <1>h, <1>s, <2>10, <3>1 DEF ReadLog, stateVars
  <2>11. CASE ReadKey(w)
    <3>1. [loc[w] EXCEPT !.sk = authority].log = loc[w].log
      BY <1>d DEF Fields
    <3> QED
      BY <1>h, <1>p, <1>s, <2>11, <3>1 DEF ReadKey, Goto, stateVars
  <2>12. CASE ReadBinding(w)
    <3> DEFINE l == [loc[w] EXCEPT !.key_seq = current_key_seq,
                                   !.key_fingerprint = current_key_fingerprint]
    <3>1. l.log = loc[w].log
      BY <1>d DEF Fields
    <3>2. /\ Goto(w, "read_binding", "append") /\ Set(w, l) /\ pc[w] = "read_binding"
          /\ UNCHANGED <<answers, witness_log>>
      BY <2>12 DEF ReadBinding, Goto, stateVars
    <3> HIDE DEF l
    <3> QED
      BY <1>h, <1>p, <1>s, <3>1, <3>2
  <2>13. CASE AppendWitness(w)
    <3> DEFINE l == loc[w]
               e == WitnessEntry(l.log, l.id, l.sk, l.key_seq, l.key_fingerprint)
               a == [id |-> l.id, at |-> l.at, req |-> req[w], version |-> l.version,
                     key |-> l.att]
    <3>1. /\ Serve(w, "append", l.version) /\ pc[w] = "append"
          /\ witness_log' = Append(l.log, e) /\ answers' = Append(answers, a)
      BY <2>13 DEF AppendWitness, AppendEntry, Serve, Leave, Goto
    <3>2. a.id = e.id /\ a.id = l.id /\ a.key = l.att /\ e.sig = l.sk
      BY DEF WitnessEntry
    <3>3. l.att = authority /\ l.sk = authority
      BY <1>p, <3>1 DEF TrustInv, Holds, Attests
    <3>4. Agrees(l.log, answers) /\ Recorded(l.log, answers) /\ IsSeq(l.log)
      BY <1>h, <1>i, <1>p, <1>r, <3>1 DEF ChainInv, Local, Sound
    <3>5. \A j \in DOMAIN answers : answers[j].id # l.id
      BY <1>p, <3>1 DEF NumberInv
    <3>6. Agrees(witness_log', answers')
      <4> HIDE DEF a, e, l
      <4> QED
        BY <1>a, <3>1, <3>2, <3>3, <3>4, <3>5, EntryGrows
    <3> QED
      BY <1>p, <1>v, <3>1, <3>6
  <2> QED
    BY <1>2, <2>1, <2>2, <2>3, <2>4, <2>5, <2>6, <2>7, <2>8, <2>9, <2>10,
       <2>11, <2>12, <2>13 DEF Query
<1>3. ASSUME NEW w \in Workers, Rotate(w) PROVE AgreeInv'
  <2>1. CASE RotateBegin(w)
    BY <1>p, <1>s, <2>1 DEF RotateBegin, stateVars
  <2>2. CASE RotateReadLog(w)
    BY <1>p, <1>s, <2>2 DEF RotateReadLog, stateVars
  <2>3. CASE RotateReadKey(w)
    BY <1>p, <1>s, <2>3 DEF RotateReadKey, stateVars
  <2>4. CASE RotateAppend(w)
    BY <1>n, <1>p, <2>4 DEF RotateAppend, rotateFrame
  <2>5. CASE RotateSwap(w)
    BY <1>n, <1>p, <2>5 DEF RotateSwap, rotateFrame
  <2>6. CASE RotateSetSeq(w)
    BY <1>n, <1>p, <2>6 DEF RotateSetSeq, rotateFrame
  <2>7. CASE RotateSetFingerprint(w)
    BY <1>l, <2>7 DEF RotateSetFingerprint, rotateFrame
  <2> QED
    BY <1>3, <2>1, <2>2, <2>3, <2>4, <2>5, <2>6, <2>7 DEF Rotate
<1>4. CASE \E g \in Graphs, v \in Versions : LoadGraph(g, v)
  BY <1>u, <1>4 DEF LoadGraph, threadVars
<1>5. CASE AgentFetch \/ AgentVerify
  BY <1>u, <1>5 DEF AgentFetch, AgentVerify, stateVars, threadVars
<1> QED
  BY <1>1, <1>2, <1>3, <1>4, <1>5 DEF Next

(* The agent's check, when nothing rotates. *)
LEMMA CalmStep ==
    ASSUME ServiceInv, AnchorInv, [Next]_vars
    PROVE  CalmInv'
<1>i. ChainInv /\ ThreadInv /\ SharedInv
  BY DEF ServiceInv
<1>c. CalmInv /\ ("rotate" \notin overlap => TrustInv)
  BY DEF AnchorInv
<1>d. DOMAIN pc = Workers
  BY <1>i DEF ThreadInv
<1>p. Replacing = {"rotate_log", "rotate_key", "rotate_append", "swap", "set_seq",
                   "set_fingerprint"}
  BY DEF Replacing, Proposing
<1>k. UNCHANGED <<agent, authority, overlap, pc>> => CalmInv'
  BY <1>c DEF CalmInv
<1>m. ASSUME NEW w \in Workers, NEW p, pc' = [pc EXCEPT ![w] = p], p \notin Replacing,
             UNCHANGED <<agent, authority>>,
             (\A o \in Workers : pc[o] \notin Replacing) /\ "rotate" \notin overlap =>
                 "rotate" \notin overlap'
      PROVE  CalmInv'
  BY <1>c, <1>d, <1>m DEF CalmInv
(* A step of a rotation: the agent was not calm. *)
<1>r. ASSUME NEW w \in Workers, pc[w] \in Replacing, UNCHANGED agent PROVE CalmInv'
  BY <1>c, <1>r DEF CalmInv
<1>g. ASSUME NEW w \in Workers, NEW from, NEW p, Goto(w, from, p), p \notin Replacing,
             UNCHANGED <<agent, authority, overlap>>
      PROVE  CalmInv'
  BY <1>g, <1>m DEF Goto
<1>l. ASSUME NEW w \in Workers, NEW from, Leave(w, from), UNCHANGED <<agent, authority, overlap>>
      PROVE  CalmInv'
  BY <1>g, <1>l, <1>p DEF Leave
<1>1. CASE UNCHANGED vars
  BY <1>1, <1>k DEF vars, stateVars, threadVars
<1>2. ASSUME NEW w \in Workers, Query(w) PROVE CalmInv'
  <2>1. ASSUME NEW r \in Requests, Arrive(w, r) PROVE CalmInv'
    BY <1>g, <1>p, <2>1 DEF Arrive, stateVars
  <2>2. CASE GateDormant(w)
    BY <1>g, <1>p, <2>2 DEF GateDormant, stateVars
  <2>3. ASSUME NEW now \in Times, GateRefuse(w, now) PROVE CalmInv'
    BY <1>l, <2>3 DEF GateRefuse, stateVars
  <2>4. ASSUME NEW now \in Times, GateVerify(w, now) PROVE CalmInv'
    <3>1. "rotate" \notin overlap => "rotate" \notin overlap'
      BY <2>4 DEF GateVerify, Note
    <3>2. pc' = [pc EXCEPT ![w] = "burn"] /\ UNCHANGED <<agent, authority>>
      BY <2>4 DEF GateVerify, Goto, stateVars
    <3>3. "burn" \notin Replacing
      BY <1>p
    <3> QED
      BY <1>m, <3>1, <3>2, <3>3
  <2>5. CASE Burn(w)
    BY <1>g, <1>p, <2>5 DEF Burn
  <2>6. CASE RunRefuse(w)
    BY <1>l, <2>6 DEF RunRefuse, stateVars
  <2>7. CASE RunServe(w)
    BY <1>l, <2>7 DEF RunServe, Serve, stateVars
  <2>8. CASE RunAttested(w)
    BY <1>g, <1>p, <2>8 DEF RunAttested, stateVars
  <2>9. CASE Attest(w)
    <3>1. (\A o \in Workers : pc[o] \notin Replacing) /\ "rotate" \notin overlap =>
              "rotate" \notin overlap'
      BY <1>p, <2>9 DEF Attest, Note, Others, Rotating
    <3> QED
      BY <1>m, <1>p, <2>9, <3>1 DEF Attest, Goto, stateVars
  <2>10. CASE ReadLog(w)
    <3>1. "rotate" \notin overlap => "rotate" \notin overlap'
      BY <2>10 DEF ReadLog, Note
    <3> QED
      BY <1>m, <1>p, <2>10, <3>1 DEF ReadLog, Goto, stateVars
  <2>11. CASE ReadKey(w)
    BY <1>g, <1>p, <2>11 DEF ReadKey, stateVars
  <2>12. CASE ReadBinding(w)
    BY <1>g, <1>p, <2>12 DEF ReadBinding, stateVars
  <2>13. CASE AppendWitness(w)
    BY <1>l, <2>13 DEF AppendWitness, Serve, witnessFrame
  <2> QED
    BY <1>2, <2>1, <2>2, <2>3, <2>4, <2>5, <2>6, <2>7, <2>8, <2>9, <2>10,
       <2>11, <2>12, <2>13 DEF Query
<1>3. ASSUME NEW w \in Workers, Rotate(w) PROVE CalmInv'
  <2>1. CASE RotateBegin(w)
    <3>1. agent' = [agent EXCEPT !.calm = FALSE]
      BY <2>1 DEF RotateBegin
    <3> QED
      BY <1>c, <3>1 DEF CalmInv
  <2>2. CASE RotateReadLog(w)
    BY <1>p, <1>r, <2>2 DEF RotateReadLog, Goto
  <2>3. CASE RotateReadKey(w)
    BY <1>p, <1>r, <2>3 DEF RotateReadKey, Goto
  <2>4. CASE RotateAppend(w)
    BY <1>p, <1>r, <2>4 DEF RotateAppend, Goto
  <2>5. CASE RotateSwap(w)
    BY <1>p, <1>r, <2>5 DEF RotateSwap, Goto
  <2>6. CASE RotateSetSeq(w)
    BY <1>p, <1>r, <2>6 DEF RotateSetSeq, Goto
  <2>7. CASE RotateSetFingerprint(w)
    BY <1>p, <1>r, <2>7 DEF RotateSetFingerprint, Leave, Goto
  <2> QED
    BY <1>3, <2>1, <2>2, <2>3, <2>4, <2>5, <2>6, <2>7 DEF Rotate
<1>4. CASE \E g \in Graphs, v \in Versions : LoadGraph(g, v)
  BY <1>k, <1>4 DEF LoadGraph, threadVars
<1>5. CASE AgentFetch
  <2> DEFINE calm == "rotate" \notin overlap /\ \A w \in Workers : ~Rotating(w)
  <2>1. /\ agent' = [agent EXCEPT !.pc = "log", !.key = authority, !.verdict = FALSE,
                                  !.calm = calm]
        /\ UNCHANGED <<authority, overlap, pc>>
    BY <1>5 DEF AgentFetch, stateVars, threadVars
  <2>2. calm => "rotate" \notin overlap /\ \A w \in Workers : pc[w] \notin Replacing
    BY <1>p DEF Rotating
  <2> HIDE DEF calm
  <2>3. /\ DOMAIN agent' = DOMAIN agent /\ agent'.pc = "log" /\ agent'.key = authority
        /\ agent'.calm = calm
    BY <1>c, <2>1 DEF CalmInv
  <2> QED
    BY <1>c, <2>1, <2>2, <2>3 DEF CalmInv
<1>6. CASE AgentVerify
  <2> DEFINE ok == VerifyTrustLog(trust_log, Anchor)
  <2>1. /\ agent.pc = "log" /\ UNCHANGED <<authority, overlap, pc>>
        /\ agent' = [agent EXCEPT !.pc = "idle",
                        !.cached = IF ok THEN agent.key ELSE @,
                        !.verdict = ok /\ agent.key = CurrentPem(trust_log)]
    BY <1>6 DEF AgentVerify, stateVars, threadVars
  <2>2. ASSUME agent.calm
        PROVE  ok /\ agent.key = authority /\ CurrentPem(trust_log) = authority
    <3>1. /\ "rotate" \notin overlap /\ \A w \in Workers : pc[w] \notin Replacing
          /\ agent.key = authority
      BY <1>c, <2>1, <2>2 DEF CalmInv
    <3>2. TrustInv /\ Sound(trust_log)
      BY <1>c, <1>i, <3>1 DEF ChainInv
    <3>3. authority = LastKey(trust_log)
      BY <1>p, <3>1, <3>2 DEF TrustInv, InForce
    <3> QED
      BY <3>1, <3>2, <3>3, SignedVerifies DEF TrustInv
  <2> HIDE DEF ok
  <2>3. /\ DOMAIN agent' = DOMAIN agent /\ agent'.pc = "idle" /\ agent'.calm = agent.calm
        /\ agent'.verdict = (ok /\ agent.key = CurrentPem(trust_log))
        /\ ok => agent'.cached = agent.key
    BY <1>c, <2>1 DEF CalmInv
  <2> QED
    BY <1>c, <2>1, <2>2, <2>3 DEF CalmInv
<1> QED
  BY <1>1, <1>2, <1>3, <1>4, <1>5, <1>6 DEF Next

LEMMA OverlapGrows == [Next]_vars => overlap \subseteq overlap'
<1> SUFFICES ASSUME [Next]_vars PROVE overlap \subseteq overlap'
  OBVIOUS
<1>1. ASSUME NEW w \in Workers, Query(w) PROVE overlap \subseteq overlap'
  BY <1>1 DEF Query, Arrive, GateDormant, GateRefuse, GateVerify, Burn, RunRefuse, RunServe,
              RunAttested, Attest, ReadLog, ReadKey, ReadBinding, AppendWitness
<1>2. ASSUME NEW w \in Workers, Rotate(w) PROVE overlap \subseteq overlap'
  BY <1>2 DEF Rotate, RotateBegin, RotateReadLog, RotateReadKey, RotateAppend, RotateSwap,
              RotateSetSeq, RotateSetFingerprint, rotateFrame
<1> QED
  BY <1>1, <1>2 DEF Next, vars, LoadGraph, AgentFetch, AgentVerify

LEMMA AnchorHolds == Spec => []AnchorInv
<1>1. Init => AnchorInv
  <2> SUFFICES ASSUME Init PROVE AnchorInv
    OBVIOUS
  <2> DEFINE b == [seq |-> 0, action |-> "bootstrap", pem |-> Anchor, prev |-> <<>>,
                   sig |-> Anchor]
  <2>1. /\ answers = <<>> /\ witness_log = <<>> /\ \A w \in Workers : pc[w] = "idle"
        /\ trust_log = <<b>> /\ authority = Anchor /\ current_key_seq = 0
        /\ current_key_fingerprint = Anchor
    BY DEF Init, BuildBootstrapLog
  <2>2. /\ Len(<<b>>) = 1 /\ DOMAIN <<b>> = {1} /\ <<b>>[1] = b /\ <<b>> # <<>>
        /\ b.pem = Anchor /\ b.sig = Anchor /\ b.action = "bootstrap"
    OBVIOUS
  <2>3. DOMAIN answers = {} /\ DOMAIN witness_log = {}
    BY <2>1
  <2>4. \A p \in {"idle"} : /\ p \notin Serving /\ p \notin Writing /\ p \notin Attests
                            /\ p \notin Replacing /\ p \notin Late
    BY DEF Serving, Writing, Attests, Replacing, Proposing, Late
  <2>5. NumberInv
    BY <2>1, <2>3, <2>4 DEF NumberInv, Recorded
  <2>6. CalmInv
    BY DEF Init, CalmInv
  <2> HIDE DEF b
  <2>7. TrustInv
    <3>1. Signed(trust_log) /\ LastKey(trust_log) = Anchor /\ Len(trust_log) = 1
      BY <2>1, <2>2 DEF Signed, LastKey
    <3>2. InForce
      BY <2>1, <3>1 DEF InForce
    <3>3. \A w \in Workers : Holds(pc[w], loc[w], trust_log, authority)
      BY <2>1, <2>4, HoldsNothing
    <3> QED
      BY <2>1, <2>3, <2>4, <3>1, <3>2, <3>3 DEF TrustInv, RotationApart, Anchored
  <2>8. AgreeInv
    BY <2>1, <2>3, <2>4 DEF AgreeInv, Agrees
  <2> QED
    BY <2>5, <2>6, <2>7, <2>8 DEF AnchorInv
<1>2. ServiceInv /\ AnchorInv /\ [Next]_vars => AnchorInv'
  <2> SUFFICES ASSUME ServiceInv, AnchorInv, [Next]_vars PROVE AnchorInv'
    OBVIOUS
  <2>1. NumberInv' /\ CalmInv'
    BY NumberStep, CalmStep DEF AnchorInv
  <2>2. ASSUME "rotate" \notin overlap' PROVE TrustInv' /\ AgreeInv'
    <3>1. NumberInv /\ TrustInv /\ AgreeInv
      BY <2>2, OverlapGrows DEF AnchorInv
    <3> QED
      BY <2>2, <3>1, TrustStep, AgreeStep
  <2> QED
    BY <2>1, <2>2 DEF AnchorInv
<1> QED
  BY <1>1, <1>2, ServiceHolds, PTL DEF Spec

(* While no rotation overlaps an append or another rotation, the trust log *)
(* verifies from the pinned anchor up to the key in force, and every entry *)
(* of the witness log verifies under the key that attested its answer, for *)
(* any number of rotations, requests and threads.                          *)
THEOREM RotationsKeepTheAnchor == Spec => []SerialAnchored
<1>1. ServiceInv /\ AnchorInv => SerialAnchored
  <2> SUFFICES ASSUME ServiceInv, AnchorInv, "rotate" \notin overlap
               PROVE  /\ VerifyTrustLog(trust_log, Anchor)
                      /\ (\A w \in Workers : ~Rotating(w)) => CurrentPem(trust_log) = authority
                      /\ witness_log # <<>> => VerifyWitnessLogAnchored(witness_log, trust_log)
                      /\ \A i \in DOMAIN witness_log, j \in DOMAIN answers :
                            answers[j].id = witness_log[i].id =>
                                answers[j].key = witness_log[i].sig
    BY DEF SerialAnchored
  <2>1. TrustInv /\ AgreeInv /\ Sound(trust_log) /\ Sound(witness_log)
    BY DEF AnchorInv, ServiceInv, ChainInv
  <2>2. VerifyTrustLog(trust_log, Anchor) /\ CurrentPem(trust_log) = LastKey(trust_log)
    BY <2>1, SignedVerifies DEF TrustInv
  <2>3. ASSUME \A w \in Workers : ~Rotating(w) PROVE authority = LastKey(trust_log)
    BY <2>1, <2>3 DEF TrustInv, InForce, Rotating
  <2>4. witness_log # <<>> => VerifyWitnessLogAnchored(witness_log, trust_log)
    BY <2>1, AnchoredVerifies DEF TrustInv
  <2> QED
    BY <2>1, <2>2, <2>3, <2>4 DEF AgreeInv, Agrees
<1> QED
  BY <1>1, AnchorHolds, ServiceHolds, PTL

(* An agent that checks the key while nothing rotates accepts it, after    *)
(* any number of earlier rotations, and holds the key in force until the   *)
(* next rotation begins.                                                   *)
THEOREM CalmAgentAccepts == Spec => []AgentAccepts
<1>1. AnchorInv => AgentAccepts
  BY DEF AnchorInv, CalmInv, AgentAccepts
<1> QED
  BY <1>1, AnchorHolds, PTL
=============================================================================
