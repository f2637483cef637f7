---------------------------- MODULE HarnessProofs ----------------------------
(***************************************************************************)
(* The harness loop and its gate for any number of threads, callers, keys, *)
(* retries, restarts and attempts that are lost or late.                   *)
(***************************************************************************)
EXTENDS HarnessClient, TLAPS

(* What the loop asks for, and what anybody does. *)
LoopAsks == [kind: {"explore", "apply"}, policy: BOOLEAN, override: BOOLEAN,
             body: {"patch"}, cmd: {NoCmd} \cup Command]
Asks == Requests \cup LoopAsks

Grant == [req: Asks, halted: BOOLEAN, boot: Nat]

(* The command stands for this very request. *)
Binds(r) ==
    /\ r.cmd \in Command /\ r.cmd.body = r.body /\ r.cmd.scope = Scope
    /\ r.cmd.signer \in Keys

GateTypes ==
    /\ ring \in Seq(Entry) /\ used \subseteq Nat /\ breaker \in BOOLEAN
    /\ pc \in [Threads -> {"idle", "call", "verify", "burn"}]
    /\ req \in [Threads -> Asks \cup {NoRequest}]
    /\ allow \in [Threads -> SUBSET Keys] /\ gated \in [Threads -> BOOLEAN]
    /\ granted \in Seq(Grant)
    /\ overlap \in BOOLEAN /\ clock \in Nat /\ boots \in Nat

(* A thread behind the check has passed everything that comes before it,   *)
(* and, as long as nobody raced through the check, it is alone there and   *)
(* its nonce is not used yet.                                              *)
ThreadInv ==
    /\ \A w \in Threads :
          /\ pc[w] = "idle" <=> req[w] = NoRequest
          /\ gated[w] => breaker
          /\ pc[w] \in {"verify", "burn"} =>
                /\ HarnessEnforced /\ ~gated[w]
                /\ req[w].kind = "apply" /\ req[w].cmd \in Command
          /\ pc[w] = "burn" => Binds(req[w])
          /\ pc[w] = "burn" /\ ~overlap => req[w].cmd.nonce \notin used
    /\ ~overlap => \A v, w \in Threads : pc[v] = "burn" /\ pc[w] = "burn" => v = w

(* A grant of this life of the process has its nonce among the used ones. *)
GrantInv ==
    HarnessEnforced =>
        /\ \A i \in DOMAIN granted :
              /\ Binds(granted[i].req) /\ granted[i].req.policy /\ ~granted[i].halted
              /\ granted[i].boot <= boots
              /\ granted[i].boot = boots => granted[i].req.cmd.nonce \in used
        /\ ~overlap => \A i, j \in DOMAIN granted :
              /\ granted[i].req.cmd.nonce = granted[j].req.cmd.nonce
              /\ granted[i].boot = granted[j].boot
              => i = j

GateInv == GateTypes /\ ThreadInv /\ GrantInv

Attempt == Nat \X Nat
Change == [req: Asks, boot: Nat]

ClientTypes ==
    /\ client \in {"idle", "send", "wait"} /\ asked \in Asks \cup {NoRequest}
    /\ client # "idle" => asked \in Asks
    /\ attempt \in Nat /\ nonce \in Nat /\ calls \in Nat
    /\ wire \subseteq [id: Attempt, req: Asks]
    /\ serves \in [Threads -> Attempt \cup {NoId}]
    /\ changes \in Seq(Change)
    /\ stopped \in BOOLEAN

(* An attempt of the current call carries what the call asked for, and     *)
(* when the breaker has been open since the call began, so it has since    *)
(* the attempt arrived.                                                    *)
AttemptInv ==
    /\ \A m \in wire : m.id[1] <= calls /\ (m.id[1] = calls => m.req = asked)
    /\ \A w \in Threads :
          /\ pc[w] = "idle" => serves[w] = NoId
          /\ serves[w] # NoId =>
                /\ serves[w][1] <= calls
                /\ serves[w][1] = calls => req[w] = asked
                /\ serves[w][1] = calls /\ stopped => gated[w]
    /\ stopped => breaker

(* The change has a grant of the same life of the gateway. *)
Backed(c) == \E j \in DOMAIN granted : granted[j].req = c.req /\ granted[j].boot = c.boot

Due == [req |-> asked, boot |-> boots]

(* An ALLOW on its way to the loop was given during the call and, for a    *)
(* change, stands on a grant that has not led to a change yet.             *)
ReplyInv ==
    /\ client # "wait" => reply = NoReply
    /\ HarnessEnforced /\ reply = "ALLOW" =>
          /\ ~stopped
          /\ asked.kind = "apply" =>
                /\ Backed(Due)
                /\ ~overlap => \A i \in DOMAIN changes : changes[i] # Due

ChangeInv ==
    HarnessEnforced =>
        /\ \A i \in DOMAIN changes : Backed(changes[i])
        /\ ~overlap => \A i, j \in DOMAIN changes : changes[i] = changes[j] => i = j

ClientInv == ClientTypes /\ AttemptInv /\ ReplyInv /\ ChangeInv /\ HaltStopsLoop

HInv == GateInv /\ ClientInv

-----------------------------------------------------------------------------

LEMMA AskShape ==
    ASSUME NEW r \in Asks
    PROVE  /\ r.kind \in {"explore", "apply"} /\ r.policy \in BOOLEAN
           /\ r.cmd \in {NoCmd, BadCmd} \/ r.cmd \in Command
           /\ r # NoRequest
<1>1. CASE r \in Requests
  BY <1>1, HarnessAssumption DEF NoRequest
<1>2. CASE r \in LoopAsks
  <2>1. /\ r.kind \in {"explore", "apply"} /\ r.policy \in BOOLEAN
        /\ r.cmd \in {NoCmd} \cup Command
    BY <1>2 DEF LoopAsks
  <2> QED
    BY <2>1 DEF NoRequest
<1> QED
  BY <1>1, <1>2 DEF Asks

LEMMA ActiveAreKeys ==
    ASSUME ring \in Seq(Entry)
    PROVE  ActivePems(ring, clock) \subseteq Keys
<1>1. \A i \in DOMAIN ring : ring[i] \in Entry
  OBVIOUS
<1>2. \A i \in DOMAIN ring : ring[i].pem \in Keys
  BY <1>1 DEF Entry
<1> QED
  BY <1>2 DEF ActivePems

LEMMA GateInvSuffices == GateInv => ApplyNeedsOperator
<1> SUFFICES ASSUME GateInv PROVE ApplyNeedsOperator
  OBVIOUS
<1>1. \A w \in Threads : pc[w] # "idle" => req[w] \in Asks
  BY DEF GateInv, GateTypes, ThreadInv
<1>2. TypeOK
  BY <1>1, AskShape DEF GateInv, GateTypes, ThreadInv, TypeOK
<1> QED
  BY <1>2 DEF GateInv, GrantInv, Binds, ApplyNeedsOperator

LEMMA GateInit == Init => GateInv
<1> SUFFICES ASSUME Init PROVE GateInv
  OBVIOUS
<1>1. GateTypes
  <2>1. ring \in Seq(Entry) /\ granted \in Seq(Grant) /\ clock \in Nat /\ boots \in Nat
    BY DEF Init
  <2>2. /\ used \subseteq Nat /\ breaker \in BOOLEAN /\ overlap \in BOOLEAN
        /\ pc \in [Threads -> {"idle", "call", "verify", "burn"}]
        /\ req \in [Threads -> Asks \cup {NoRequest}]
    BY DEF Init
  <2>3. allow \in [Threads -> SUBSET Keys] /\ gated \in [Threads -> BOOLEAN]
    BY DEF Init
  <2> QED
    BY <2>1, <2>2, <2>3 DEF GateTypes
<1>2. ThreadInv
  BY DEF Init, ThreadInv
<1>3. GrantInv
  BY DEF Init, GrantInv
<1> QED
  BY <1>1, <1>2, <1>3 DEF GateInv

(* A step that ends a request: what it leaves to prove is about the grant. *)
LEMMA AnswerKeeps ==
    ASSUME GateInv, NEW w \in Threads, NEW decision, pc[w] # "idle",
           Answer(w, decision), UNCHANGED <<ring, breaker, boundVars>>,
           overlap' \in BOOLEAN, overlap => overlap',
           used' \subseteq Nat, used \subseteq used',
           \A v \in Threads \ {w} : pc[v] = "burn" /\ ~overlap' =>
               req[v].cmd.nonce \notin used',
           HarnessEnforced /\ decision = "ALLOW" /\ req[w].kind = "apply" =>
               /\ Binds(req[w]) /\ req[w].policy /\ ~gated[w]
               /\ ~overlap' => req[w].cmd.nonce \notin used
               /\ req[w].cmd.nonce \in used'
    PROVE  GateInv'
<1>1. /\ pc' = [pc EXCEPT ![w] = "idle"] /\ req' = [req EXCEPT ![w] = NoRequest]
      /\ allow' = [allow EXCEPT ![w] = {}] /\ gated' = [gated EXCEPT ![w] = FALSE]
      /\ clock' = clock /\ boots' = boots
  BY DEF Answer, boundVars
<1>2. req[w] \in Asks
  BY DEF GateInv, GateTypes, ThreadInv
<1> DEFINE g == [req |-> req[w], halted |-> gated[w], boot |-> boots]
<1>3. g \in Grant
  BY <1>2 DEF GateInv, GateTypes, Grant
<1>4. granted \in Seq(Grant)
  BY DEF GateInv, GateTypes
<1>5. CASE granted' = granted
  <2>1. GateTypes'
    BY <1>1, <1>5 DEF GateInv, GateTypes
  <2>2. ThreadInv'
    BY <1>1 DEF GateInv, GateTypes, ThreadInv, Binds
  <2>3. GrantInv'
    BY <1>1, <1>5 DEF GateInv, GrantInv, Binds
  <2> QED
    BY <2>1, <2>2, <2>3 DEF GateInv
<1>6. CASE decision = "ALLOW" /\ req[w].kind = "apply" /\ granted' = Append(granted, g)
  <2>1. /\ granted' \in Seq(Grant)
        /\ \A i \in DOMAIN granted : i \in DOMAIN granted' /\ granted'[i] = granted[i]
        /\ \A i \in DOMAIN granted' : i \in DOMAIN granted \/ (i = Len(granted) + 1 /\ granted'[i] = g)
    BY <1>3, <1>4, <1>6
  <2>2. GateTypes'
    BY <1>1, <2>1 DEF GateInv, GateTypes
  <2>3. ThreadInv'
    BY <1>1 DEF GateInv, GateTypes, ThreadInv, Binds
  <2>4. GrantInv'
    <3> SUFFICES ASSUME HarnessEnforced PROVE GrantInv'
      BY DEF GrantInv, HarnessEnforced
    <3>1. /\ Binds(g.req) /\ g.req.policy /\ ~g.halted /\ g.boot = boots
          /\ ~overlap' => g.req.cmd.nonce \notin used
          /\ g.req.cmd.nonce \in used'
      BY <1>6
    <3>2. \A i \in DOMAIN granted :
            /\ Binds(granted[i].req) /\ granted[i].req.policy /\ ~granted[i].halted
            /\ granted[i].boot <= boots
            /\ granted[i].boot = boots => granted[i].req.cmd.nonce \in used
      BY DEF GateInv, GrantInv
    <3> HIDE DEF g
    <3>3. \A i \in DOMAIN granted' :
            /\ Binds(granted'[i].req) /\ granted'[i].req.policy /\ ~granted'[i].halted
            /\ granted'[i].boot <= boots
            /\ granted'[i].boot = boots => granted'[i].req.cmd.nonce \in used'
      <4> TAKE i \in DOMAIN granted'
      <4>1. CASE i \in DOMAIN granted
        BY <2>1, <3>2, <4>1
      <4>2. CASE granted'[i] = g
        <5>1. boots <= boots
          BY DEF GateInv, GateTypes
        <5> QED
          BY <3>1, <4>2, <5>1
      <4> QED
        BY <2>1, <4>1, <4>2
    <3>4. ASSUME ~overlap', NEW i \in DOMAIN granted', NEW j \in DOMAIN granted',
                 granted'[i].req.cmd.nonce = granted'[j].req.cmd.nonce,
                 granted'[i].boot = granted'[j].boot
          PROVE  i = j
      <4>1. CASE i \in DOMAIN granted /\ j \in DOMAIN granted
        BY <2>1, <3>4, <4>1 DEF GateInv, GrantInv
      <4> QED
        BY <2>1, <3>1, <3>2, <3>4, <4>1
    <3> QED
      BY <1>1, <3>3, <3>4 DEF GrantInv, Binds
  <2> QED
    BY <2>2, <2>3, <2>4 DEF GateInv
<1> QED
  BY <1>5, <1>6 DEF Answer

-----------------------------------------------------------------------------
(* The steps of the gate. *)

LEMMA ReceiveKeeps ==
    ASSUME GateInv, NEW w \in Threads, NEW r \in Asks, Receive(w, r)
    PROVE  GateInv'
<1>1. /\ pc[w] = "idle" /\ pc' = [pc EXCEPT ![w] = "call"]
      /\ req' = [req EXCEPT ![w] = r]
      /\ allow' = [allow EXCEPT ![w] = ActivePems(ring, clock)]
      /\ gated' = [gated EXCEPT ![w] = breaker]
      /\ UNCHANGED <<ring, used, breaker, granted, overlap, clock, boots>>
  BY DEF Receive
<1>2. GateTypes'
  <2>1. ActivePems(ring, clock) \in SUBSET Keys
    BY ActiveAreKeys DEF GateInv, GateTypes
  <2> QED
    BY <1>1, <2>1 DEF GateInv, GateTypes
<1>3. ThreadInv'
  BY <1>1, AskShape DEF GateInv, GateTypes, ThreadInv, Binds
<1>4. GrantInv'
  BY <1>1 DEF GateInv, GrantInv, Binds
<1> QED
  BY <1>2, <1>3, <1>4 DEF GateInv

(* Nothing but a command gets a change past an enforced gate. *)
LEMMA VerdictOfApply ==
    ASSUME GateInv, NEW w \in Threads, pc[w] = "call", HarnessEnforced,
           req[w].kind = "apply"
    PROVE  Verdict(w) # "ALLOW"
BY DEF Verdict, Decide

LEMMA EvaluateKeeps ==
    ASSUME GateInv, NEW w \in Threads, Evaluate(w)
    PROVE  GateInv'
<1>1. pc[w] = "call" /\ UNCHANGED <<ring, used, breaker, overlap, boundVars>>
  BY DEF Evaluate
<1>2. CASE Verdict(w) # "verify" /\ Answer(w, Verdict(w))
  <2>1. overlap' \in BOOLEAN /\ used' \subseteq Nat
    BY <1>1 DEF GateInv, GateTypes
  <2>2. \A v \in Threads \ {w} : pc[v] = "burn" /\ ~overlap' => req[v].cmd.nonce \notin used'
    BY <1>1 DEF GateInv, ThreadInv
  <2> QED
    BY <1>1, <1>2, <2>1, <2>2, VerdictOfApply, AnswerKeeps
<1>3. CASE Verdict(w) = "verify" /\ Goto(w, "verify")
  <2>1. /\ HarnessEnforced /\ ~breaker /\ req[w].kind = "apply"
        /\ req[w].cmd \notin {NoCmd, BadCmd}
    BY <1>3 DEF Verdict, Decide, NeedsCommand
  <2>2. req[w] \in Asks
    BY <1>1 DEF GateInv, GateTypes, ThreadInv
  <2>3. req[w].cmd \in Command /\ req[w] # NoRequest
    BY <2>1, <2>2, AskShape
  <2>4. pc' = [pc EXCEPT ![w] = "verify"] /\ UNCHANGED <<req, allow, gated, granted>>
    BY <1>3 DEF Goto
  <2>5. clock' = clock /\ boots' = boots
    BY <1>1 DEF boundVars
  <2>6. GateTypes'
    BY <1>1, <2>4, <2>5 DEF GateInv, GateTypes
  <2>7. ThreadInv'
    BY <1>1, <2>1, <2>3, <2>4 DEF GateInv, GateTypes, ThreadInv, Binds, HarnessEnforced
  <2>8. GrantInv'
    BY <1>1, <2>4, <2>5 DEF GateInv, GrantInv, Binds, HarnessEnforced
  <2> QED
    BY <2>6, <2>7, <2>8 DEF GateInv
<1> QED
  BY <1>2, <1>3 DEF Evaluate

LEMMA VerifyKeeps ==
    ASSUME GateInv, NEW w \in Threads, Verify(w)
    PROVE  GateInv'
<1>1. /\ pc[w] = "verify" /\ UNCHANGED <<ring, used, breaker, boundVars>>
      /\ overlap' = (overlap \/ \E v \in Threads \ {w} : pc[v] = "burn")
  BY DEF Verify
<1>2. overlap' \in BOOLEAN /\ (overlap => overlap') /\ used' \subseteq Nat
  BY <1>1 DEF GateInv, GateTypes
<1>3. CASE Answer(w, "DENY_OPEN")
  <2>1. \A v \in Threads \ {w} : pc[v] = "burn" /\ ~overlap' => req[v].cmd.nonce \notin used'
    BY <1>1 DEF GateInv, ThreadInv
  <2> QED
    BY <1>1, <1>2, <1>3, <2>1, AnswerKeeps
<1>4. CASE Verified(w) /\ Goto(w, "burn")
  <2>1. pc' = [pc EXCEPT ![w] = "burn"] /\ UNCHANGED <<req, allow, gated, granted>>
    BY <1>4 DEF Goto
  <2>2. clock' = clock /\ boots' = boots
    BY <1>1 DEF boundVars
  <2>3. allow[w] \subseteq Keys
    BY DEF GateInv, GateTypes
  <2>4. Binds(req[w]) /\ req[w].cmd.nonce \notin used
    BY <1>1, <1>4, <2>3 DEF Verified, VerifyCommand, GateInv, ThreadInv, Binds
  <2>5. GateTypes'
    BY <1>1, <1>2, <2>1, <2>2 DEF GateInv, GateTypes
  <2>6. ThreadInv'
    <3>1. \A v \in Threads : pc'[v] = IF v = w THEN "burn" ELSE pc[v]
      BY <2>1 DEF GateInv, GateTypes
    <3>2. ~overlap' => \A v \in Threads \ {w} : pc[v] # "burn"
      BY <1>1
    <3>3. \A v \in Threads :
             /\ pc'[v] = "idle" <=> req[v] = NoRequest
             /\ gated[v] => breaker
             /\ pc'[v] \in {"verify", "burn"} =>
                   /\ HarnessEnforced /\ ~gated[v]
                   /\ req[v].kind = "apply" /\ req[v].cmd \in Command
             /\ pc'[v] = "burn" => Binds(req[v])
             /\ pc'[v] = "burn" /\ ~overlap' => req[v].cmd.nonce \notin used
      BY <1>1, <2>4, <3>1, <3>2 DEF GateInv, ThreadInv
    <3> QED
      BY <1>1, <2>1, <3>1, <3>2, <3>3 DEF ThreadInv, Binds, HarnessEnforced
  <2>7. GrantInv'
    BY <1>1, <1>2, <2>1, <2>2 DEF GateInv, GrantInv, Binds, HarnessEnforced
  <2> QED
    BY <2>5, <2>6, <2>7 DEF GateInv
<1> QED
  BY <1>3, <1>4 DEF Verify

LEMMA BurnKeeps ==
    ASSUME GateInv, NEW w \in Threads, Burn(w)
    PROVE  GateInv'
<1>1. /\ pc[w] = "burn" /\ used' = used \cup {req[w].cmd.nonce}
      /\ Answer(w, Decide(req[w], FALSE))
      /\ UNCHANGED <<ring, breaker, overlap, boundVars>>
  BY DEF Burn
<1>2. Binds(req[w]) /\ ~gated[w] /\ (~overlap => req[w].cmd.nonce \notin used)
  BY <1>1 DEF GateInv, ThreadInv
<1>3. req[w].cmd.nonce \in Nat
  BY <1>2 DEF Binds, Command
<1>4. overlap' \in BOOLEAN /\ used' \subseteq Nat
  BY <1>1, <1>3 DEF GateInv, GateTypes
<1>5. \A v \in Threads \ {w} : pc[v] = "burn" /\ ~overlap' => req[v].cmd.nonce \notin used'
  BY <1>1 DEF GateInv, ThreadInv
<1>6. Decide(req[w], FALSE) = "ALLOW" => req[w].policy
  BY DEF Decide
<1> QED
  BY <1>1, <1>2, <1>4, <1>5, <1>6, AnswerKeeps

LEMMA SurroundingsKeep ==
    ASSUME GateInv, Configure \/ Switch \/ Tick
    PROVE  GateInv'
<1>1. CASE Configure
  <2>1. /\ ring' \in Seq(Entry)
        /\ UNCHANGED <<used, breaker, threadVars, granted, overlap, clock, boots>>
    BY <1>1 DEF Configure, Add, Entry
  <2>2. UNCHANGED <<pc, req, allow, gated>>
    BY <2>1 DEF threadVars
  <2> QED
    BY <2>1, <2>2 DEF GateInv, GateTypes, ThreadInv, GrantInv, Binds
<1>2. CASE Switch
  <2>1. /\ breaker' = ~breaker /\ gated' = [w \in Threads |-> gated[w] /\ breaker']
        /\ UNCHANGED <<ring, used, pc, req, allow, granted, overlap, clock, boots>>
    BY <1>2 DEF Switch
  <2>2. GateTypes'
    BY <2>1 DEF GateInv, GateTypes
  <2>3. ThreadInv'
    BY <2>1 DEF GateInv, GateTypes, ThreadInv, Binds
  <2>4. GrantInv'
    BY <2>1 DEF GateInv, GrantInv, Binds
  <2> QED
    BY <2>2, <2>3, <2>4 DEF GateInv
<1>3. CASE Tick
  <2>1. /\ clock' = clock + 1
        /\ UNCHANGED <<ring, used, breaker, threadVars, granted, overlap, boots>>
    BY <1>3 DEF Tick
  <2>2. UNCHANGED <<pc, req, allow, gated>>
    BY <2>1 DEF threadVars
  <2> QED
    BY <2>1, <2>2 DEF GateInv, GateTypes, ThreadInv, GrantInv, Binds
<1> QED
  BY <1>1, <1>2, <1>3

LEMMA RestartKeeps ==
    ASSUME GateInv, Restart
    PROVE  GateInv'
<1>1. /\ boots' = boots + 1 /\ ring' = <<>> /\ used' = {} /\ breaker' = FALSE
      /\ pc' = [w \in Threads |-> "idle"] /\ req' = [w \in Threads |-> NoRequest]
      /\ allow' = [w \in Threads |-> {}] /\ gated' = [w \in Threads |-> FALSE]
      /\ UNCHANGED <<granted, overlap, clock>>
  BY DEF Restart
<1>2. GateTypes'
  <2>1. ring' \in Seq(Entry) /\ boots' \in Nat
    BY <1>1 DEF GateInv, GateTypes
  <2>2. /\ pc' \in [Threads -> {"idle", "call", "verify", "burn"}]
        /\ req' \in [Threads -> Asks \cup {NoRequest}]
        /\ allow' \in [Threads -> SUBSET Keys] /\ gated' \in [Threads -> BOOLEAN]
    BY <1>1
  <2> QED
    BY <1>1, <2>1, <2>2 DEF GateInv, GateTypes
<1>3. ThreadInv'
  BY <1>1 DEF ThreadInv
<1>4. GrantInv'
  <2>0. \A i \in DOMAIN granted : granted[i] \in Grant
    BY DEF GateInv, GateTypes
  <2>1. \A i \in DOMAIN granted : granted[i].boot \in Nat
    BY <2>0 DEF Grant
  <2>2. HarnessEnforced => \A i \in DOMAIN granted :
            granted[i].boot <= boots + 1 /\ granted[i].boot # boots + 1
    BY <2>1 DEF GateInv, GateTypes, GrantInv
  <2> QED
    BY <1>1, <2>2 DEF GateInv, GrantInv, Binds
<1> QED
  BY <1>2, <1>3, <1>4 DEF GateInv

-----------------------------------------------------------------------------
(* The steps of the client. *)

LEMMA GateKept == ASSUME GateInv, UNCHANGED vars PROVE GateInv'
<1>1. UNCHANGED <<ring, used, breaker, pc, req, allow, gated, granted, overlap, clock, boots>>
  BY DEF vars, threadVars, boundVars
<1> QED
  BY <1>1 DEF GateInv, GateTypes, ThreadInv, GrantInv, Binds

LEMMA ClientInit0 == ClientInit => HInv
<1> SUFFICES ASSUME ClientInit PROVE HInv
  OBVIOUS
<1>1. GateInv
  BY GateInit DEF ClientInit
<1>2. ClientTypes
  <2>1. changes \in Seq(Change)
    BY DEF ClientInit
  <2> QED
    BY <2>1 DEF ClientInit, ClientTypes
<1>3. AttemptInv /\ ReplyInv /\ ChangeInv /\ HaltStopsLoop
  BY ClientAssumption
     DEF ClientInit, AttemptInv, ReplyInv, ChangeInv, HaltStopsLoop, NoOutcome
<1> QED
  BY <1>1, <1>2, <1>3 DEF HInv, ClientInv

(* A call begins: every attempt under way belongs to an earlier one. *)
LEMMA CallKeeps ==
    ASSUME HInv, NEW r \in Asks, Call(r), nonce' \in Nat
    PROVE  HInv'
<1>1. /\ client = "idle" /\ calls' = calls + 1 /\ client' = "send" /\ asked' = r
      /\ attempt' = 0 /\ outcome' = NoOutcome /\ stopped' = breaker
      /\ UNCHANGED <<vars, apiKeyOk, wire, serves, reply, changes>>
  BY DEF Call
<1>2. UNCHANGED <<breaker, pc, req, gated, granted, overlap, boots>>
  BY <1>1 DEF vars, threadVars, boundVars
<1>3. GateInv'
  BY <1>1, GateKept DEF HInv
<1>4. ClientTypes'
  BY <1>1, <1>2 DEF HInv, ClientInv, ClientTypes, GateInv, GateTypes
<1>5. AttemptInv'
  <2>1. /\ \A m \in wire : m.id[1] \in Nat /\ m.id[1] <= calls
        /\ \A w \in Threads : serves[w] # NoId => serves[w][1] \in Nat /\ serves[w][1] <= calls
    BY DEF HInv, ClientInv, ClientTypes, AttemptInv, Attempt
  <2>2. /\ \A m \in wire : m.id[1] <= calls + 1 /\ m.id[1] # calls + 1
        /\ \A w \in Threads : serves[w] # NoId =>
               serves[w][1] <= calls + 1 /\ serves[w][1] # calls + 1
    BY <2>1 DEF HInv, ClientInv, ClientTypes
  <2> QED
    BY <1>1, <1>2, <2>2 DEF HInv, ClientInv, AttemptInv
<1>6. ReplyInv'
  BY <1>1, ClientAssumption DEF HInv, ClientInv, ReplyInv
<1>7. ChangeInv' /\ HaltStopsLoop'
  BY <1>1, <1>2 DEF HInv, ClientInv, ChangeInv, Backed, HaltStopsLoop, NoOutcome
<1> QED
  BY <1>3, <1>4, <1>5, <1>6, <1>7 DEF HInv, ClientInv

LEMMA CommandType ==
    ASSUME NEW n \in Nat, NEW t \in Nat, NEW k \in Keys \cup {NoKey}
    PROVE  [verb |-> "harness_apply", scope |-> Scope, body |-> "patch", nonce |-> n,
            stamp |-> t, signer |-> k] \in Command
<1>1. "harness_apply" \in STRING /\ Scope \in STRING /\ "patch" \in STRING
  BY ClientAssumption
<1>2. ASSUME NEW verb \in STRING, NEW scope \in STRING, NEW body \in STRING
      PROVE  [verb |-> verb, scope |-> scope, body |-> body, nonce |-> n,
              stamp |-> t, signer |-> k] \in Command
  BY DEF Command
<1> QED
  BY <1>1, <1>2

LEMMA RunKeeps ==
    ASSUME HInv, NEW kind \in {"explore", "apply"}, Run(kind)
    PROVE  HInv'
<1>1. SignedCmd(kind) \in {NoCmd} \cup Command
  <2>1. nonce + 1 \in Nat /\ clock \in Nat
    BY DEF HInv, GateInv, GateTypes, ClientInv, ClientTypes
  <2>2. [verb |-> "harness_apply", scope |-> Scope, body |-> "patch",
         nonce |-> nonce + 1, stamp |-> clock, signer |-> HarnessKey] \in Command
    BY <2>1, ClientAssumption, CommandType
  <2> QED
    BY <2>2 DEF SignedCmd
<1> DEFINE r == [kind |-> kind, policy |-> TRUE, override |-> FALSE, body |-> "patch",
                 cmd |-> SignedCmd(kind)]
<1>2. r \in Asks
  BY <1>1 DEF Asks, LoopAsks
<1>3. Call(r) /\ nonce' \in {nonce, nonce + 1}
  BY DEF Run
<1>4. nonce' \in Nat
  BY <1>3 DEF HInv, ClientInv, ClientTypes
<1> HIDE DEF r
<1> QED
  BY <1>2, <1>3, <1>4, CallKeeps

LEMMA RunAgainKeeps ==
    ASSUME HInv, RunAgain
    PROVE  HInv'
<1>1. asked \in Asks /\ Call(asked) /\ nonce' \in Nat
  BY DEF RunAgain, HInv, ClientInv, ClientTypes
<1> QED
  BY <1>1, CallKeeps

(* may_apply returns. *)
LEMMA ReturnKeeps ==
    ASSUME HInv, NEW ok \in BOOLEAN, NEW calm, Return(ok, calm), client # "idle",
           UNCHANGED <<vars, wire, serves>>, reply' = NoReply,
           ok /\ HarnessEnforced => reply = "ALLOW"
    PROVE  HInv'
<1>1. /\ outcome'.ok = ok /\ outcome'.stopped = stopped
      /\ changes' = IF ok /\ asked.kind = "apply" THEN Append(changes, Due) ELSE changes
      /\ client' = "idle" /\ attempt' = 0 /\ stopped' = FALSE
      /\ UNCHANGED <<asked, nonce, calls>>
  BY DEF Return, Due
<1>2. UNCHANGED <<breaker, pc, req, gated, granted, overlap, boots>>
  BY DEF vars, threadVars, boundVars
<1>3. GateInv'
  BY GateKept DEF HInv
<1>4. changes \in Seq(Change) /\ Due \in Change
  BY DEF HInv, GateInv, GateTypes, ClientInv, ClientTypes, Due, Change
<1>5. ClientTypes'
  <2>1. changes' \in Seq(Change)
    BY <1>1, <1>4
  <2> QED
    BY <1>1, <2>1 DEF HInv, ClientInv, ClientTypes
<1>6. AttemptInv'
  BY <1>1, <1>2 DEF HInv, ClientInv, AttemptInv
<1>7. ReplyInv'
  BY <1>1, ClientAssumption DEF ReplyInv
<1>8. HaltStopsLoop'
  BY <1>1 DEF HInv, ClientInv, ReplyInv, HaltStopsLoop, HarnessEnforced
<1>9. ChangeInv'
  <2> SUFFICES ASSUME HarnessEnforced PROVE ChangeInv'
    BY DEF ChangeInv, HarnessEnforced
  <2>1. CASE changes' = changes
    BY <1>2, <2>1 DEF HInv, ClientInv, ChangeInv, Backed
  <2>2. CASE ok /\ asked.kind = "apply" /\ changes' = Append(changes, Due)
    <3>1. Backed(Due) /\ (~overlap => \A i \in DOMAIN changes : changes[i] # Due)
      BY <2>2 DEF HInv, ClientInv, ReplyInv
    <3>2. \A i \in DOMAIN changes' :
             \/ i \in DOMAIN changes /\ changes'[i] = changes[i]
             \/ i = Len(changes) + 1 /\ changes'[i] = Due
      <4> HIDE DEF Due
      <4> QED
        BY <1>4, <2>2
    <3>3. \A i \in DOMAIN changes' : Backed(changes'[i])
      BY <3>1, <3>2 DEF HInv, ClientInv, ChangeInv
    <3>4. ~overlap => \A i, j \in DOMAIN changes' : changes'[i] = changes'[j] => i = j
      BY <3>1, <3>2 DEF HInv, ClientInv, ChangeInv
    <3> QED
      BY <1>2, <3>3, <3>4 DEF ChangeInv, Backed
  <2> QED
    BY <1>1, <2>1, <2>2
<1> QED
  BY <1>3, <1>5, <1>6, <1>7, <1>8, <1>9 DEF HInv, ClientInv

(* The client goes on with the same call. *)
LEMMA SameCallKeeps ==
    ASSUME HInv, client # "idle", client' \in {"send", "wait"}, attempt' \in Nat,
           UNCHANGED <<vars, serves, asked, nonce, calls, outcome, changes, stopped>>,
           wire' \subseteq wire \cup {[id |-> <<calls, attempt'>>, req |-> asked]},
           reply' = NoReply
    PROVE  HInv'
<1>1. UNCHANGED <<breaker, pc, req, gated, granted, overlap, boots>>
  BY DEF vars, threadVars, boundVars
<1>2. GateInv'
  BY GateKept DEF HInv
<1>3. /\ calls \in Nat /\ asked \in Asks /\ wire \subseteq [id: Attempt, req: Asks]
  BY DEF HInv, ClientInv, ClientTypes
<1> DEFINE m == [id |-> <<calls, attempt'>>, req |-> asked]
<1>4. m \in [id: Attempt, req: Asks] /\ m.id[1] = calls /\ m.req = asked
  BY <1>3 DEF Attempt
<1> HIDE DEF m
<1>5. wire' \subseteq wire \cup {m}
  BY DEF m
<1>6. ClientTypes'
  BY <1>3, <1>4, <1>5 DEF HInv, ClientInv, ClientTypes
<1>7. AttemptInv'
  <2>1. calls <= calls
    BY <1>3
  <2>2. \A x \in wire' : x.id[1] <= calls /\ (x.id[1] = calls => x.req = asked)
    BY <1>4, <1>5, <2>1 DEF HInv, ClientInv, AttemptInv
  <2> QED
    BY <1>1, <2>2 DEF HInv, ClientInv, AttemptInv
<1>8. ReplyInv'
  BY ClientAssumption DEF ReplyInv
<1>9. ChangeInv' /\ HaltStopsLoop'
  BY <1>1 DEF HInv, ClientInv, ChangeInv, Backed, HaltStopsLoop, HarnessEnforced
<1> QED
  BY <1>2, <1>6, <1>7, <1>8, <1>9 DEF HInv, ClientInv

LEMMA TryAgainKeeps ==
    ASSUME HInv, NEW n \in Nat, TryAgain(n), client # "idle",
           UNCHANGED <<vars, wire, serves>>, reply' = NoReply
    PROVE  HInv'
<1>1. CASE Return(FALSE, FALSE)
  BY <1>1, ReturnKeeps
<1>2. CASE /\ client' = "send" /\ attempt' = n
           /\ UNCHANGED <<asked, nonce, calls, outcome, changes, stopped>>
  BY <1>2, SameCallKeeps
<1> QED
  BY <1>1, <1>2 DEF TryAgain

LEMMA PostKeeps ==
    ASSUME HInv, Post
    PROVE  HInv'
<1>1. client = "send" /\ UNCHANGED <<vars, serves, reply>>
  BY DEF Post
<1>2. reply' = NoReply /\ attempt + 1 \in Nat
  BY <1>1 DEF HInv, ClientInv, ReplyInv, ClientTypes
<1>3. CASE /\ client' = "wait" /\ attempt' = attempt + 1
           /\ wire' = wire \cup {[id |-> <<calls, attempt + 1>>, req |-> asked]}
           /\ UNCHANGED <<asked, nonce, calls, outcome, changes, stopped>>
  BY <1>1, <1>2, <1>3, SameCallKeeps
<1>4. CASE TryAgain(attempt + 1) /\ UNCHANGED wire
  BY <1>1, <1>2, <1>4, TryAgainKeeps
<1>5. CASE Return(FALSE, FALSE) /\ UNCHANGED wire
  BY <1>1, <1>2, <1>5, ReturnKeeps
<1> QED
  BY <1>3, <1>4, <1>5 DEF Post

LEMMA TakeReplyKeeps ==
    ASSUME HInv, TakeReply
    PROVE  HInv'
<1>1. client = "wait" /\ reply' = NoReply /\ UNCHANGED <<vars, wire, serves>>
  BY DEF TakeReply
<1>2. CASE Return(MayApply(reply), TRUE)
  <2>1. MayApply(reply) \in BOOLEAN /\ (MayApply(reply) => reply = "ALLOW")
    BY DEF MayApply
  <2> QED
    BY <1>1, <1>2, <2>1, ReturnKeeps
<1>3. CASE Return(FALSE, FALSE)
  BY <1>1, <1>3, ReturnKeeps
<1> QED
  BY <1>2, <1>3 DEF TakeReply

LEMMA TimeoutKeeps ==
    ASSUME HInv, Timeout
    PROVE  HInv'
<1>1. /\ client = "wait" /\ reply' = NoReply /\ TryAgain(attempt)
      /\ UNCHANGED <<vars, wire, serves>> /\ attempt \in Nat
  BY DEF Timeout, HInv, ClientInv, ClientTypes
<1> QED
  BY <1>1, TryAgainKeeps

-----------------------------------------------------------------------------
(* The steps of the gate, seen from the client. *)

LEMMA DeliverKeeps ==
    ASSUME HInv, NEW w \in Threads, Deliver(w)
    PROVE  HInv'
<1>1. PICK m \in wire :
            /\ Receive(w, m.req)
            /\ wire' = wire \ {m} /\ serves' = [serves EXCEPT ![w] = m.id]
            /\ UNCHANGED <<callVars, reply, stopped>>
  BY DEF Deliver
<1>2. m.req \in Asks /\ m.id \in Attempt
  BY DEF HInv, ClientInv, ClientTypes
<1>3. GateInv'
  BY <1>1, <1>2, ReceiveKeeps DEF HInv
<1>4. UNCHANGED <<client, asked, attempt, nonce, calls, outcome, changes>>
  BY <1>1 DEF callVars
<1>5. /\ pc' = [pc EXCEPT ![w] = "call"] /\ req' = [req EXCEPT ![w] = m.req]
      /\ gated' = [gated EXCEPT ![w] = breaker]
      /\ UNCHANGED <<breaker, granted, overlap, boots>>
  BY <1>1 DEF Receive
<1>6. ClientTypes'
  BY <1>1, <1>2, <1>4 DEF HInv, ClientInv, ClientTypes
<1>7. AttemptInv'
  BY <1>1, <1>4, <1>5 DEF HInv, GateInv, GateTypes, ClientInv, ClientTypes, AttemptInv
<1>8. ReplyInv' /\ ChangeInv' /\ HaltStopsLoop'
  BY <1>1, <1>4, <1>5
     DEF HInv, ClientInv, ReplyInv, ChangeInv, Backed, Due, HaltStopsLoop, HarnessEnforced
<1> QED
  BY <1>3, <1>6, <1>7, <1>8 DEF HInv, ClientInv

LEMMA OtherCallerKeeps ==
    ASSUME HInv, NEW w \in Threads, OtherCaller(w)
    PROVE  HInv'
<1>1. PICK r \in Requests : Receive(w, r)
  BY DEF OtherCaller, AnyCaller
<1>2. GateInv'
  BY <1>1, ReceiveKeeps DEF HInv, Asks
<1>3. UNCHANGED <<client, asked, attempt, nonce, calls, outcome, changes, wire, serves, reply,
                  stopped>>
  BY DEF OtherCaller, clientVars
<1>4. /\ pc[w] = "idle" /\ pc' = [pc EXCEPT ![w] = "call"] /\ req' = [req EXCEPT ![w] = r]
      /\ gated' = [gated EXCEPT ![w] = breaker]
      /\ UNCHANGED <<breaker, granted, overlap, boots>>
  BY <1>1 DEF Receive
<1>5. ClientTypes'
  BY <1>3 DEF HInv, ClientInv, ClientTypes
<1>6. AttemptInv'
  BY <1>3, <1>4 DEF HInv, GateInv, GateTypes, ClientInv, AttemptInv
<1>7. ReplyInv' /\ ChangeInv' /\ HaltStopsLoop'
  BY <1>3, <1>4
     DEF HInv, ClientInv, ReplyInv, ChangeInv, Backed, Due, HaltStopsLoop, HarnessEnforced
<1> QED
  BY <1>2, <1>5, <1>6, <1>7 DEF HInv, ClientInv

(* A thread of the gate takes a step: it goes on, or it answers. *)
LEMMA StepShape ==
    ASSUME GateInv, NEW w \in Threads, Step(w)
    PROVE  /\ GateInv'
           /\ pc[w] \in {"call", "verify", "burn"}
           /\ UNCHANGED <<breaker, boots>>
           /\ overlap => overlap'
           /\ pc[w] = "burn" => overlap' = overlap
           /\ \/ Goto(w, "verify") \/ Goto(w, "burn")
              \/ Answer(w, Said(w))
<1>1. CASE Evaluate(w)
  BY <1>1, EvaluateKeeps DEF Evaluate, Said, boundVars
<1>2. CASE Verify(w)
  BY <1>2, VerifyKeeps DEF Verify, Said, boundVars
<1>3. CASE Burn(w)
  BY <1>3, BurnKeeps DEF Burn, Said, boundVars
<1> QED
  BY <1>1, <1>2, <1>3 DEF Step

(* An ALLOW to the current call. *)
LEMMA AllowIsEarned ==
    ASSUME HInv, NEW w \in Threads, Step(w), Answer(w, Said(w)), UNCHANGED changes,
           HarnessEnforced, serves[w] = Id, Said(w) = "ALLOW"
    PROVE  /\ ~stopped
           /\ asked.kind = "apply" =>
                 /\ \E j \in DOMAIN granted' :
                        granted'[j].req = asked /\ granted'[j].boot = boots
                 /\ ~overlap' => \A i \in DOMAIN changes : changes[i] # Due
<1>1. pc[w] \in {"call", "verify", "burn"} /\ (pc[w] = "burn" => overlap' = overlap)
  BY StepShape DEF HInv
<1>2. serves[w] # NoId /\ serves[w][1] = calls
  BY ClientAssumption DEF Id, HInv, ClientInv, ClientTypes
<1>3. req[w] = asked /\ (stopped => gated[w] /\ breaker)
  BY <1>2 DEF HInv, ClientInv, AttemptInv
<1>4. pc[w] # "verify"
  BY DEF Said
<1>5. ~stopped
  <2>1. CASE pc[w] = "call"
    BY <1>3, <2>1 DEF Said, Verdict
  <2>2. CASE pc[w] = "burn"
    BY <1>3, <2>2 DEF HInv, GateInv, ThreadInv
  <2> QED
    BY <1>1, <1>4, <2>1, <2>2
<1>6. ASSUME asked.kind = "apply"
      PROVE  /\ \E j \in DOMAIN granted' : granted'[j].req = asked /\ granted'[j].boot = boots
             /\ ~overlap' => \A i \in DOMAIN changes : changes[i] # Due
  <2>1. pc[w] = "burn"
    BY <1>1, <1>3, <1>4, <1>6, VerdictOfApply DEF Said, HInv
  <2> DEFINE g == [req |-> req[w], halted |-> gated[w], boot |-> boots]
  <2>2. granted' = Append(granted, g)
    BY <1>3, <1>6 DEF Answer
  <2>3. granted \in Seq(Grant) /\ req[w] \in Asks
    BY <1>1 DEF HInv, GateInv, GateTypes, ThreadInv
  <2>4. g \in Grant /\ g.req = asked /\ g.boot = boots
    BY <1>3, <2>3 DEF HInv, GateInv, GateTypes, Grant
  <2> HIDE DEF g
  <2>5. Len(granted) + 1 \in DOMAIN granted' /\ granted'[Len(granted) + 1] = g
    BY <2>2, <2>3, <2>4
  <2>6. ~overlap' => asked.cmd.nonce \notin used
    BY <1>1, <1>3, <2>1 DEF HInv, GateInv, ThreadInv
  <2>7. ASSUME ~overlap', NEW i \in DOMAIN changes, changes[i] = Due
        PROVE  FALSE
    <3>1. PICK j \in DOMAIN granted : granted[j].req = asked /\ granted[j].boot = boots
      BY <2>7 DEF HInv, ClientInv, ChangeInv, Backed, Due
    <3>2. granted[j].req.cmd.nonce \in used
      BY <3>1 DEF HInv, GateInv, GrantInv
    <3> QED
      BY <2>6, <2>7, <3>1, <3>2
  <2> QED
    BY <2>4, <2>5, <2>7
<1> QED
  BY <1>5, <1>6

LEMMA ServeKeeps ==
    ASSUME HInv, NEW w \in Threads, Serve(w)
    PROVE  HInv'
<1>1. /\ Step(w) /\ UNCHANGED <<callVars, wire, stopped>>
      /\ serves' = IF pc'[w] = "idle" THEN [serves EXCEPT ![w] = NoId] ELSE serves
      /\ reply' = IF pc'[w] = "idle" /\ client = "wait" /\ serves[w] = Id
                  THEN Said(w) ELSE reply
  BY DEF Serve
<1>2. /\ GateInv' /\ UNCHANGED <<breaker, boots>> /\ (overlap => overlap')
      /\ pc[w] \in {"call", "verify", "burn"}
      /\ Goto(w, "verify") \/ Goto(w, "burn") \/ Answer(w, Said(w))
  BY <1>1, StepShape DEF HInv
<1>3. UNCHANGED <<client, asked, attempt, nonce, calls, outcome, changes>>
  BY <1>1 DEF callVars
<1>4. /\ pc \in [Threads -> {"idle", "call", "verify", "burn"}]
      /\ req \in [Threads -> Asks \cup {NoRequest}] /\ gated \in [Threads -> BOOLEAN]
      /\ granted \in Seq(Grant)
  BY DEF HInv, GateInv, GateTypes
<1>5. ClientTypes'
  BY <1>1, <1>3 DEF HInv, ClientInv, ClientTypes
<1>6. CASE Goto(w, "verify") \/ Goto(w, "burn")
  <2>1. /\ pc'[w] # "idle" /\ \A v \in Threads \ {w} : pc'[v] = pc[v]
        /\ UNCHANGED <<req, gated, granted>>
    BY <1>4, <1>6 DEF Goto
  <2>2. serves' = serves /\ reply' = reply
    BY <1>1, <2>1
  <2>3. AttemptInv'
    BY <1>1, <1>2, <1>3, <2>1, <2>2 DEF HInv, ClientInv, AttemptInv
  <2>4. ReplyInv' /\ ChangeInv' /\ HaltStopsLoop'
    BY <1>1, <1>2, <1>3, <2>1, <2>2
       DEF HInv, ClientInv, ReplyInv, ChangeInv, Backed, Due, HaltStopsLoop, HarnessEnforced
  <2> QED
    BY <1>2, <1>5, <2>3, <2>4 DEF HInv, ClientInv
<1>7. CASE Answer(w, Said(w))
  <2>1. /\ pc'[w] = "idle" /\ \A v \in Threads \ {w} : /\ pc'[v] = pc[v] /\ req'[v] = req[v]
                                                      /\ gated'[v] = gated[v]
    BY <1>4, <1>7 DEF Answer
  <2>2. \A j \in DOMAIN granted : j \in DOMAIN granted' /\ granted'[j] = granted[j]
    BY <1>4, <1>7 DEF Answer
  <2>3. serves'[w] = NoId /\ \A v \in Threads \ {w} : serves'[v] = serves[v]
    BY <1>1, <2>1 DEF HInv, ClientInv, ClientTypes
  <2>4. AttemptInv'
    BY <1>1, <1>2, <1>3, <2>1, <2>3 DEF HInv, ClientInv, AttemptInv
  <2>5. ChangeInv' /\ HaltStopsLoop'
    BY <1>2, <1>3, <2>2 DEF HInv, ClientInv, ChangeInv, Backed, HaltStopsLoop, HarnessEnforced
  <2>6. ReplyInv'
    <3>1. CASE reply' = reply
      <4>1. Backed(Due) => Backed(Due)'
        BY <1>2, <1>3, <2>2 DEF Backed, Due
      <4>2. Due' = Due
        BY <1>2, <1>3 DEF Due
      <4> QED
        BY <1>1, <1>2, <1>3, <3>1, <4>1, <4>2 DEF HInv, ClientInv, ReplyInv, HarnessEnforced
    <3>2. CASE client = "wait" /\ serves[w] = Id /\ reply' = Said(w)
      <4>1. HarnessEnforced /\ Said(w) = "ALLOW" =>
              /\ ~stopped
              /\ asked.kind = "apply" =>
                    /\ \E j \in DOMAIN granted' :
                           granted'[j].req = asked /\ granted'[j].boot = boots
                    /\ ~overlap' => \A i \in DOMAIN changes : changes[i] # Due
        BY <1>1, <1>3, <1>7, <3>2, AllowIsEarned
      <4>2. Due' = Due /\ Due.req = asked /\ Due.boot = boots
        BY <1>2, <1>3 DEF Due
      <4> QED
        BY <1>1, <1>2, <1>3, <3>2, <4>1, <4>2 DEF ReplyInv, Backed, HarnessEnforced
    <3> QED
      BY <1>1, <2>1, <3>1, <3>2
  <2> QED
    BY <1>2, <1>5, <2>4, <2>5, <2>6 DEF HInv, ClientInv
<1> QED
  BY <1>2, <1>6, <1>7

(* The operator, the clock, and the end of the process. *)
LEMMA AroundKeeps ==
    ASSUME HInv, Surroundings
    PROVE  HInv'
<1>1. UNCHANGED <<client, asked, attempt, nonce, calls, outcome, changes>>
  BY DEF Surroundings, callVars
<1>2. CASE Configure \/ Switch \/ Tick
  <2>1. GateInv'
    BY <1>2, SurroundingsKeep DEF HInv
  <2>2. /\ UNCHANGED <<pc, req, granted, overlap, boots>>
        /\ \/ UNCHANGED <<breaker, gated>>
           \/ gated' = [w \in Threads |-> gated[w] /\ breaker']
    BY <1>2 DEF Configure, Switch, Tick, threadVars
  <2>3. UNCHANGED <<wire, serves, reply>> /\ stopped' = (stopped /\ breaker')
    BY <2>2 DEF Surroundings
  <2>4. ClientTypes'
    BY <1>1, <2>1, <2>3 DEF HInv, ClientInv, ClientTypes, GateInv, GateTypes
  <2>5. AttemptInv'
    BY <1>1, <2>2, <2>3 DEF HInv, ClientInv, AttemptInv
  <2>6. ReplyInv' /\ ChangeInv' /\ HaltStopsLoop'
    BY <1>1, <2>2, <2>3
       DEF HInv, ClientInv, ReplyInv, ChangeInv, Backed, Due, HaltStopsLoop, HarnessEnforced
  <2> QED
    BY <2>1, <2>4, <2>5, <2>6 DEF HInv, ClientInv
<1>3. CASE Restart
  <2>1. GateInv'
    BY <1>3, RestartKeeps DEF HInv
  <2>2. boots' # boots /\ breaker' = FALSE /\ UNCHANGED <<granted, overlap>>
    BY <1>3 DEF Restart, HInv, GateInv, GateTypes
  <2>3. /\ wire' = {} /\ serves' = [w \in Threads |-> NoId] /\ reply' = NoReply
        /\ stopped' = FALSE
    BY <2>2 DEF Surroundings
  <2>4. ClientTypes' /\ AttemptInv'
    BY <1>1, <2>3 DEF HInv, ClientInv, ClientTypes, AttemptInv
  <2>5. ReplyInv'
    BY <2>3, ClientAssumption DEF ReplyInv
  <2>6. ChangeInv' /\ HaltStopsLoop'
    BY <1>1, <2>2 DEF HInv, ClientInv, ChangeInv, Backed, HaltStopsLoop, HarnessEnforced
  <2> QED
    BY <2>1, <2>4, <2>5, <2>6 DEF HInv, ClientInv
<1> QED
  BY <1>2, <1>3 DEF Surroundings

LEMMA HInvStep == HInv /\ [ClientNext]_allVars => HInv'
<1> SUFFICES ASSUME HInv, [ClientNext]_allVars PROVE HInv'
  OBVIOUS
<1>1. ASSUME NEW kind \in {"explore", "apply"}, Run(kind) PROVE HInv'
  BY <1>1, RunKeeps
<1>2. CASE RunAgain
  BY <1>2, RunAgainKeeps
<1>3. CASE Post \/ TakeReply \/ Timeout
  BY <1>3, PostKeeps, TakeReplyKeeps, TimeoutKeeps
<1>4. ASSUME NEW w \in Threads, Deliver(w) \/ OtherCaller(w) \/ Serve(w) PROVE HInv'
  BY <1>4, DeliverKeeps, OtherCallerKeeps, ServeKeeps
<1>5. CASE Surroundings
  BY <1>5, AroundKeeps
<1>6. CASE UNCHANGED allVars
  <2>1. UNCHANGED <<vars, client, asked, attempt, nonce, calls, outcome, changes, wire,
                    serves, reply, stopped>>
    BY <1>6 DEF allVars, clientVars
  <2>2. UNCHANGED <<breaker, pc, req, gated, granted, overlap, boots>>
    BY <2>1 DEF vars, threadVars, boundVars
  <2>3. GateInv'
    BY <2>1, GateKept DEF HInv
  <2>4. ClientTypes' /\ AttemptInv'
    BY <2>1, <2>2 DEF HInv, ClientInv, ClientTypes, AttemptInv
  <2>5. ReplyInv' /\ ChangeInv' /\ HaltStopsLoop'
    BY <2>1, <2>2
       DEF HInv, ClientInv, ReplyInv, ChangeInv, Backed, Due, HaltStopsLoop, HarnessEnforced
  <2> QED
    BY <2>3, <2>4, <2>5 DEF HInv, ClientInv
<1> QED
  BY <1>1, <1>2, <1>3, <1>4, <1>5, <1>6 DEF ClientNext

LEMMA HInvHolds == ClientSpec => []HInv
BY ClientInit0, HInvStep, PTL DEF ClientSpec

(* The gate allows a change only to a request with a command for this very *)
(* body, by a key on record, outside a halt, and one change a command      *)
(* unless two requests raced through the check; for any threads, callers,  *)
(* keys and restarts.                                                      *)
THEOREM GateNeedsOperator == ClientSpec => []ApplyNeedsOperator
<1>1. HInv => ApplyNeedsOperator
  BY GateInvSuffices DEF HInv
<1> QED
  BY <1>1, HInvHolds, PTL

(* A call of may_apply that runs entirely under a halt is refused, however *)
(* many attempts and answers from before it are still on their way.        *)
THEOREM HaltReachesLoop == ClientSpec => []HaltStopsLoop
<1>1. HInv => HaltStopsLoop
  BY DEF HInv, ClientInv
<1> QED
  BY <1>1, HInvHolds, PTL

(* The loop changes only what the gate granted, and once for each command  *)
(* in a life of the gateway unless two requests raced through the check,   *)
(* however often the command is sent.                                      *)
THEOREM ChangesAreGranted == ClientSpec => []ChangeIsGranted
<1>1. HInv => ChangeIsGranted
  BY DEF HInv, ClientInv, ChangeInv, Backed, ChangeIsGranted
<1> QED
  BY <1>1, HInvHolds, PTL

-----------------------------------------------------------------------------
(* Why a call that nothing disturbs is granted. *)

Carries(r, n) == r.cmd \in Command /\ r.cmd.nonce = n

(* The loop has given this nonce to a command already, or never will. *)
Given(n) == n <= nonce \/ n > MaxCalls

(* Every nonce under way or burnt has been given out. *)
NonceInv ==
    /\ nonce <= calls /\ calls <= MaxCalls
    /\ asked \in Asks /\ asked.cmd \in Command => Given(asked.cmd.nonce)
    /\ \A m \in wire : m.req.cmd \in Command => Given(m.req.cmd.nonce)
    /\ \A w \in Threads : pc[w] # "idle" /\ req[w].cmd \in Command => Given(req[w].cmd.nonce)
    /\ \A n \in used : Given(n)

(* The attempt is one of the current call. *)
Ours(id) == id # NoId /\ id[1] = calls

Quiet == (\A m \in wire : ~Ours(m.id)) /\ (\A w \in Threads : ~Ours(serves[w]))

(* What the loop asks for would be granted now, and nobody else has a      *)
(* command with its nonce.                                                 *)
Grantable ==
    /\ ~breaker /\ asked.policy /\ ~asked.override
    /\ asked.kind = "apply" =>
          /\ asked.cmd \in Command /\ asked.cmd.scope = Scope /\ asked.cmd.body = asked.body
          /\ asked.cmd.stamp = clock /\ asked.cmd.signer \in ActivePems(ring, clock)
          /\ asked.cmd.nonce = nonce /\ nonce > 0
          /\ \A m \in wire : Carries(m.req, nonce) => Ours(m.id)
          /\ \A w \in Threads : pc[w] # "idle" /\ Carries(req[w], nonce) => Ours(serves[w])
          /\ nonce \in used => reply # NoReply

(* The call has one attempt, on the wire, in a thread, or answered. *)
OneAttempt ==
    /\ client # "idle"
    /\ client = "send" => Quiet /\ attempt = 0
    /\ client = "wait" => attempt = 1
    /\ \A m \in wire : Ours(m.id) => m.id = <<calls, 1>>
    /\ \A w \in Threads : Ours(serves[w]) => /\ serves[w] = <<calls, 1>>
                                             /\ allow[w] = ActivePems(ring, clock)
    /\ \A v, w \in Threads : Ours(serves[v]) /\ Ours(serves[w]) => v = w
    /\ \A m \in wire, w \in Threads : ~(Ours(m.id) /\ Ours(serves[w]))
    /\ reply # NoReply => reply = "ALLOW" /\ Quiet

CalmInv ==
    /\ smooth \in BOOLEAN /\ NonceInv /\ NoSpuriousRefusal
    /\ smooth /\ HarnessEnforced => Grantable /\ OneAttempt

LEMMA CalmInit == ClientInit => CalmInv
<1> SUFFICES ASSUME ClientInit PROVE CalmInv
  OBVIOUS
<1>1. NonceInv
  <2>1. asked \notin Asks
    BY AskShape DEF ClientInit
  <2> QED
    BY <2>1, ClientAssumption DEF ClientInit, Init, NonceInv
<1>2. NoSpuriousRefusal /\ smooth = FALSE
  BY DEF ClientInit, NoSpuriousRefusal, NoOutcome
<1> QED
  BY <1>1, <1>2 DEF CalmInv

(* What the steps need of the types. *)
LEMMA NumberTypes ==
    ASSUME HInv
    PROVE  /\ nonce \in Nat /\ calls \in Nat /\ attempt \in Nat /\ clock \in Nat
           /\ MaxCalls \in Nat /\ used \subseteq Nat
           /\ \A m \in wire : m.id \in Attempt /\ m.req \in Asks
           /\ \A w \in Threads : pc[w] # "idle" => req[w] \in Asks
BY ClientAssumption DEF HInv, GateInv, GateTypes, ThreadInv, ClientInv, ClientTypes

LEMMA CommandNonce ==
    ASSUME NEW c \in Command
    PROVE  c.nonce \in Nat
BY DEF Command

(* A call begins: nothing that is under way is part of it. *)
LEMMA CallCalm ==
    ASSUME HInv, CalmInv, NEW r \in Asks, Call(r), nonce' \in {nonce, nonce + 1},
           r.cmd \in Command => r.cmd.nonce <= nonce' \/ r.cmd.nonce > MaxCalls
    PROVE  /\ NonceInv' /\ NoSpuriousRefusal' /\ Quiet'
           /\ client' = "send" /\ attempt' = 0 /\ reply' = NoReply /\ asked' = r
           /\ calls' \in Nat /\ calls' <= MaxCalls /\ nonce <= calls
           /\ \A m \in wire' : ~Ours(m.id)'
           /\ \A w \in Threads : ~Ours(serves[w])'
           /\ UNCHANGED <<ring, used, breaker, pc, req, allow, clock, wire, serves>>
<1>1. /\ client = "idle" /\ calls' = calls + 1 /\ calls < MaxCalls /\ client' = "send"
      /\ asked' = r /\ attempt' = 0 /\ outcome' = NoOutcome
      /\ UNCHANGED <<vars, wire, serves, reply>>
  BY DEF Call
<1>2. UNCHANGED <<ring, used, breaker, pc, req, allow, clock>>
  BY <1>1 DEF vars, threadVars, boundVars
<1>3. reply' = NoReply
  BY <1>1 DEF HInv, ClientInv, ReplyInv
<1>4. nonce \in Nat /\ calls \in Nat /\ MaxCalls \in Nat /\ nonce <= calls
  BY NumberTypes DEF CalmInv, NonceInv
<1>5. calls' <= MaxCalls /\ nonce' <= calls' /\ calls' \in Nat /\ nonce <= nonce'
      /\ nonce' \in Nat
  BY <1>1, <1>4
<1>6. \A n \in Nat : Given(n) => Given(n)'
  BY <1>4, <1>5 DEF Given
<1>7. NonceInv'
  <2>1. \A n \in used' : Given(n)'
    BY <1>2, <1>6, NumberTypes DEF CalmInv, NonceInv
  <2>2. \A m \in wire' : m.req.cmd \in Command => Given(m.req.cmd.nonce)'
    BY <1>1, <1>6, CommandNonce DEF CalmInv, NonceInv
  <2>3. \A w \in Threads : pc'[w] # "idle" /\ req'[w].cmd \in Command
                               => Given(req[w].cmd.nonce)'
    BY <1>2, <1>6, CommandNonce DEF CalmInv, NonceInv
  <2>4. asked'.cmd \in Command => Given(asked.cmd.nonce)'
    BY <1>1 DEF Given
  <2> QED
    BY <1>5, <2>1, <2>2, <2>3, <2>4 DEF NonceInv
<1>8. /\ \A m \in wire' : ~Ours(m.id)'
      /\ \A w \in Threads : ~Ours(serves[w])'
  <2>1. \A m \in wire : m.id[1] <= calls /\ m.id[1] \in Nat
    BY NumberTypes DEF HInv, ClientInv, AttemptInv, Attempt
  <2>2. \A w \in Threads : serves[w] # NoId => serves[w][1] <= calls /\ serves[w][1] \in Nat
    BY DEF HInv, ClientInv, ClientTypes, AttemptInv, Attempt
  <2> QED
    BY <1>1, <1>4, <2>1, <2>2 DEF Ours
<1>9. NoSpuriousRefusal'
  BY <1>1 DEF NoSpuriousRefusal, NoOutcome, HarnessEnforced
<1> QED
  BY <1>1, <1>2, <1>3, <1>4, <1>5, <1>7, <1>8, <1>9 DEF Quiet

LEMMA RunCalm ==
    ASSUME HInv, CalmInv, NEW kind \in {"explore", "apply"}, Run(kind)
    PROVE  CalmInv'
<1> DEFINE c == [verb |-> "harness_apply", scope |-> Scope, body |-> "patch",
                 nonce |-> nonce + 1, stamp |-> clock, signer |-> HarnessKey]
           r == [kind |-> kind, policy |-> TRUE, override |-> FALSE, body |-> "patch",
                 cmd |-> SignedCmd(kind)]
           signs == HarnessKey # NoKey /\ kind = "apply"
<1>1. nonce \in Nat /\ clock \in Nat
  BY NumberTypes
<1>2. c \in Command /\ c # NoCmd
  BY <1>1, ClientAssumption, NoncesApart, CommandType
<1>3. /\ c.nonce = nonce + 1 /\ c.scope = Scope /\ c.body = "patch" /\ c.stamp = clock
      /\ c.signer = HarnessKey
  OBVIOUS
<1>4. SignedCmd(kind) = IF signs THEN c ELSE NoCmd
  BY DEF SignedCmd
<1> HIDE DEF c
<1>5. /\ Call(r) /\ nonce' = IF signs THEN nonce + 1 ELSE nonce
      /\ smooth' = Favourable(kind)
  BY <1>2, <1>4 DEF Run
<1>6. r \in Asks
  BY <1>2, <1>4 DEF Asks, LoopAsks
<1>7. /\ r.kind = kind /\ r.policy = TRUE /\ r.override = FALSE /\ r.body = "patch"
      /\ r.cmd = SignedCmd(kind)
  OBVIOUS
<1> HIDE DEF r
<1>8. r.cmd \in Command => r.cmd.nonce <= nonce' \/ r.cmd.nonce > MaxCalls
  BY <1>1, <1>3, <1>4, <1>5, <1>7, NoncesApart
<1>9. /\ NonceInv' /\ NoSpuriousRefusal' /\ Quiet'
      /\ client' = "send" /\ attempt' = 0 /\ reply' = NoReply /\ asked' = r
      /\ calls' \in Nat /\ calls' <= MaxCalls /\ nonce <= calls
      /\ \A m \in wire' : ~Ours(m.id)'
      /\ \A w \in Threads : ~Ours(serves[w])'
      /\ UNCHANGED <<ring, used, breaker, pc, req, allow, clock, wire, serves>>
  BY <1>5, <1>6, <1>8, CallCalm
<1>10. smooth' \in BOOLEAN
  BY <1>5 DEF Favourable, HInv, GateInv, GateTypes
<1>11. ASSUME smooth' PROVE Grantable' /\ OneAttempt'
  <2>1. ~breaker /\ (kind = "apply" => HarnessKey \in ActivePems(ring, clock))
    BY <1>5, <1>11 DEF Favourable
  <2>2. OneAttempt'
    BY <1>9 DEF OneAttempt
  <2>3. ASSUME kind = "apply"
        PROVE  /\ r.cmd = c /\ HarnessKey \in ActivePems(ring, clock)' /\ nonce' = nonce + 1
               /\ \A n \in Nat : Given(n) => n # nonce'
    <3>1. HarnessKey \in Keys
      BY <2>1, <2>3, ActiveAreKeys DEF HInv, GateInv, GateTypes
    <3>2. signs
      BY <2>3, <3>1, OperatorKeysAssumption
    <3>3. nonce + 1 <= MaxCalls
      <4>1. calls' = calls + 1 /\ calls < MaxCalls
        BY <1>5 DEF Call
      <4> QED
        BY <1>1, <1>9, <4>1, NumberTypes
    <3>4. \A n \in Nat : Given(n) => n # nonce + 1
      BY <1>1, <3>3, NumberTypes DEF Given
    <3>5. ActivePems(ring, clock)' = ActivePems(ring, clock)
      BY <1>9 DEF ActivePems, IsActive, IsExpired
    <3> QED
      BY <1>4, <1>5, <1>7, <2>1, <2>3, <3>2, <3>4, <3>5
  <2>4. ASSUME kind = "apply"
        PROVE  /\ \A m \in wire' : ~Carries(m.req, nonce')
               /\ \A w \in Threads : pc'[w] # "idle" => ~Carries(req'[w], nonce')
               /\ nonce' \notin used'
    BY <1>9, <2>3, <2>4, CommandNonce, NumberTypes DEF CalmInv, NonceInv, Carries
  <2>5. ASSUME kind = "apply"
        PROVE  (/\ asked.cmd \in Command /\ asked.cmd.scope = Scope
                /\ asked.cmd.body = asked.body
                /\ asked.cmd.stamp = clock /\ asked.cmd.signer \in ActivePems(ring, clock)
                /\ asked.cmd.nonce = nonce /\ nonce > 0)'
    BY <1>1, <1>2, <1>3, <1>7, <1>9, <2>3, <2>5
  <2>6. Grantable'
    BY <1>7, <1>9, <2>1, <2>4, <2>5 DEF Grantable, Carries
  <2> QED
    BY <2>2, <2>6
<1> QED
  BY <1>9, <1>10, <1>11 DEF CalmInv

LEMMA RunAgainCalm ==
    ASSUME HInv, CalmInv, RunAgain
    PROVE  CalmInv'
<1>1. asked \in Asks /\ Call(asked) /\ nonce' = nonce /\ smooth' = FALSE
  BY DEF RunAgain, HInv, ClientInv, ClientTypes
<1>2. asked.cmd \in Command => asked.cmd.nonce <= nonce' \/ asked.cmd.nonce > MaxCalls
  BY <1>1 DEF CalmInv, NonceInv, Given
<1>3. NonceInv' /\ NoSpuriousRefusal'
  BY <1>1, <1>2, CallCalm
<1> QED
  BY <1>1, <1>3 DEF CalmInv

(* The client gives up, goes on or sends: no nonce is given out or burnt. *)
LEMMA NonceKept ==
    ASSUME HInv, CalmInv, UNCHANGED <<vars, asked, nonce, calls>>,
           \A m \in wire' : m \in wire \/ m.req = asked, client # "idle"
    PROVE  NonceInv'
<1>1. UNCHANGED <<used, pc, req>>
  BY DEF vars, threadVars, boundVars
<1>2. asked \in Asks
  BY DEF HInv, ClientInv, ClientTypes
<1>3. \A n : Given(n)' <=> Given(n)
  BY DEF Given
<1> QED
  BY <1>1, <1>2, <1>3 DEF CalmInv, NonceInv

LEMMA ReturnCalm ==
    ASSUME HInv, CalmInv, NEW ok \in BOOLEAN, NEW calm \in BOOLEAN, Return(ok, calm),
           client # "idle", UNCHANGED <<vars, wire>>,
           smooth /\ calm /\ HarnessEnforced => ok
    PROVE  CalmInv'
<1>1. /\ outcome'.ok = ok /\ outcome'.smooth = (smooth /\ calm) /\ smooth' = FALSE
      /\ UNCHANGED <<asked, nonce, calls>>
  BY DEF Return
<1>2. NonceInv'
  BY <1>1, NonceKept
<1>3. NoSpuriousRefusal'
  BY <1>1 DEF NoSpuriousRefusal, HarnessEnforced
<1> QED
  BY <1>1, <1>2, <1>3 DEF CalmInv

LEMMA TryAgainCalm ==
    ASSUME HInv, CalmInv, NEW n \in Nat, TryAgain(n), client # "idle", UNCHANGED <<vars, wire>>
    PROVE  CalmInv'
<1>1. CASE Return(FALSE, FALSE)
  BY <1>1, ReturnCalm
<1>2. CASE smooth' = FALSE /\ UNCHANGED <<asked, nonce, calls, outcome>>
  <2>1. NonceInv'
    BY <1>2, NonceKept
  <2> QED
    BY <1>2, <2>1 DEF CalmInv, NoSpuriousRefusal, HarnessEnforced
<1> QED
  BY <1>1, <1>2 DEF TryAgain

LEMMA PostCalm ==
    ASSUME HInv, CalmInv, Post
    PROVE  CalmInv'
<1>1. client = "send" /\ UNCHANGED <<vars, serves, reply>> /\ attempt + 1 \in Nat
  BY NumberTypes DEF Post
<1> DEFINE m == [id |-> <<calls, attempt + 1>>, req |-> asked]
<1>2. CASE /\ client' = "wait" /\ attempt' = attempt + 1 /\ wire' = wire \cup {m}
           /\ UNCHANGED <<asked, nonce, calls, outcome, smooth>>
  <2>1. m.req = asked /\ m.id = <<calls, attempt + 1>> /\ m.id[1] = calls
    OBVIOUS
  <2> HIDE DEF m
  <2>2. NonceInv'
    BY <1>1, <1>2, <2>1, NonceKept
  <2>3. UNCHANGED <<ring, used, breaker, pc, req, allow, clock>>
    BY <1>1 DEF vars, threadVars, boundVars
  <2>4. \A id : Ours(id)' <=> Ours(id)
    BY <1>2 DEF Ours
  <2>5. m.id # NoId
    BY <1>1, <2>1, ClientAssumption, NumberTypes
  <2>6. reply = NoReply
    BY <1>1 DEF HInv, ClientInv, ReplyInv
  <2>7. ASSUME smooth, HarnessEnforced PROVE Grantable' /\ OneAttempt'
    <3>1. Grantable /\ OneAttempt /\ attempt = 0 /\ Quiet
      BY <1>1, <2>7 DEF CalmInv, OneAttempt
    <3>2. Grantable'
      <4>1. ActivePems(ring, clock)' = ActivePems(ring, clock)
        BY <2>3 DEF ActivePems, IsActive, IsExpired
      <4>3. Ours(m.id)
        BY <2>1, <2>5 DEF Ours
      <4>4. asked.kind = "apply" => \A x \in wire' : Carries(x.req, nonce)' => Ours(x.id)'
        BY <1>2, <2>4, <3>1, <4>3 DEF Grantable, Carries
      <4>5. asked.kind = "apply" =>
              \A w \in Threads : pc'[w] # "idle" /\ Carries(req[w], nonce)' => Ours(serves[w])'
        BY <1>1, <1>2, <2>3, <2>4, <3>1 DEF Grantable, Carries
      <4> QED
        BY <1>1, <1>2, <2>3, <3>1, <4>1, <4>4, <4>5 DEF Grantable
    <3>3. OneAttempt'
      <4>1. \A w \in Threads : ~Ours(serves[w])'
        BY <1>1, <2>4, <3>1 DEF Quiet
      <4>2. \A x \in wire' : Ours(x.id)' => x = m
        BY <1>2, <2>4, <3>1 DEF Quiet
      <4>3. m.id = <<calls', 1>> /\ attempt' = 1
        BY <1>2, <2>1, <3>1
      <4> QED
        BY <1>1, <1>2, <2>6, <4>1, <4>2, <4>3 DEF OneAttempt
    <3> QED
      BY <3>2, <3>3
  <2> QED
    BY <1>2, <2>2, <2>7 DEF CalmInv, NoSpuriousRefusal, HarnessEnforced
<1>3. CASE TryAgain(attempt + 1) /\ UNCHANGED wire
  BY <1>1, <1>3, TryAgainCalm
<1>4. CASE Return(FALSE, FALSE) /\ UNCHANGED wire
  BY <1>1, <1>4, ReturnCalm
<1> QED
  BY <1>2, <1>3, <1>4 DEF Post

LEMMA AnswerCalm ==
    ASSUME HInv, CalmInv, TakeReply \/ Timeout
    PROVE  CalmInv'
<1>1. client = "wait" /\ UNCHANGED <<vars, wire>> /\ attempt \in Nat
  BY NumberTypes DEF TakeReply, Timeout
<1>2. CASE TakeReply
  <2>1. MayApply(reply) \in BOOLEAN
    BY DEF MayApply
  <2>2. smooth /\ HarnessEnforced => MayApply(reply)
    BY <1>2 DEF TakeReply, CalmInv, OneAttempt, MayApply
  <2>3. Return(MayApply(reply), TRUE) \/ Return(FALSE, FALSE)
    BY <1>2 DEF TakeReply
  <2> QED
    BY <1>1, <2>1, <2>2, <2>3, ReturnCalm
<1>3. CASE Timeout
  BY <1>1, <1>3, TryAgainCalm DEF Timeout
<1> QED
  BY <1>2, <1>3

(* A request reaches a thread: other callers' commands have other nonces. *)
LEMMA ReceiveNonces ==
    ASSUME HInv, CalmInv, NEW w \in Threads, NEW r \in Asks, Receive(w, r),
           r.cmd \in Command => Given(r.cmd.nonce),
           UNCHANGED <<asked, nonce, calls, outcome>>, wire' \subseteq wire
    PROVE  /\ NonceInv' /\ NoSpuriousRefusal'
           /\ pc[w] = "idle" /\ serves[w] = NoId
           /\ \A v \in Threads : pc'[v] # "idle" => req'[v] = IF v = w THEN r ELSE req[v]
           /\ \A v \in Threads : allow'[v] = IF v = w THEN ActivePems(ring, clock) ELSE allow[v]
           /\ \A v \in Threads : v # w => pc'[v] = pc[v]
           /\ UNCHANGED <<ring, used, breaker, clock>>
           /\ ActivePems(ring, clock)' = ActivePems(ring, clock)
           /\ \A id : Ours(id)' <=> Ours(id)
<1>1. /\ pc[w] = "idle" /\ pc' = [pc EXCEPT ![w] = "call"] /\ req' = [req EXCEPT ![w] = r]
      /\ allow' = [allow EXCEPT ![w] = ActivePems(ring, clock)]
      /\ UNCHANGED <<ring, used, breaker, clock>>
  BY DEF Receive
<1>2. /\ \A v \in Threads : pc'[v] # "idle" => req'[v] = IF v = w THEN r ELSE req[v]
      /\ \A v \in Threads : allow'[v] = IF v = w THEN ActivePems(ring, clock) ELSE allow[v]
      /\ \A v \in Threads : v # w => pc'[v] = pc[v]
  BY <1>1 DEF HInv, GateInv, GateTypes
<1>3. \A n : Given(n)' <=> Given(n)
  BY DEF Given
<1>4. NonceInv'
  BY <1>1, <1>2, <1>3 DEF CalmInv, NonceInv
<1>5. NoSpuriousRefusal'
  BY DEF CalmInv, NoSpuriousRefusal, HarnessEnforced
<1>6. serves[w] = NoId
  BY <1>1 DEF HInv, ClientInv, AttemptInv
<1>7. ActivePems(ring, clock)' = ActivePems(ring, clock)
  BY <1>1 DEF ActivePems, IsActive, IsExpired
<1>8. \A id : Ours(id)' <=> Ours(id)
  BY DEF Ours
<1> QED
  BY <1>1, <1>2, <1>4, <1>5, <1>6, <1>7, <1>8

LEMMA DeliverCalm ==
    ASSUME HInv, CalmInv, NEW w \in Threads, Deliver(w)
    PROVE  CalmInv'
<1>1. PICK m \in wire :
            /\ Receive(w, m.req)
            /\ wire' = wire \ {m} /\ serves' = [serves EXCEPT ![w] = m.id]
            /\ UNCHANGED <<callVars, reply, smooth>>
  BY DEF Deliver
<1>2. UNCHANGED <<client, asked, attempt, nonce, calls, outcome>>
  BY <1>1 DEF callVars
<1>3. m.req \in Asks /\ (m.req.cmd \in Command => Given(m.req.cmd.nonce))
  BY NumberTypes DEF CalmInv, NonceInv
<1>4. /\ NonceInv' /\ NoSpuriousRefusal'
      /\ pc[w] = "idle" /\ serves[w] = NoId
      /\ \A v \in Threads : pc'[v] # "idle" => req'[v] = IF v = w THEN m.req ELSE req[v]
      /\ \A v \in Threads : allow'[v] = IF v = w THEN ActivePems(ring, clock) ELSE allow[v]
      /\ \A v \in Threads : v # w => pc'[v] = pc[v]
      /\ UNCHANGED <<ring, used, breaker, clock>>
      /\ ActivePems(ring, clock)' = ActivePems(ring, clock)
      /\ \A id : Ours(id)' <=> Ours(id)
  BY <1>1, <1>2, <1>3, ReceiveNonces
<1>5. \A v \in Threads : serves'[v] = IF v = w THEN m.id ELSE serves[v]
  BY <1>1 DEF HInv, ClientInv, ClientTypes
<1>6. ASSUME smooth, HarnessEnforced PROVE Grantable' /\ OneAttempt'
  <2>1. Grantable /\ OneAttempt
    BY <1>6 DEF CalmInv
  <2>2. Grantable'
    <3>1. asked.kind = "apply" => \A x \in wire' : Carries(x.req, nonce)' => Ours(x.id)'
      BY <1>1, <1>2, <1>4, <2>1 DEF Grantable, Carries
    <3>2. asked.kind = "apply" =>
            \A v \in Threads : pc'[v] # "idle" /\ Carries(req[v], nonce)' => Ours(serves[v])'
      <4> SUFFICES ASSUME asked.kind = "apply", NEW v \in Threads, pc'[v] # "idle",
                          Carries(req'[v], nonce)
                   PROVE  Ours(serves'[v])
        BY <1>2, <1>4 DEF Carries, Ours
      <4>1. CASE v = w
        BY <1>4, <1>5, <2>1, <4>1 DEF Grantable
      <4>2. CASE v # w
        BY <1>4, <1>5, <2>1, <4>2 DEF Grantable
      <4> QED
        BY <4>1, <4>2
    <3> QED
      BY <1>1, <1>2, <1>4, <2>1, <3>1, <3>2 DEF Grantable
  <2>3. \A x \in wire' : ~(Ours(x.id) /\ Ours(m.id))
    <3> SUFFICES ASSUME NEW x \in wire, Ours(x.id), Ours(m.id) PROVE x = m
      BY <1>1
    <3>1. x.id = m.id
      BY <2>1 DEF OneAttempt
    <3>2. x.req = asked /\ m.req = asked
      BY DEF Ours, HInv, ClientInv, AttemptInv
    <3>3. x \in [id: Attempt, req: Asks] /\ m \in [id: Attempt, req: Asks]
      BY DEF HInv, ClientInv, ClientTypes
    <3> QED
      BY <3>1, <3>2, <3>3
  <2>4. Quiet => Quiet'
    BY <1>1, <1>4, <1>5 DEF Quiet
  <2>5. OneAttempt'
    BY <1>1, <1>2, <1>4, <1>5, <2>1, <2>3, <2>4 DEF OneAttempt
  <2> QED
    BY <2>2, <2>5
<1> QED
  BY <1>1, <1>4, <1>6 DEF CalmInv, HarnessEnforced

LEMMA OtherCallerCalm ==
    ASSUME HInv, CalmInv, NEW w \in Threads, OtherCaller(w)
    PROVE  CalmInv'
<1>1. PICK r \in Requests : Receive(w, r)
  BY DEF OtherCaller, AnyCaller
<1>2. UNCHANGED <<client, asked, attempt, nonce, calls, outcome, wire, serves, reply, smooth>>
  BY DEF OtherCaller, clientVars
<1>3. r.cmd \in Command => r.cmd.nonce \notin 1..MaxCalls /\ r.cmd.nonce \in Nat
  BY NoncesApart, CommandNonce
<1>4. r \in Asks /\ (r.cmd \in Command => Given(r.cmd.nonce))
  BY <1>3, NumberTypes DEF Asks, Given
<1>5. /\ NonceInv' /\ NoSpuriousRefusal'
      /\ pc[w] = "idle" /\ serves[w] = NoId
      /\ \A v \in Threads : pc'[v] # "idle" => req'[v] = IF v = w THEN r ELSE req[v]
      /\ \A v \in Threads : allow'[v] = IF v = w THEN ActivePems(ring, clock) ELSE allow[v]
      /\ \A v \in Threads : v # w => pc'[v] = pc[v]
      /\ UNCHANGED <<ring, used, breaker, clock>>
      /\ ActivePems(ring, clock)' = ActivePems(ring, clock)
      /\ \A id : Ours(id)' <=> Ours(id)
  BY <1>1, <1>2, <1>4, ReceiveNonces
<1>6. ASSUME smooth, HarnessEnforced PROVE Grantable' /\ OneAttempt'
  <2>1. Grantable /\ OneAttempt
    BY <1>6 DEF CalmInv
  <2>2. asked.kind = "apply" => ~Carries(r, nonce)
    BY <1>3, <2>1, NumberTypes DEF Grantable, Carries, CalmInv, NonceInv
  <2>3. asked.kind = "apply" =>
          \A v \in Threads : pc'[v] # "idle" /\ Carries(req'[v], nonce) => Ours(serves[v])
    BY <1>5, <2>1, <2>2 DEF Grantable
  <2>4. Grantable'
    BY <1>2, <1>5, <2>1, <2>3 DEF Grantable, Carries
  <2>5. Quiet' <=> Quiet
    BY <1>2, <1>5 DEF Quiet
  <2>6. ~Ours(serves[w])
    BY <1>5 DEF Ours
  <2>7. OneAttempt'
    BY <1>2, <1>5, <2>1, <2>5, <2>6 DEF OneAttempt
  <2> QED
    BY <2>4, <2>7
<1> QED
  BY <1>2, <1>5, <1>6 DEF CalmInv, HarnessEnforced

(* The gate answers the attempt of such a call: it is an ALLOW. *)
LEMMA CalmIsAllowed ==
    ASSUME HInv, Grantable, OneAttempt, HarnessEnforced, NEW w \in Threads, Step(w),
           Ours(serves[w]), pc'[w] = "idle"
    PROVE  Said(w) = "ALLOW"
<1>1. /\ req[w] = asked /\ allow[w] = ActivePems(ring, clock) /\ pc[w] # "idle"
      /\ reply = NoReply
  BY DEF Ours, OneAttempt, Quiet, HInv, ClientInv, AttemptInv
<1>2. asked.kind \in {"explore", "apply"} /\ pc \in [Threads -> {"idle", "call", "verify", "burn"}]
  BY <1>1, NumberTypes, AskShape DEF HInv, GateInv, GateTypes
<1>3. CASE Evaluate(w)
  <2>1. pc[w] = "call" /\ Said(w) = Verdict(w) /\ Verdict(w) # "verify"
    BY <1>2, <1>3 DEF Evaluate, Goto, Said
  <2>2. CASE asked.kind = "explore"
    BY <1>1, <2>1, <2>2 DEF Verdict, NeedsCommand, Decide, Grantable
  <2>3. CASE asked.kind = "apply"
    <3>1. NeedsCommand(w) /\ asked.cmd \notin {NoCmd, BadCmd}
      BY <1>1, <2>3, NoncesApart DEF NeedsCommand, Grantable
    <3> QED
      BY <1>1, <2>1, <3>1 DEF Verdict, Grantable
  <2> QED
    BY <1>2, <2>2, <2>3
<1>4. CASE Verify(w)
  <2>1. pc[w] = "verify" /\ ~Verified(w)
    BY <1>2, <1>4 DEF Verify, Goto
  <2>2. asked.kind = "apply"
    BY <1>1, <2>1 DEF HInv, GateInv, ThreadInv
  <2>3. Verified(w)
    <3>1. clock <= clock + MaxAge
      BY NumberTypes, OperatorKeysAssumption
    <3>2. nonce \notin used
      BY <1>1, <2>2 DEF Grantable
    <3> QED
      BY <1>1, <2>2, <3>1, <3>2 DEF Grantable, Verified, VerifyCommand
  <2> QED
    BY <2>1, <2>3
<1>5. CASE Burn(w)
  BY <1>1, <1>5 DEF Burn, Said, Decide, Grantable
<1> QED
  BY <1>3, <1>4, <1>5 DEF Step

LEMMA ServeCalm ==
    ASSUME HInv, CalmInv, NEW w \in Threads, Serve(w)
    PROVE  CalmInv'
<1>1. /\ Step(w) /\ UNCHANGED <<callVars, wire, smooth>>
      /\ serves' = IF pc'[w] = "idle" THEN [serves EXCEPT ![w] = NoId] ELSE serves
      /\ reply' = IF pc'[w] = "idle" /\ client = "wait" /\ serves[w] = Id
                  THEN Said(w) ELSE reply
  BY DEF Serve
<1>2. UNCHANGED <<client, asked, attempt, nonce, calls, outcome>>
  BY <1>1 DEF callVars
<1>3. /\ pc[w] \in {"call", "verify", "burn"} /\ UNCHANGED breaker
      /\ Goto(w, "verify") \/ Goto(w, "burn") \/ Answer(w, Said(w))
  BY <1>1, StepShape DEF HInv
<1>4. /\ UNCHANGED <<ring, clock>>
      /\ used' = used \/ (pc[w] = "burn" /\ used' = used \cup {req[w].cmd.nonce})
  BY <1>1 DEF Step, Evaluate, Verify, Burn, boundVars
<1>5. /\ \A v \in Threads : v # w => pc'[v] = pc[v] /\ req'[v] = req[v] /\ allow'[v] = allow[v]
      /\ pc'[w] # "idle" => req'[w] = req[w] /\ allow'[w] = allow[w]
  BY <1>3 DEF Goto, Answer, HInv, GateInv, GateTypes
<1>6. \A v \in Threads : serves'[v] = IF v = w /\ pc'[w] = "idle" THEN NoId ELSE serves[v]
  BY <1>1 DEF HInv, ClientInv, ClientTypes
<1>7. /\ \A n : Given(n)' <=> Given(n)
      /\ \A id : Ours(id)' <=> Ours(id)
      /\ ActivePems(ring, clock)' = ActivePems(ring, clock)
  BY <1>2, <1>4 DEF Given, Ours, ActivePems, IsActive, IsExpired
<1>8. NonceInv'
  <2>1. pc[w] = "burn" => req[w].cmd \in Command
    BY DEF HInv, GateInv, ThreadInv
  <2>2. \A n \in used' : Given(n)
    BY <1>4, <2>1 DEF CalmInv, NonceInv
  <2>3. \A v \in Threads : pc'[v] # "idle" => pc[v] # "idle" /\ req'[v] = req[v]
    BY <1>3, <1>5
  <2> QED
    BY <1>1, <1>2, <1>7, <2>2, <2>3 DEF CalmInv, NonceInv
<1>9. NoSpuriousRefusal'
  BY <1>2 DEF CalmInv, NoSpuriousRefusal, HarnessEnforced
<1>10. ASSUME smooth, HarnessEnforced PROVE Grantable' /\ OneAttempt'
  <2>1. Grantable /\ OneAttempt
    BY <1>10 DEF CalmInv
  <2>2. Id # NoId /\ Id[1] = calls
    BY ClientAssumption, NumberTypes DEF Id
  <2>3. Ours(serves[w]) => client = "wait" /\ serves[w] = Id /\ reply = NoReply
    BY <2>1 DEF OneAttempt, Quiet, HInv, ClientInv, ClientTypes, Id
  <2>4. serves[w] = Id => Ours(serves[w])
    BY <2>2 DEF Ours
  <2>5. CASE Ours(serves[w]) /\ pc'[w] = "idle"
    <3>1. reply' = "ALLOW" /\ reply' # NoReply
      BY <1>1, <1>10, <2>1, <2>3, <2>5, CalmIsAllowed, ClientAssumption
    <3>2. /\ \A v \in Threads : ~Ours(serves'[v])
          /\ \A m \in wire : ~Ours(m.id)
      BY <1>6, <2>1, <2>5 DEF OneAttempt, Ours
    <3>3. Quiet'
      BY <1>1, <1>7, <3>2 DEF Quiet
    <3>4. OneAttempt'
      BY <1>1, <1>2, <1>7, <2>1, <3>1, <3>2, <3>3 DEF OneAttempt
    <3>5. asked.kind = "apply" =>
            \A v \in Threads : pc'[v] # "idle" /\ Carries(req[v], nonce)' => Ours(serves[v])'
      BY <1>2, <1>5, <1>6, <1>7, <2>1, <2>5 DEF Grantable, Carries
    <3>6. Grantable'
      BY <1>1, <1>2, <1>3, <1>4, <1>7, <2>1, <3>1, <3>5 DEF Grantable, Carries
    <3> QED
      BY <3>4, <3>6
  <2>6. CASE ~(Ours(serves[w]) /\ pc'[w] = "idle")
    <3>1. reply' = reply
      BY <1>1, <2>4, <2>6
    <3>2. \A v \in Threads : Ours(serves'[v]) <=> Ours(serves[v])
      BY <1>6, <2>6 DEF Ours
    <3>3. Quiet' <=> Quiet
      BY <1>1, <1>7, <3>2 DEF Quiet
    <3>4. \A v \in Threads : Ours(serves[v]) => allow'[v] = allow[v] /\ serves'[v] = serves[v]
      BY <1>5, <1>6, <2>6
    <3>5. OneAttempt'
      BY <1>1, <1>2, <1>7, <2>1, <3>1, <3>2, <3>3, <3>4 DEF OneAttempt
    <3>6. asked.kind = "apply" =>
            \A v \in Threads : pc'[v] # "idle" /\ Carries(req'[v], nonce) => Ours(serves[v])
      BY <1>3, <1>5, <2>1 DEF Grantable
    <3>7. asked.kind = "apply" /\ nonce \in used' => nonce \in used
      <4> SUFFICES ASSUME asked.kind = "apply", pc[w] = "burn", req[w].cmd.nonce = nonce
                   PROVE  FALSE
        BY <1>4
      <4>1. Carries(req[w], nonce)
        BY DEF Carries, HInv, GateInv, ThreadInv
      <4>2. pc'[w] = "idle"
        BY <1>1 DEF Step, Evaluate, Verify, Burn, Answer, HInv, GateInv, GateTypes
      <4> QED
        BY <2>1, <2>6, <4>1, <4>2 DEF Grantable
    <3>8. Grantable'
      BY <1>1, <1>2, <1>3, <1>4, <1>7, <2>1, <3>1, <3>2, <3>6, <3>7 DEF Grantable, Carries
    <3> QED
      BY <3>5, <3>8
  <2> QED
    BY <2>5, <2>6
<1> QED
  BY <1>1, <1>8, <1>9, <1>10 DEF CalmInv, HarnessEnforced

LEMMA AroundCalm ==
    ASSUME HInv, CalmInv, Surroundings
    PROVE  CalmInv'
<1>1. UNCHANGED <<client, asked, attempt, nonce, calls, outcome>> /\ smooth' = FALSE
  BY DEF Surroundings, callVars
<1>2. \A n : Given(n)' <=> Given(n)
  BY <1>1 DEF Given
<1>3. NonceInv'
  <2>1. wire' \subseteq wire
    BY DEF Surroundings
  <2>2. used' \subseteq used /\ \A w \in Threads : pc'[w] # "idle" => pc[w] # "idle" /\ req'[w] = req[w]
    BY DEF Surroundings, Configure, Switch, Tick, Restart, threadVars
  <2> QED
    BY <1>1, <1>2, <2>1, <2>2 DEF CalmInv, NonceInv
<1>4. NoSpuriousRefusal'
  BY <1>1 DEF CalmInv, NoSpuriousRefusal, HarnessEnforced
<1> QED
  BY <1>1, <1>3, <1>4 DEF CalmInv

LEMMA CalmStep == HInv /\ CalmInv /\ [ClientNext]_allVars => CalmInv'
<1> SUFFICES ASSUME HInv, CalmInv, [ClientNext]_allVars PROVE CalmInv'
  OBVIOUS
<1>1. ASSUME NEW kind \in {"explore", "apply"}, Run(kind) PROVE CalmInv'
  BY <1>1, RunCalm
<1>2. CASE RunAgain
  BY <1>2, RunAgainCalm
<1>3. CASE Post \/ TakeReply \/ Timeout
  BY <1>3, PostCalm, AnswerCalm
<1>4. ASSUME NEW w \in Threads, Deliver(w) \/ OtherCaller(w) \/ Serve(w) PROVE CalmInv'
  BY <1>4, DeliverCalm, OtherCallerCalm, ServeCalm
<1>5. CASE Surroundings
  BY <1>5, AroundCalm
<1>6. CASE UNCHANGED allVars
  <2>1. UNCHANGED <<vars, client, asked, attempt, nonce, calls, outcome, wire, serves, reply,
                    smooth>>
    BY <1>6 DEF allVars, clientVars
  <2>2. UNCHANGED <<ring, used, breaker, pc, req, allow, clock>>
    BY <2>1 DEF vars, threadVars, boundVars
  <2>3. NonceInv' /\ NoSpuriousRefusal'
    BY <2>1, <2>2 DEF CalmInv, NonceInv, Given, NoSpuriousRefusal, HarnessEnforced
  <2>4. Grantable => Grantable'
    BY <2>1, <2>2 DEF Grantable, Carries, Ours, ActivePems, IsActive, IsExpired
  <2>5. OneAttempt => OneAttempt'
    BY <2>1, <2>2 DEF OneAttempt, Quiet, Ours, ActivePems, IsActive, IsExpired
  <2> QED
    BY <2>1, <2>3, <2>4, <2>5 DEF CalmInv, HarnessEnforced
<1> QED
  BY <1>1, <1>2, <1>3, <1>4, <1>5, <1>6 DEF ClientNext

(* A call of may_apply during which nothing failed and nothing changed is  *)
(* granted by harness_authorize, for any threads, retries, restarts and    *)
(* earlier calls of the loop whose attempts are still on their way, and    *)
(* whatever other callers post with nonces of their own.                   *)
THEOREM LoopIsServed == ClientSpec => []NoSpuriousRefusal
<1>1. CalmInv => NoSpuriousRefusal
  BY DEF CalmInv
<1> QED
  BY <1>1, CalmInit, CalmStep, HInvHolds, PTL DEF ClientSpec
==============================================================================
