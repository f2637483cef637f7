-------------------------- MODULE PipelineRecords --------------------------
(***************************************************************************)
(* What AuthorizationPipeline writes down, for every value of its          *)
(* constants: the audit of the safety switch, the operators' statements in *)
(* the tenants' ledgers, the ledgers against the venue, and the evidence   *)
(* graph.                                                                  *)
(***************************************************************************)
EXTENDS PipelineProofs

-----------------------------------------------------------------------------
(* The safety switch and its audit. *)

(* The rows of the audit that name a nonce, and how many there are. *)
Rows(n) == {i \in DOMAIN audit : audit[i].nonce = n}
Uses(n) == Cardinality(Rows(n))

(* A nonce that this life of the process has not used leaves one use. *)
ReplayInv ==
    \A n \in Nat : Uses(n) <= IF n \in used[Safety] THEN boots + 1 ELSE boots

(* The rows can be counted. *)
LEMMA RowsCount ==
    ASSUME TypeOK, NEW n
    PROVE  IsFiniteSet(Rows(n)) /\ Uses(n) \in Nat
<1>1. audit \in Seq(AuditRow) /\ DOMAIN audit = 1..Len(audit) /\ Len(audit) \in Nat
  BY LenProperties DEF TypeOK
<1>2. IsFiniteSet(1..Len(audit)) /\ Rows(n) \subseteq 1..Len(audit)
  BY <1>1, FS_Interval DEF Rows
<1>3. IsFiniteSet(Rows(n))
  BY <1>2, FS_Subset
<1> QED
  BY <1>3, FS_CardinalityType DEF Uses

(* A step that writes no row leaves the nonces of the safety scope. *)
LEMMA ReplayFrame ==
    ASSUME ReplayInv, UNCHANGED <<audit, boots>>, used'[Safety] = used[Safety]
    PROVE  ReplayInv'
BY DEF ReplayInv, Uses, Rows

(* Only the safety endpoints burn a nonce of the safety scope. *)
LEMMA SafetyScope ==
    ASSUME TypeOK, [Next]_vars, ~SafetyVerb, ~Restart
    PROVE  UNCHANGED <<audit, boots, breaker>> /\ used'[Safety] = used[Safety]
<1>1. UNCHANGED <<audit, boots, breaker>>
  BY DEF Next, Handler, Gate, Evaluate, Execute, Arrive, KeyOperation, CreateTenant,
         Tick, vars, envVars
<1>2. CASE UNCHANGED used
  BY <1>1, <1>2
<1>3. CASE \E n : used' = [used EXCEPT ![T] = @ \cup {n}] /\ T \in Tenants
  BY <1>1, <1>3, PipelineAssumption DEF TypeOK, Scopes
<1>4. Gate => <1>2!1 \/ <1>3!1
  <2>1. GateAccept => pc # "idle"
    BY DEF GateAccept
  <2> QED
    BY <2>1, RequestType DEF Gate, GateDormant, GateRefuse, GateAccept, CheckBreaker
<1>5. Evaluate => <1>2!1 \/ <1>3!1
  <2>1. DowngradePartial \/ DowngradeRelease => pc # "idle"
    BY DEF DowngradePartial, DowngradeRelease
  <2> QED
    BY <2>1, RequestType
       DEF Evaluate, StructureRefuse, EpistemicRefuse, EpistemicPass, HygienePass,
           HygieneRefuse, DowngradeRefuse, DowngradePartial, DowngradeRelease,
           RiskRefuse, RiskPass, HumanRefuse, HumanPass
<1>6. ~Gate /\ ~Evaluate => UNCHANGED used
  BY DEF Next, Handler, Execute, Arrive, KeyOperation, CreateTenant, Tick, vars
<1> QED
  BY <1>2, <1>3, <1>4, <1>5, <1>6

(* Every step keeps the count of a nonce within the lives of the process. *)
LEMMA ReplayStep == TypeOK /\ ReplayInv /\ [Next]_vars => ReplayInv'
<1> SUFFICES ASSUME TypeOK, ReplayInv, [Next]_vars PROVE ReplayInv'
  OBVIOUS
<1>0. boots \in Nat /\ used \in [Scopes -> SUBSET Nat] /\ Safety \in Scopes
  BY DEF TypeOK, Scopes
<1>1. CASE ~SafetyVerb /\ ~Restart
  BY <1>1, SafetyScope, ReplayFrame
<1>2. CASE SafetyVerb
  <2>1. PICK r \in SafetyRequests, v \in {"halt", "resume"} :
           SafetyGate(v, r) /\ boots' = boots
    BY <1>2 DEF SafetyVerb, SafetyHalt, SafetyResume
  <2>2. CASE UNCHANGED <<used, audit>>
    BY <2>1, <2>2, ReplayFrame
  <2>3. CASE ~UNCHANGED <<used, audit>>
    <3> DEFINE k == r.cmd.nonce
               row == [verb |-> v, nonce |-> k]
    <3>1. /\ CommandOk(Safety, "safety body", r.cmd)
          /\ used' = [used EXCEPT ![Safety] = @ \cup {k}]
          /\ audit' = Append(audit, row)
      BY <2>1, <2>3 DEF SafetyGate
    <3>2. k \notin used[Safety]
      BY <3>1 DEF CommandOk, VerifyCommand
    <3>3. used'[Safety] = used[Safety] \cup {k}
      BY <1>0, <3>1
    <3>4. /\ audit \in Seq(AuditRow) /\ Len(audit) \in Nat /\ DOMAIN audit = 1..Len(audit)
          /\ DOMAIN audit' = 1..(Len(audit) + 1)
          /\ \A i \in 1..Len(audit) : audit'[i] = audit[i]
          /\ audit'[Len(audit) + 1].nonce = k
      <4>1. audit \in Seq(AuditRow) /\ row \in AuditRow
        <5>1. r.cmd \in Command({"safety body"})
          BY <3>1, PipelineAssumption DEF CommandOk
        <5>2. k \in Nat /\ v \in Verbs
          BY <5>1 DEF Command, Verbs
        <5> QED
          BY <5>2 DEF TypeOK, AuditRow
      <4>2. row.nonce = k
        OBVIOUS
      <4> HIDE DEF row
      <4>3. /\ Len(audit) \in Nat /\ DOMAIN audit = 1..Len(audit)
            /\ DOMAIN audit' = 1..(Len(audit) + 1)
            /\ \A i \in 1..Len(audit) : audit'[i] = audit[i]
            /\ audit'[Len(audit) + 1] = row
        <5>1. Len(audit) \in Nat /\ DOMAIN audit = 1..Len(audit)
          BY <4>1, LenProperties
        <5>2. /\ Append(audit, row) \in Seq(AuditRow)
              /\ Len(Append(audit, row)) = Len(audit) + 1
              /\ \A i \in 1..Len(audit) : Append(audit, row)[i] = audit[i]
              /\ Append(audit, row)[Len(audit) + 1] = row
          BY <4>1, AppendProperties
        <5>3. DOMAIN Append(audit, row) = 1..(Len(audit) + 1)
          BY <5>2, LenProperties
        <5> QED
          BY <3>1, <5>1, <5>2, <5>3
      <4> QED
        BY <4>1, <4>2, <4>3
    <3>5. ASSUME NEW n \in Nat
          PROVE  Uses(n)' <= IF n \in used'[Safety] THEN boots' + 1 ELSE boots'
      <4>1. IsFiniteSet(Rows(n)) /\ Uses(n) \in Nat
        BY RowsCount
      <4>2. CASE n = k
        <5>1. Rows(n)' = Rows(n) \cup {Len(audit) + 1}
          BY <3>4, <4>2 DEF Rows
        <5>2. Uses(n)' = Uses(n) \/ Uses(n)' = Uses(n) + 1
          BY <4>1, <5>1, OneMore DEF Uses
        <5>3. Uses(n) <= boots
          BY <3>2, <4>2 DEF ReplayInv
        <5>4. Uses(n)' <= boots' + 1
          BY <1>0, <2>1, <4>1, <5>2, <5>3
        <5> QED
          BY <3>3, <4>2, <5>4
      <4>3. CASE n # k
        <5>1. Rows(n)' = Rows(n)
          BY <3>4, <4>3 DEF Rows
        <5>2. n \in used'[Safety] <=> n \in used[Safety]
          BY <3>3, <4>3
        <5> QED
          BY <2>1, <5>1, <5>2 DEF ReplayInv, Uses
      <4> QED
        BY <4>2, <4>3
    <3> QED
      BY <3>5 DEF ReplayInv
  <2> QED
    BY <2>2, <2>3
<1>3. CASE Restart
  <2>1. /\ boots' = boots + 1 /\ used'[Safety] = {}
        /\ audit' = audit \/ audit' = <<>>
    BY <1>0, <1>3 DEF Restart
  <2>2. ASSUME NEW n \in Nat PROVE Uses(n)' <= boots'
    <3>1. Uses(n) \in Nat /\ (Uses(n) <= boots + 1 \/ Uses(n) <= boots)
      BY RowsCount DEF ReplayInv
    <3>2. CASE audit' = audit
      BY <1>0, <2>1, <3>1, <3>2 DEF Uses, Rows
    <3>3. CASE audit' = <<>>
      <4>1. Rows(n)' = {}
        BY <3>3 DEF Rows
      <4> QED
        BY <1>0, <2>1, <4>1, FS_EmptySet DEF Uses
    <3> QED
      BY <2>1, <3>2, <3>3
  <2> QED
    BY <2>1, <2>2 DEF ReplayInv
<1> QED
  BY <1>1, <1>2, <1>3

(* A safety command is accepted at most once in every life of the process, *)
(* although its nonce is forgotten on a restart and the audit is not.      *)
THEOREM SafetyReplayHolds == Spec => []SafetyReplayBounded
<1>1. Init => ReplayInv
  <2> SUFFICES ASSUME Init, NEW n \in Nat
               PROVE  Uses(n) <= IF n \in used[Safety] THEN boots + 1 ELSE boots
    BY DEF ReplayInv
  <2>1. Rows(n) = {} /\ used[Safety] = {} /\ boots = 0
    BY DEF Init, Rows, Scopes
  <2> QED
    BY <2>1, FS_EmptySet DEF Uses
<1>2. TypeOK /\ ReplayInv => SafetyReplayBounded
  <2> SUFFICES ASSUME TypeOK, ReplayInv, NEW i \in DOMAIN audit
               PROVE  Cardinality({j \in DOMAIN audit : audit[j].nonce = audit[i].nonce}) <= boots + 1
    BY DEF SafetyReplayBounded
  <2>1. audit[i].nonce \in Nat
    <3>1. audit[i] \in AuditRow
      BY LenProperties, ElementOfSeq DEF TypeOK
    <3> QED
      BY <3>1 DEF AuditRow
  <2>2. Uses(audit[i].nonce) \in Nat /\ boots \in Nat
    BY RowsCount DEF TypeOK
  <2>3. Uses(audit[i].nonce) <= boots \/ Uses(audit[i].nonce) <= boots + 1
    BY <2>1 DEF ReplayInv
  <2>4. Uses(audit[i].nonce) <= boots + 1
    BY <2>2, <2>3
  <2> QED
    BY <2>4 DEF Uses, Rows
<1> QED
  BY <1>1, <1>2, ReplayStep, TypeCorrect, PTL DEF Spec

(* With an active safety key, only a row of the audit moves the breaker. *)
LEMMA SwitchStep ==
    ASSUME TypeOK, [Next]_vars, breaker' # breaker,
           ActivePems(ring[Safety], clock) # {}, boots' = boots
    PROVE  /\ Len(audit') = Len(audit) + 1
           /\ audit'[Len(audit')].verb = IF breaker' THEN "halt" ELSE "resume"
<1>1. ~Restart
  BY DEF Restart, TypeOK
<1>2. SafetyVerb
  BY <1>1, SafetyScope
<1>3. PICK r \in SafetyRequests : SafetyHalt(r) \/ SafetyResume(r)
  BY <1>2 DEF SafetyVerb
<1>4. PICK v \in {"halt", "resume"} :
        /\ v = IF breaker' THEN "halt" ELSE "resume"
        /\ CommandOk(Safety, "safety body", r.cmd)
        /\ audit' = Append(audit, [verb |-> v, nonce |-> r.cmd.nonce])
  <2>1. CASE SafetyHalt(r)
    <3>1. breaker' = TRUE /\ SafetyGate("halt", r)
      BY <2>1 DEF SafetyHalt
    <3> QED
      BY <3>1 DEF SafetyGate
  <2>2. CASE SafetyResume(r)
    <3>1. breaker' = FALSE /\ SafetyGate("resume", r)
      BY <2>2 DEF SafetyResume
    <3> QED
      BY <3>1 DEF SafetyGate
  <2> QED
    BY <1>3, <2>1, <2>2
<1>5. r.cmd.nonce \in Nat
  BY <1>4, PipelineAssumption DEF CommandOk, Command
<1>6. [verb |-> v, nonce |-> r.cmd.nonce] \in AuditRow /\ audit \in Seq(AuditRow)
  BY <1>5 DEF AuditRow, Verbs, TypeOK
<1> DEFINE row == [verb |-> v, nonce |-> r.cmd.nonce]
<1>7. row.verb = v
  OBVIOUS
<1> HIDE DEF row
<1>8. Len(audit') = Len(audit) + 1 /\ audit'[Len(audit')] = row
  <2>1. row \in AuditRow /\ audit' = Append(audit, row)
    BY <1>4, <1>6 DEF row
  <2> QED
    BY <1>6, <2>1, AppendProperties, LenProperties
<1> QED
  BY <1>4, <1>7, <1>8

(* No trip and no clearing of the breaker goes unrecorded, and none is     *)
(* recorded as the other, once the safety scope has an active key.         *)
THEOREM SwitchIsAudited == Spec => SwitchAudited
<1>1. TypeOK /\ [Next]_vars =>
         [/\ breaker' # breaker
          /\ ActivePems(ring[Safety], clock) # {}
          /\ boots' = boots
          => /\ Len(audit') = Len(audit) + 1
             /\ audit'[Len(audit')].verb = IF breaker' THEN "halt" ELSE "resume"]_vars
  BY SwitchStep
<1> QED
  BY <1>1, TypeCorrect, PTL DEF Spec, SwitchAudited

-----------------------------------------------------------------------------
(* The nonces of the operators' statements. *)

(* The entries of a ledger that an operator signed; no two of them have    *)
(* one nonce; every nonce among them is used.                              *)
IsStatement(e) == e.event \in {"operator_command", "hygiene_downgrade"}
Stated(l) == {i \in DOMAIN l : IsStatement(l[i])}
Distinct(l) == \A i, j \in Stated(l) : l[i].nonce = l[j].nonce => i = j
Burnt(l, nonces) == \A i \in Stated(l) : l[i].nonce \in nonces
Unstated(l, n) == \A i \in Stated(l) : l[i].nonce # n

(* An operator's nonce in the ledger is used, and so is that of the        *)
(* downgrade on the loop, which is not in the ledger yet.                  *)
NonceInv ==
    /\ \A t \in Tenants : Distinct(ledger[t]) /\ Burnt(ledger[t], used[t])
    /\ downgraded =>
          /\ pc \notin {"idle", "gate", "breaker", "epistemic", "hygiene"}
          /\ B.downgrade.nonce \in used[T] /\ Unstated(ledger[T], B.downgrade.nonce)

(* One more entry at the end of a ledger. *)
LEMMA OneMoreEntry ==
    ASSUME NEW l \in Seq(LedgerBody), NEW e \in LedgerBody
    PROVE  /\ Append(l, e) \in Seq(LedgerBody)
           /\ Len(l) \in Nat /\ DOMAIN l = 1..Len(l)
           /\ DOMAIN Append(l, e) = 1..(Len(l) + 1)
           /\ \A i \in 1..Len(l) : Append(l, e)[i] = l[i]
           /\ Append(l, e)[Len(l) + 1] = e
<1>1. Len(l) \in Nat /\ DOMAIN l = 1..Len(l)
  BY LenProperties
<1>2. /\ Append(l, e) \in Seq(LedgerBody) /\ Len(Append(l, e)) = Len(l) + 1
      /\ \A i \in 1..Len(l) : Append(l, e)[i] = l[i]
      /\ Append(l, e)[Len(l) + 1] = e
  BY AppendProperties
<1>3. DOMAIN Append(l, e) = 1..(Len(l) + 1)
  BY <1>2, LenProperties
<1> QED
  BY <1>1, <1>2, <1>3

(* An entry that is no statement, or has a nonce that is not there yet. *)
LEMMA StatementAppended ==
    ASSUME NEW l \in Seq(LedgerBody), NEW e \in LedgerBody, NEW old, NEW new,
           Distinct(l), Burnt(l, old), old \subseteq new,
           IsStatement(e) => Unstated(l, e.nonce) /\ e.nonce \in new
    PROVE  /\ Append(l, e) \in Seq(LedgerBody)
           /\ Distinct(Append(l, e)) /\ Burnt(Append(l, e), new)
           /\ \A n : Unstated(l, n) /\ (IsStatement(e) => e.nonce # n)
                        => Unstated(Append(l, e), n)
<1> DEFINE m == Append(l, e)
<1>1. /\ m \in Seq(LedgerBody)
      /\ Len(l) \in Nat /\ DOMAIN l = 1..Len(l)
      /\ DOMAIN m = 1..(Len(l) + 1)
      /\ \A i \in 1..Len(l) : m[i] = l[i]
      /\ m[Len(l) + 1] = e
  BY OneMoreEntry
<1> HIDE DEF m
<1>2. \A i \in Stated(m) : \/ i \in Stated(l) /\ m[i] = l[i]
                           \/ i = Len(l) + 1 /\ m[i] = e /\ IsStatement(e)
  BY <1>1 DEF Stated
<1>3. Distinct(m)
  BY <1>2 DEF Distinct, Unstated
<1>4. Burnt(m, new)
  BY <1>2 DEF Burnt
<1>5. \A n : Unstated(l, n) /\ (IsStatement(e) => e.nonce # n) => Unstated(m, n)
  BY <1>2 DEF Unstated
<1> QED
  BY <1>1, <1>3, <1>4, <1>5 DEF m

(* What the last layer writes: the downgrade, if there was one, then the   *)
(* summary of the run.                                                     *)
FinalEntry == [event |-> "v2_pipeline", action |-> A, nonce |-> Attr[A].nonce]
DowngradeEntry == [event |-> "hygiene_downgrade", action |-> A, nonce |-> B.downgrade.nonce]

(* Reconcile appends exactly these. *)
LEMMA ClosingAppended ==
    ASSUME TypeOK, NEW code, Reconcile(code)
    PROVE  /\ pc = "reconcile" /\ T \in Tenants /\ A \in Actions
           /\ FinalEntry \in LedgerBody
           /\ downgraded => DowngradeEntry \in LedgerBody
           /\ ledger' = [ledger EXCEPT ![T] =
                           IF downgraded THEN Append(Append(@, DowngradeEntry), FinalEntry)
                                         ELSE Append(@, FinalEntry)]
<1>1. pc = "reconcile" /\ ledger' = [ledger EXCEPT ![T] = @ \o Closing]
  BY DEF Reconcile
<1>2. /\ T \in Tenants /\ A \in Actions /\ B \in Body /\ Attr[A].nonce \in Nat
      /\ downgraded => B.downgrade # NoRecord
  BY <1>1, RequestType DEF TypeOK, B
<1>3. FinalEntry \in LedgerBody
  BY <1>2, BodyType DEF FinalEntry
<1>4. downgraded => DowngradeEntry \in LedgerBody
  <2>1. downgraded => B.downgrade.nonce \in Nat
    BY <1>2 DEF Body, Downgrade
  <2> QED
    BY <1>2, <2>1, BodyType DEF DowngradeEntry
<1>5. Closing = IF downgraded THEN <<DowngradeEntry, FinalEntry>> ELSE <<FinalEntry>>
  BY DEF Closing, DowngradeEntry, FinalEntry
<1>6. ledger \in [Tenants -> Seq(LedgerBody)] /\ ledger[T] \in Seq(LedgerBody)
  BY <1>2 DEF TypeOK
<1>7. ledger[T] \o Closing
        = IF downgraded THEN Append(Append(ledger[T], DowngradeEntry), FinalEntry)
                        ELSE Append(ledger[T], FinalEntry)
  <2> DEFINE d == DowngradeEntry
             f == FinalEntry
             l == ledger[T]
  <2> HIDE DEF d, f, l
  <2>1. f \in LedgerBody /\ l \in Seq(LedgerBody) /\ (downgraded => d \in LedgerBody)
    BY <1>3, <1>4, <1>6 DEF d, f, l
  <2>2. l \o <<f>> = Append(l, f)
    BY <2>1, AppendIsConcat
  <2>3. ASSUME downgraded PROVE l \o <<d, f>> = Append(Append(l, d), f)
    <3>1. Append(l, d) \in Seq(LedgerBody) /\ <<d>> \in Seq(LedgerBody) /\ <<f>> \in Seq(LedgerBody)
      BY <2>1, <2>3, AppendProperties
    <3>2. <<d, f>> = <<d>> \o <<f>>
      <4>1. <<d, f>> = Append(<<d>>, f)
        OBVIOUS
      <4> QED
        BY <2>1, <3>1, <4>1, AppendIsConcat
    <3>3. Append(l, d) = l \o <<d>> /\ Append(Append(l, d), f) = Append(l, d) \o <<f>>
      BY <2>1, <2>3, <3>1, AppendIsConcat
    <3> QED
      BY <2>1, <3>1, <3>2, <3>3, ConcatAssociative
  <2> QED
    BY <1>5, <2>2, <2>3 DEF d, f, l
<1> QED
  BY <1>1, <1>2, <1>3, <1>4, <1>6, <1>7

(* A step that leaves the ledgers and the used nonces, on the way out or   *)
(* further on with the same request.                                       *)
LEMMA NonceFrame ==
    ASSUME NonceInv, UNCHANGED <<ledger, used>>,
           \/ ~downgraded'
           \/ /\ UNCHANGED <<req, downgraded>>
              /\ pc' = pc \/ pc' \notin {"idle", "gate", "breaker", "epistemic", "hygiene"}
    PROVE  NonceInv'
BY DEF NonceInv, B, T

(* The command that _require_command accepts. *)
LEMMA NonceGate ==
    ASSUME TypeOK, NonceInv, GateAccept
    PROVE  NonceInv'
<1>1. /\ pc = "gate" /\ pc' = "breaker" /\ UNCHANGED <<req, downgraded>> /\ ~downgraded
      /\ CommandOk(T, B, req.cmd)
  BY DEF GateAccept, NonceInv
<1>2. T \in Tenants /\ A \in Actions /\ req.cmd \in Command(Body) /\ req.cmd.nonce \in Nat
  BY <1>1, RequestType DEF CommandOk, Command
<1> DEFINE n == req.cmd.nonce
           e == [event |-> "operator_command", action |-> A, nonce |-> n]
<1>3. n \notin used[T] /\ T \in Scopes
  BY <1>1, <1>2 DEF CommandOk, VerifyCommand, Scopes
<1>4. e \in LedgerBody /\ e.nonce = n
  BY <1>2, BodyType
<1>5. /\ ledger' = [ledger EXCEPT ![T] = Append(@, e)]
      /\ used' = [used EXCEPT ![T] = @ \cup {n}]
  BY DEF GateAccept, Record
<1> HIDE DEF n, e
<1>6. /\ ledger \in [Tenants -> Seq(LedgerBody)] /\ ledger[T] \in Seq(LedgerBody)
      /\ used \in [Scopes -> SUBSET Nat]
  BY <1>2 DEF TypeOK
<1>7. Distinct(ledger[T]) /\ Burnt(ledger[T], used[T])
  BY <1>2 DEF NonceInv
<1>8. Unstated(ledger[T], n)
  BY <1>3, <1>7 DEF Burnt, Unstated
<1>9. Distinct(ledger'[T]) /\ Burnt(ledger'[T], used'[T])
  <2>1. used'[T] = used[T] \cup {n} /\ ledger'[T] = Append(ledger[T], e)
    BY <1>2, <1>3, <1>5, <1>6
  <2> QED
    BY <1>4, <1>6, <1>7, <1>8, <2>1, StatementAppended
<1>10. ASSUME NEW t \in Tenants, t # T PROVE ledger'[t] = ledger[t] /\ used'[t] = used[t]
  BY <1>5, <1>6, <1>10 DEF Scopes
<1> QED
  BY <1>1, <1>9, <1>10 DEF NonceInv

(* The downgrade that releases: its nonce was not used before. *)
LEMMA NonceRelease ==
    ASSUME TypeOK, NonceInv, DowngradePartial \/ DowngradeRelease, UNCHANGED ledger
    PROVE  NonceInv'
<1>1. /\ pc = "hygiene" /\ DowngradeValid
      /\ used' = [used EXCEPT ![T] = @ \cup {B.downgrade.nonce}]
  BY DEF DowngradePartial, DowngradeRelease
<1>2. T \in Tenants /\ T \in Scopes /\ used \in [Scopes -> SUBSET Nat]
  BY <1>1, RequestType DEF TypeOK, Scopes
<1>3. B.downgrade.nonce \notin used[T] /\ B.downgrade.nonce \in used'[T]
  BY <1>1, <1>2 DEF DowngradeValid, ValidateDowngrade
<1>4. \A t \in Tenants : used[t] \subseteq used'[t]
  BY <1>1, <1>2 DEF Scopes
<1>5. \A t \in Tenants : Distinct(ledger'[t]) /\ Burnt(ledger'[t], used'[t])
  BY <1>4 DEF NonceInv, Burnt
<1>6. Unstated(ledger[T], B.downgrade.nonce)
  BY <1>2, <1>3 DEF NonceInv, Burnt, Unstated
<1>7. CASE DowngradePartial
  BY <1>5, <1>7 DEF DowngradePartial, Finish, NonceInv
<1>8. CASE DowngradeRelease
  <2>1. pc' = "risk" /\ req' = req
    BY <1>8 DEF DowngradeRelease, Proceed
  <2> QED
    BY <1>3, <1>5, <1>6, <2>1 DEF NonceInv, B, T
<1> QED
  BY <1>7, <1>8

(* The signature's entry is no statement. *)
LEMMA NonceSign ==
    ASSUME TypeOK, NonceInv, Sign, UNCHANGED used
    PROVE  NonceInv'
<1> DEFINE e == [event |-> "live_sign", action |-> A, nonce |-> Attr[A].nonce]
<1>1. /\ pc = "sign" /\ pc' = "submit" /\ UNCHANGED <<req, downgraded>>
      /\ ledger' = [ledger EXCEPT ![T] = Append(@, e)]
  BY DEF Sign, Record, Proceed
<1>2. T \in Tenants /\ A \in Actions /\ Attr[A].nonce \in Nat
  BY <1>1, RequestType
<1>3. e \in LedgerBody /\ ~IsStatement(e)
  BY <1>2, BodyType DEF IsStatement
<1> HIDE DEF e
<1>4. ledger \in [Tenants -> Seq(LedgerBody)] /\ ledger[T] \in Seq(LedgerBody)
  BY <1>2 DEF TypeOK
<1>5. Distinct(ledger[T]) /\ Burnt(ledger[T], used[T])
  BY <1>2 DEF NonceInv
<1>6. /\ Distinct(Append(ledger[T], e)) /\ Burnt(Append(ledger[T], e), used[T])
      /\ \A n : Unstated(ledger[T], n) => Unstated(Append(ledger[T], e), n)
  BY <1>3, <1>4, <1>5, StatementAppended
<1>7. ledger'[T] = Append(ledger[T], e) /\ \A t \in Tenants : t # T => ledger'[t] = ledger[t]
  BY <1>1, <1>2, <1>4
<1>8. \A t \in Tenants : Distinct(ledger'[t]) /\ Burnt(ledger'[t], used'[t])
  BY <1>6, <1>7 DEF NonceInv
<1>9. T' = T /\ B' = B
  BY <1>1 DEF T, B
<1> QED
  BY <1>1, <1>6, <1>7, <1>8, <1>9 DEF NonceInv

(* The run is closed: the downgrade's statement is written now. *)
LEMMA NonceReconcile ==
    ASSUME TypeOK, NonceInv, NEW code, Reconcile(code), UNCHANGED used
    PROVE  NonceInv'
<1>1. /\ T \in Tenants /\ FinalEntry \in LedgerBody
      /\ downgraded => DowngradeEntry \in LedgerBody
      /\ ledger' = [ledger EXCEPT ![T] =
                      IF downgraded THEN Append(Append(@, DowngradeEntry), FinalEntry)
                                    ELSE Append(@, FinalEntry)]
  BY ClosingAppended
<1>2. ~downgraded'
  BY DEF Reconcile, Finish
<1>3. ledger \in [Tenants -> Seq(LedgerBody)] /\ ledger[T] \in Seq(LedgerBody)
      /\ downgraded \in BOOLEAN
  BY <1>1 DEF TypeOK
<1>4. ~IsStatement(FinalEntry)
  BY DEF IsStatement, FinalEntry
<1>5. IsStatement(DowngradeEntry) /\ DowngradeEntry.nonce = B.downgrade.nonce
  BY DEF IsStatement, DowngradeEntry
<1>6. Distinct(ledger[T]) /\ Burnt(ledger[T], used[T])
  BY <1>1 DEF NonceInv
<1>7. Distinct(ledger'[T]) /\ Burnt(ledger'[T], used[T])
  <2>1. CASE ~downgraded
    <3>1. ledger'[T] = Append(ledger[T], FinalEntry)
      BY <1>1, <1>3, <2>1
    <3> QED
      BY <1>1, <1>3, <1>4, <1>6, <3>1, StatementAppended
  <2>2. CASE downgraded
    <3>1. ledger'[T] = Append(Append(ledger[T], DowngradeEntry), FinalEntry)
      BY <1>1, <1>3, <2>2
    <3>2. B.downgrade.nonce \in used[T] /\ Unstated(ledger[T], B.downgrade.nonce)
      BY <2>2 DEF NonceInv
    <3>3. /\ Append(ledger[T], DowngradeEntry) \in Seq(LedgerBody)
          /\ Distinct(Append(ledger[T], DowngradeEntry))
          /\ Burnt(Append(ledger[T], DowngradeEntry), used[T])
      BY <1>1, <1>3, <1>5, <1>6, <2>2, <3>2, StatementAppended
    <3> QED
      BY <1>1, <1>4, <3>1, <3>3, StatementAppended
  <2> QED
    BY <2>1, <2>2
<1>8. \A t \in Tenants : t # T => ledger'[t] = ledger[t]
  BY <1>1, <1>3
<1> QED
  BY <1>2, <1>7, <1>8 DEF NonceInv

(* Every step keeps the operators' nonces distinct and used. *)
LEMMA NonceStep == TypeOK /\ NonceInv /\ [Next]_vars => NonceInv'
<1> SUFFICES ASSUME TypeOK, NonceInv, [Next]_vars PROVE NonceInv'
  OBVIOUS
<1>1. CASE \E r \in Requests : Arrive(r)
  <2>1. UNCHANGED <<ledger, used, downgraded>> /\ pc = "idle"
    BY <1>1 DEF Arrive
  <2>2. ~downgraded'
    BY <2>1 DEF NonceInv
  <2> QED
    BY <2>1, <2>2, NonceFrame
<1>2. CASE Gate
  <2>1. CASE GateAccept
    BY <2>1, NonceGate
  <2>2. CASE GateDormant \/ GateRefuse \/ CheckBreaker
    <3>1. UNCHANGED <<ledger, used>> /\ pc \in {"gate", "breaker"}
          /\ downgraded' \in {downgraded, FALSE}
      BY <2>2 DEF GateDormant, GateRefuse, CheckBreaker, Finish
    <3>2. ~downgraded'
      BY <3>1 DEF NonceInv
    <3> QED
      BY <3>1, <3>2, NonceFrame
  <2> QED
    BY <1>2, <2>1, <2>2 DEF Gate
<1>3. CASE Evaluate
  <2>0. UNCHANGED ledger
    BY <1>3 DEF Evaluate
  <2>1. CASE DowngradePartial \/ DowngradeRelease
    BY <2>0, <2>1, NonceRelease
  <2>2. CASE StructureRefuse \/ EpistemicRefuse \/ HygieneRefuse \/ DowngradeRefuse
             \/ RiskRefuse \/ HumanRefuse
    <3>1. UNCHANGED used /\ ~downgraded'
      BY <2>2 DEF StructureRefuse, EpistemicRefuse, HygieneRefuse, DowngradeRefuse,
                  RiskRefuse, HumanRefuse, Finish
    <3> QED
      BY <2>0, <3>1, NonceFrame
  <2>3. CASE EpistemicPass
    <3>1. UNCHANGED <<used, downgraded>> /\ pc = "epistemic"
      BY <2>3 DEF EpistemicPass
    <3>2. ~downgraded'
      BY <3>1 DEF NonceInv
    <3> QED
      BY <2>0, <3>1, <3>2, NonceFrame
  <2>4. CASE HygienePass \/ RiskPass \/ HumanPass
    <3>1. UNCHANGED <<used, downgraded, req>> /\ pc' \in {"risk", "human", "replay"}
      BY <2>4 DEF HygienePass, RiskPass, HumanPass, Proceed
    <3> QED
      BY <2>0, <3>1, NonceFrame
  <2> QED
    BY <1>3, <2>1, <2>2, <2>3, <2>4 DEF Evaluate
<1>4. CASE Execute
  <2>0. UNCHANGED used
    BY <1>4 DEF Execute
  <2>1. CASE Sign
    BY <2>0, <2>1, NonceSign
  <2>2. CASE \E code \in VenueCodes : Reconcile(code)
    BY <2>0, <2>2, NonceReconcile
  <2>3. CASE ReplayRefuse \/ SettleRefuse \/ VelocityRefuse \/ SignerFails
    <3>1. UNCHANGED ledger /\ ~downgraded'
      BY <2>3 DEF ReplayRefuse, SettleRefuse, VelocityRefuse, SignerFails, Finish
    <3> QED
      BY <2>0, <3>1, NonceFrame
  <2>4. CASE ReplayPass \/ SettlePass \/ Submit
    <3>1. UNCHANGED <<ledger, req, downgraded>>
          /\ pc' \in {"settle", "sign", "submit", "reconcile"}
      BY <2>4 DEF ReplayPass, SettlePass, Submit, Proceed
    <3> QED
      BY <2>0, <3>1, NonceFrame
  <2> QED
    BY <1>4, <2>1, <2>2, <2>3, <2>4 DEF Execute
<1>5. CASE SafetyVerb
  <2>1. UNCHANGED <<ledger, pc, req, downgraded>> /\ pc = "idle"
    BY <1>5 DEF SafetyVerb, SafetyHalt, SafetyResume, loopVars
  <2>2. \A t \in Tenants : used'[t] = used[t]
    <3>1. used \in [Scopes -> SUBSET Nat] /\ \A t \in Tenants : t # Safety /\ t \in Scopes
      BY PipelineAssumption DEF TypeOK, Scopes
    <3>2. used' = used \/ \E n : used' = [used EXCEPT ![Safety] = @ \cup {n}]
      BY <1>5 DEF SafetyVerb, SafetyHalt, SafetyResume, SafetyGate
    <3> QED
      BY <3>1, <3>2
  <2>3. ~downgraded'
    BY <2>1 DEF NonceInv
  <2> QED
    BY <2>1, <2>2, <2>3 DEF NonceInv
<1>6. CASE \/ KeyOperation \/ Tick \/ UNCHANGED vars
           \/ \E t \in Tenants, kind \in {"sim", "live"} : CreateTenant(t, kind)
  <2>1. UNCHANGED <<ledger, used, pc, req, downgraded>>
    BY <1>6 DEF KeyOperation, Tick, CreateTenant, vars, loopVars
  <2> QED
    BY <2>1, NonceFrame
<1>7. CASE Restart
  <2>1. ledger' = [t \in Tenants |-> <<>>] /\ ~downgraded'
    BY <1>7 DEF Restart, Finish
  <2> QED
    BY <2>1 DEF NonceInv, Distinct, Burnt, Stated
<1> QED
  BY <1>1, <1>2, <1>3, <1>4, <1>5, <1>6, <1>7 DEF Next, Handler

(* No two operator statements of a tenant's ledger, commands and           *)
(* downgrades together, carry one nonce.                                   *)
THEOREM NoncesAreFresh == Spec => []OperatorNonceOnce
<1>1. Init => NonceInv
  <2> SUFFICES ASSUME Init PROVE NonceInv
    OBVIOUS
  <2>1. ledger = [t \in Tenants |-> <<>>] /\ ~downgraded
    BY DEF Init
  <2> QED
    BY <2>1 DEF NonceInv, Distinct, Burnt, Stated
<1>2. NonceInv => OperatorNonceOnce
  BY DEF NonceInv, OperatorNonceOnce, Distinct, Stated, IsStatement
<1> QED
  BY <1>1, <1>2, NonceStep, TypeCorrect, PTL DEF Spec

-----------------------------------------------------------------------------
(* The ledger against the venue. *)

(* The pair of a tenant and an action agrees but for the action on the     *)
(* loop, which may be signed and not submitted, or submitted and not       *)
(* recorded.                                                               *)
Agrees(t, a) ==
    /\ Recorded(t, "v2_pipeline", a) => submits[<<t, a>>] > 0
    /\ submits[<<t, a>>] > 0 =>
          Recorded(t, "v2_pipeline", a) \/ (pc = "reconcile" /\ Hash = <<t, a>>)
    /\ tenants[t] = "live" =>
          /\ submits[<<t, a>>] > 0 => Recorded(t, "live_sign", a)
          /\ Recorded(t, "live_sign", a) =>
                submits[<<t, a>>] > 0 \/ (pc = "submit" /\ Hash = <<t, a>>)

ClosureInv ==
    /\ \A t \in Tenants : tenants[t] = "unborn" => ledger[t] = <<>>
    /\ pc = "reconcile" => submits[Hash] > 0
    /\ pc = "submit" /\ tenants[T] = "live" => Recorded(T, "live_sign", A)
    /\ \A t \in Tenants, a \in Actions : Alive(t) => Agrees(t, a)

(* The two kinds of entry that the closure is about. *)
Closers == {"v2_pipeline", "live_sign"}

(* Some entry of a ledger is about this event of this action. *)
Names(l, event, a) == \E i \in DOMAIN l : l[i].event = event /\ l[i].action = a

(* What a ledger names after one more entry. *)
LEMMA EntryNamed ==
    ASSUME NEW l \in Seq(LedgerBody), NEW e \in LedgerBody, NEW event, NEW a
    PROVE  Names(Append(l, e), event, a)
             <=> Names(l, event, a) \/ (e.event = event /\ e.action = a)
<1> DEFINE m == Append(l, e)
<1>1. /\ Len(l) \in Nat /\ DOMAIN l = 1..Len(l)
      /\ DOMAIN m = 1..(Len(l) + 1)
      /\ \A i \in 1..Len(l) : m[i] = l[i]
      /\ m[Len(l) + 1] = e
  BY OneMoreEntry
<1> HIDE DEF m
<1>2. DOMAIN m = DOMAIN l \cup {Len(l) + 1} /\ \A i \in DOMAIN l : m[i] = l[i]
  BY <1>1
<1>3. Names(m, event, a) <=> Names(l, event, a) \/ (e.event = event /\ e.action = a)
  BY <1>1, <1>2 DEF Names
<1> QED
  BY <1>3 DEF m

(* Appending to the ledger of the tenant on the loop. *)
LEMMA RecordedNow ==
    ASSUME TypeOK, T \in Tenants, NEW e \in LedgerBody,
           ledger' = [ledger EXCEPT ![T] = Append(@, e)]
    PROVE  \A t \in Tenants, event \in Closers, a \in Actions :
              Recorded(t, event, a)' <=> \/ Recorded(t, event, a)
                                         \/ t = T /\ e.event = event /\ e.action = a
<1>1. ledger \in [Tenants -> Seq(LedgerBody)] /\ ledger[T] \in Seq(LedgerBody)
  BY DEF TypeOK
<1>2. TAKE t \in Tenants, event \in Closers, a \in Actions
<1>3. CASE t # T
  <2>1. ledger'[t] = ledger[t]
    BY <1>1, <1>3
  <2> QED
    BY <1>3, <2>1 DEF Recorded
<1>4. CASE t = T
  <2>1. ledger'[T] = Append(ledger[T], e)
    BY <1>1
  <2>2. Names(ledger'[T], event, a)
          <=> Names(ledger[T], event, a) \/ (e.event = event /\ e.action = a)
    BY <1>1, <2>1, EntryNamed
  <2> QED
    BY <1>4, <2>2 DEF Recorded, Names
<1> QED
  BY <1>3, <1>4

(* A step that records no signature and no outcome, enters and leaves the  *)
(* last two layers no other way than by SettlePass, and submits nothing.   *)
LEMMA ClosureFrame ==
    ASSUME ClosureInv, UNCHANGED <<tenants, submits>>,
           \A t \in Tenants : tenants[t] = "unborn" => ledger'[t] = ledger[t],
           \A t \in Tenants, event \in Closers, a \in Actions :
              Recorded(t, event, a)' <=> Recorded(t, event, a),
           pc # "idle" => T \in Tenants /\ A \in Actions,
           \/ UNCHANGED <<pc, req>>
           \/ /\ pc \notin {"submit", "reconcile"}
              /\ \/ pc' \notin {"submit", "reconcile"}
                 \/ pc' = "submit" /\ tenants[T] # "live" /\ UNCHANGED req
    PROVE  ClosureInv'
<1>1. \A t \in Tenants : tenants'[t] = "unborn" => ledger'[t] = <<>>
  BY DEF ClosureInv
<1>2. UNCHANGED req => T' = T /\ A' = A /\ Hash' = Hash
  BY DEF T, A, B, Hash
<1>3. pc' = "reconcile" => submits'[Hash'] > 0
  BY <1>2 DEF ClosureInv
<1>4. ASSUME pc' = "submit", tenants'[T'] = "live"
      PROVE  Recorded(T, "live_sign", A)'
  <2>1. pc = "submit" /\ UNCHANGED req /\ tenants[T] = "live"
    BY <1>2, <1>4
  <2>2. T' = T /\ A' = A /\ T \in Tenants /\ A \in Actions
    BY <1>2, <2>1
  <2>3. PICK t \in Tenants, a \in Actions : t = T /\ a = A
    BY <2>2
  <2>4. Recorded(t, "live_sign", a)
    BY <2>1, <2>3 DEF ClosureInv
  <2>5. Recorded(t, "live_sign", a)'
    BY <2>4 DEF Closers
  <2> QED
    BY <2>2, <2>3, <2>5 DEF Recorded
<1>6. ASSUME NEW t \in Tenants, NEW a \in Actions, Alive(t)'
      PROVE  Agrees(t, a)'
  <2>1. Agrees(t, a)
    BY <1>6 DEF ClosureInv, Alive
  <2>2. /\ Recorded(t, "v2_pipeline", a)' <=> Recorded(t, "v2_pipeline", a)
        /\ Recorded(t, "live_sign", a)' <=> Recorded(t, "live_sign", a)
    BY DEF Closers
  <2>3. pc = "reconcile" /\ Hash = <<t, a>> => pc' = "reconcile" /\ Hash' = <<t, a>>
    BY <1>2
  <2>4. pc = "submit" /\ Hash = <<t, a>> => pc' = "submit" /\ Hash' = <<t, a>>
    BY <1>2
  <2> QED
    BY <2>1, <2>2, <2>3, <2>4 DEF Agrees
<1> QED
  BY <1>1, <1>3, <1>4, <1>6 DEF ClosureInv

(* The signature is recorded on the way to the venue. *)
LEMMA ClosureSign ==
    ASSUME OnceInv, ClosureInv, Sign, UNCHANGED tenants
    PROVE  ClosureInv'
<1> DEFINE e == [event |-> "live_sign", action |-> A, nonce |-> Attr[A].nonce]
<1>1. /\ pc = "sign" /\ pc' = "submit" /\ UNCHANGED <<req, submits>>
      /\ ledger' = [ledger EXCEPT ![T] = Append(@, e)]
  BY DEF Sign, Record, Proceed
<1>2. T \in Tenants /\ A \in Actions /\ Attr[A].nonce \in Nat /\ TypeOK /\ Alive(T)
  BY <1>1, RequestType DEF OnceInv, ClaimHeld
<1>3. e \in LedgerBody /\ e.event = "live_sign" /\ e.action = A
  BY <1>2, BodyType
<1> HIDE DEF e
<1>4. \A t \in Tenants, event \in Closers, a \in Actions :
         Recorded(t, event, a)' <=> \/ Recorded(t, event, a)
                                    \/ t = T /\ e.event = event /\ e.action = a
  BY <1>1, <1>2, <1>3, RecordedNow
<1>5. T' = T /\ A' = A /\ Hash' = Hash /\ Hash = <<T, A>>
  BY <1>1 DEF T, A, B, Hash
<1>6. \A t \in Tenants : tenants'[t] = "unborn" => ledger'[t] = <<>>
  <2>1. \A t \in Tenants : t # T => ledger'[t] = ledger[t]
    BY <1>1, <1>2 DEF TypeOK
  <2> QED
    BY <1>2, <2>1 DEF ClosureInv, Alive
<1>7. Recorded(T, "live_sign", A)'
  <2>1. PICK t \in Tenants, a \in Actions : t = T /\ a = A
    BY <1>2
  <2>2. Recorded(t, "live_sign", a)'
    BY <1>3, <1>4, <2>1 DEF Closers
  <2> QED
    BY <1>5, <2>1, <2>2 DEF Recorded
<1>8. ASSUME NEW t \in Tenants, NEW a \in Actions, Alive(t)'
      PROVE  Agrees(t, a)'
  <2>1. Agrees(t, a)
    BY <1>8 DEF ClosureInv, Alive
  <2>2. /\ Recorded(t, "v2_pipeline", a)' <=> Recorded(t, "v2_pipeline", a)
        /\ Recorded(t, "live_sign", a)' <=> Recorded(t, "live_sign", a) \/ (t = T /\ a = A)
    BY <1>3, <1>4 DEF Closers
  <2> QED
    BY <1>1, <1>5, <2>1, <2>2 DEF Agrees
<1> QED
  BY <1>1, <1>6, <1>7, <1>8 DEF ClosureInv

(* The venue sees the action, once. *)
LEMMA ClosureSubmit ==
    ASSUME OnceInv, ClosureInv, Submit, UNCHANGED tenants
    PROVE  ClosureInv'
<1>1. /\ pc = "submit" /\ pc' = "reconcile" /\ UNCHANGED <<req, ledger>>
      /\ submits' = [submits EXCEPT ![Hash] = @ + 1]
  BY DEF Submit, Proceed
<1>2. /\ T \in Tenants /\ A \in Actions /\ Hash \in Hashes /\ submits[Hash] = 0
      /\ submits \in [Hashes -> Nat] /\ Alive(T)
  BY <1>1, RequestType DEF OnceInv, ClaimHeld, TypeOK
<1>3. Hash' = Hash /\ Hash = <<T, A>>
  BY <1>1 DEF T, A, B, Hash
<1>4. /\ submits'[Hash] = 1 /\ \A h \in Hashes : h # Hash => submits'[h] = submits[h]
  BY <1>1, <1>2
<1>5. ASSUME NEW t \in Tenants, NEW a \in Actions, Alive(t)'
      PROVE  Agrees(t, a)'
  <2>1. Agrees(t, a) /\ <<t, a>> \in Hashes
    BY <1>5 DEF ClosureInv, Alive, Hashes
  <2>2. \A event : Recorded(t, event, a)' <=> Recorded(t, event, a)
    BY <1>1 DEF Recorded
  <2>3. CASE <<t, a>> = Hash
    <3>1. t = T /\ a = A
      BY <1>3, <2>3
    <3>2. tenants[t] = "live" => Recorded(t, "live_sign", a)
      BY <1>1, <3>1 DEF ClosureInv
    <3> QED
      BY <1>1, <1>3, <1>4, <2>2, <2>3, <3>2 DEF Agrees
  <2>4. CASE <<t, a>> # Hash
    BY <1>1, <1>4, <2>1, <2>2, <2>4 DEF Agrees
  <2> QED
    BY <2>3, <2>4
<1>6. \A t \in Tenants : tenants'[t] = "unborn" => ledger'[t] = <<>>
  BY <1>1 DEF ClosureInv
<1>7. pc' = "reconcile" => submits'[Hash'] > 0
  BY <1>3, <1>4
<1> QED
  BY <1>1, <1>5, <1>6, <1>7 DEF ClosureInv

(* The outcome is recorded, whatever it is. *)
LEMMA ClosureReconcile ==
    ASSUME OnceInv, ClosureInv, NEW code, Reconcile(code), UNCHANGED tenants
    PROVE  ClosureInv'
<1>0. TypeOK
  BY DEF OnceInv
<1>1. /\ pc = "reconcile" /\ pc' = "idle" /\ UNCHANGED submits
  BY DEF Reconcile, Finish
<1>2. /\ T \in Tenants /\ A \in Actions /\ FinalEntry \in LedgerBody
      /\ downgraded => DowngradeEntry \in LedgerBody
      /\ ledger' = [ledger EXCEPT ![T] =
                      IF downgraded THEN Append(Append(@, DowngradeEntry), FinalEntry)
                                    ELSE Append(@, FinalEntry)]
  BY <1>0, ClosingAppended
<1>3. Alive(T) /\ submits[Hash] > 0 /\ Hash = <<T, A>>
  BY <1>1 DEF OnceInv, ClaimHeld, ClosureInv, Hash
<1>4. /\ FinalEntry.event = "v2_pipeline" /\ FinalEntry.action = A
      /\ DowngradeEntry.event = "hygiene_downgrade"
  BY DEF FinalEntry, DowngradeEntry
<1>5. ledger \in [Tenants -> Seq(LedgerBody)] /\ ledger[T] \in Seq(LedgerBody)
      /\ downgraded \in BOOLEAN
  BY <1>0, <1>2 DEF TypeOK
<1>6. ASSUME NEW event \in Closers, NEW a \in Actions
      PROVE  Names(ledger'[T], event, a)
               <=> Names(ledger[T], event, a) \/ (event = "v2_pipeline" /\ a = A)
  <2>1. CASE ~downgraded
    <3>1. ledger'[T] = Append(ledger[T], FinalEntry)
      BY <1>2, <1>5, <2>1
    <3> QED
      BY <1>2, <1>4, <1>5, <3>1, EntryNamed
  <2>2. CASE downgraded
    <3> DEFINE l == Append(ledger[T], DowngradeEntry)
    <3>1. ledger'[T] = Append(l, FinalEntry)
      BY <1>2, <1>5, <2>2
    <3>2. l \in Seq(LedgerBody)
      BY <1>2, <1>5, <2>2, OneMoreEntry
    <3>3. Names(l, event, a) <=> Names(ledger[T], event, a)
      <4>1. DowngradeEntry.event # event
        BY <1>4, <1>6 DEF Closers
      <4> QED
        BY <1>2, <1>5, <2>2, <4>1, EntryNamed
    <3> HIDE DEF l
    <3>4. Names(Append(l, FinalEntry), event, a)
            <=> Names(l, event, a) \/ (FinalEntry.event = event /\ FinalEntry.action = a)
      BY <1>2, <3>2, EntryNamed
    <3> QED
      BY <1>4, <3>1, <3>3, <3>4
  <2> QED
    BY <2>1, <2>2
<1>7. \A t \in Tenants : t # T => ledger'[t] = ledger[t]
  BY <1>2, <1>5
<1>8. ASSUME NEW t \in Tenants, NEW a \in Actions, Alive(t)'
      PROVE  Agrees(t, a)'
  <2>1. Agrees(t, a)
    BY <1>8 DEF ClosureInv, Alive
  <2>2. /\ Recorded(t, "v2_pipeline", a)' <=> Recorded(t, "v2_pipeline", a) \/ (t = T /\ a = A)
        /\ Recorded(t, "live_sign", a)' <=> Recorded(t, "live_sign", a)
    <3>1. CASE t = T
      BY <1>6, <3>1 DEF Recorded, Names, Closers
    <3>2. CASE t # T
      BY <1>7, <3>2 DEF Recorded
    <3> QED
      BY <3>1, <3>2
  <2>3. Hash = <<t, a>> <=> t = T /\ a = A
    BY <1>3
  <2> QED
    BY <1>1, <1>3, <2>1, <2>2, <2>3 DEF Agrees
<1>9. \A t \in Tenants : tenants'[t] = "unborn" => ledger'[t] = <<>>
  BY <1>3, <1>7 DEF ClosureInv, Alive
<1> QED
  BY <1>1, <1>8, <1>9 DEF ClosureInv

(* Every step keeps the ledgers and the venue in agreement. *)
LEMMA ClosureStep == OnceInv /\ ClosureInv /\ [Next]_vars => ClosureInv'
<1> SUFFICES ASSUME OnceInv, ClosureInv, [Next]_vars PROVE ClosureInv'
  OBVIOUS
<1>0. TypeOK /\ (pc # "idle" => T \in Tenants /\ A \in Actions)
  BY RequestType DEF OnceInv
<1>1. ASSUME UNCHANGED <<tenants, submits, ledger>>,
             \/ UNCHANGED <<pc, req>>
             \/ /\ pc \notin {"submit", "reconcile"}
                /\ \/ pc' \notin {"submit", "reconcile"}
                   \/ pc' = "submit" /\ tenants[T] # "live" /\ UNCHANGED req
      PROVE  ClosureInv'
  <2>1. \A t, event, a : Recorded(t, event, a)' <=> Recorded(t, event, a)
    BY <1>1 DEF Recorded
  <2> QED
    BY <1>0, <1>1, <2>1, ClosureFrame
<1>2. CASE \E r \in Requests : Arrive(r)
  BY <1>1, <1>2 DEF Arrive
<1>3. CASE Gate \/ Evaluate
  <2>1. /\ UNCHANGED <<submits, tenants>> /\ pc # "idle"
        /\ pc' \notin {"submit", "reconcile"}
    BY <1>3, GateStays
  <2>2. pc \notin {"submit", "reconcile"}
    BY <1>3 DEF Gate, GateDormant, GateRefuse, GateAccept, CheckBreaker, Evaluate,
           StructureRefuse, EpistemicRefuse, EpistemicPass, HygienePass, HygieneRefuse,
           DowngradeRefuse, DowngradePartial, DowngradeRelease, RiskRefuse, RiskPass,
           HumanRefuse, HumanPass
  <2>3. CASE UNCHANGED ledger
    BY <1>1, <2>1, <2>2, <2>3
  <2>4. CASE GateAccept
    <3> DEFINE e == [event |-> "operator_command", action |-> A, nonce |-> req.cmd.nonce]
    <3>1. req.cmd \in Command(Body) /\ req.cmd.nonce \in Nat
      BY <1>0, <2>1, <2>4, RequestType DEF GateAccept, CommandOk, Command
    <3>2. e \in LedgerBody /\ e.event \notin Closers
      BY <1>0, <2>1, <3>1, BodyType DEF Closers
    <3>3. ledger' = [ledger EXCEPT ![T] = Append(@, e)]
      BY <2>4 DEF GateAccept, Record
    <3> HIDE DEF e
    <3>4. \A t \in Tenants, event \in Closers, a \in Actions :
             Recorded(t, event, a)' <=> Recorded(t, event, a)
      BY <1>0, <2>1, <3>2, <3>3, RecordedNow
    <3>5. \A t \in Tenants : tenants[t] = "unborn" => ledger'[t] = ledger[t]
      BY <1>0, <2>1, <3>3 DEF TypeOK, OnceInv, ClaimHeld, Alive
    <3> QED
      BY <1>0, <2>1, <2>2, <3>4, <3>5, ClosureFrame
  <2> QED
    BY <1>3, <2>3, <2>4 DEF Gate, GateDormant, GateRefuse, CheckBreaker, Evaluate
<1>4. CASE Execute
  <2>0. UNCHANGED tenants
    BY <1>4 DEF Execute, envVars
  <2>1. CASE Sign
    BY <2>0, <2>1, ClosureSign
  <2>2. CASE Submit
    BY <2>0, <2>2, ClosureSubmit
  <2>3. CASE \E code \in VenueCodes : Reconcile(code)
    BY <2>0, <2>3, ClosureReconcile
  <2>4. CASE ReplayRefuse \/ ReplayPass \/ SettleRefuse \/ SettlePass \/ VelocityRefuse
             \/ SignerFails
    <3>1. /\ UNCHANGED <<submits, ledger>> /\ pc \notin {"submit", "reconcile"}
          /\ \/ pc' \notin {"submit", "reconcile"}
             \/ pc' = "submit" /\ tenants[T] # "live" /\ UNCHANGED req
      BY <2>4 DEF ReplayRefuse, ReplayPass, SettleRefuse, SettlePass, VelocityRefuse,
                  SignerFails, Finish
    <3> QED
      BY <1>1, <2>0, <3>1
  <2> QED
    BY <1>4, <2>1, <2>2, <2>3, <2>4 DEF Execute
<1>5. CASE SafetyVerb \/ KeyOperation \/ Tick \/ UNCHANGED vars
  BY <1>1, <1>5 DEF SafetyVerb, KeyOperation, Tick, vars, loopVars
<1>6. CASE \E t \in Tenants, kind \in {"sim", "live"} : CreateTenant(t, kind)
  <2>1. PICK u \in Tenants, kind \in {"sim", "live"} : CreateTenant(u, kind)
    BY <1>6
  <2>2. /\ UNCHANGED <<submits, ledger, pc, req>>
        /\ tenants' = [tenants EXCEPT ![u] = kind] /\ tenants[u] = "unborn"
    BY <2>1 DEF CreateTenant, loopVars
  <2>3. /\ tenants'[u] = kind /\ \A t \in Tenants : t # u => tenants'[t] = tenants[t]
    BY <1>0, <2>2 DEF TypeOK
  <2>4. T' = T /\ A' = A /\ Hash' = Hash
    BY <2>2 DEF T, A, B, Hash
  <2>5. \A t, event, a : Recorded(t, event, a)' <=> Recorded(t, event, a)
    BY <2>2 DEF Recorded
  <2>6. pc # "idle" => T # u
    BY <2>2 DEF OnceInv, ClaimHeld, Alive
  <2>7. ASSUME NEW t \in Tenants, NEW a \in Actions, Alive(t)'
        PROVE  Agrees(t, a)'
    <3>1. CASE t = u
      <4>1. ledger[u] = <<>> /\ ~(submits[<<u, a>>] > 0)
        BY <2>2 DEF ClosureInv, OnceInv, ClaimHeld
      <4>2. \A event : ~Recorded(u, event, a)
        BY <4>1 DEF Recorded
      <4> QED
        BY <2>2, <2>5, <3>1, <4>1, <4>2 DEF Agrees
    <3>2. CASE t # u
      <4>1. Agrees(t, a)
        BY <2>3, <2>7, <3>2 DEF ClosureInv, Alive
      <4> QED
        BY <2>2, <2>3, <2>4, <2>5, <3>2, <4>1 DEF Agrees
    <3> QED
      BY <3>1, <3>2
  <2>8. \A t \in Tenants : tenants'[t] = "unborn" => ledger'[t] = <<>>
    BY <2>2, <2>3 DEF ClosureInv
  <2>9. pc' = "reconcile" => submits'[Hash'] > 0
    BY <2>2, <2>4 DEF ClosureInv
  <2>10. pc' = "submit" /\ tenants'[T'] = "live" => Recorded(T, "live_sign", A)'
    <3> SUFFICES ASSUME pc' = "submit", tenants'[T'] = "live"
                 PROVE  Recorded(T, "live_sign", A)'
      OBVIOUS
    <3>1. Recorded(T, "live_sign", A)
      BY <1>0, <2>2, <2>3, <2>4, <2>6 DEF ClosureInv
    <3> QED
      BY <2>2, <2>4, <3>1 DEF Recorded
  <2> QED
    BY <2>7, <2>8, <2>9, <2>10 DEF ClosureInv
<1>7. CASE Restart
  <2>1. /\ pc' = "idle" /\ ledger' = [t \in Tenants |-> <<>>]
        /\ \A t \in Tenants : tenants'[t] \notin {"sim", "live"}
    BY <1>7 DEF Restart, Finish, Alive
  <2> QED
    BY <2>1 DEF ClosureInv, Alive
<1> QED
  BY <1>2, <1>3, <1>4, <1>5, <1>6, <1>7 DEF Next, Handler

(* Whenever no handler runs, the ledger of a tenant names exactly the      *)
(* actions that reached the venue, and its signatures exactly the used     *)
(* ones: no refusal, exception or key operation on the way separates them. *)
THEOREM LedgerMatchesVenue == Spec => []ForensicClosure
<1>1. Init => OnceInv /\ ClosureInv
  <2> SUFFICES ASSUME Init PROVE OnceInv /\ ClosureInv
    OBVIOUS
  <2>1. /\ ledger = [t \in Tenants |-> <<>>] /\ pc = "idle"
        /\ tenants = [t \in Tenants |-> "unborn"]
    BY DEF Init
  <2> QED
    BY <2>1, OnceInit DEF ClosureInv, Alive
<1>2. ClosureInv => ForensicClosure
  BY DEF ClosureInv, ForensicClosure, Agrees
<1>3. OnceInv /\ ClosureInv /\ [Next]_vars => (OnceInv /\ ClosureInv)'
  BY OnceStep, ClosureStep
<1> QED
  BY <1>1, <1>2, <1>3, PTL DEF Spec

-----------------------------------------------------------------------------
(* The evidence graph. *)

(* An event may follow another one. *)
Follows(p, e) ==
    /\ p.tenant = e.tenant
    /\ \/ <<p.state, e.state>> \in Legal
       \/ tenants[e.tenant] = "sim" /\ p.state = "APPROVED" /\ e.state = "SUBMITTED"

(* Every event of a trace starts a run or follows the one before it. *)
Causal(trace) ==
    \A i \in DOMAIN trace :
        IF trace[i].prev = 0
        THEN trace[i].state = "PROPOSED"
        ELSE trace[i].prev = i - 1 /\ Follows(trace[trace[i].prev], trace[i])

(* The state that the run on the loop has emitted last. *)
Reached ==
    CASE pc = "hygiene" -> "AUTHORIZED"
      [] pc \in {"risk", "human"} -> "EVALUATED"
      [] pc \in {"replay", "settle", "sign"} -> "APPROVED"
      [] pc = "submit" -> IF tenants[T] = "live" THEN "SIGNED" ELSE "APPROVED"
      [] OTHER -> "SUBMITTED"

(* A trace ends in an event of this run. *)
EndsIn(trace, state) ==
    /\ Len(trace) > 0
    /\ trace[Len(trace)].tenant = T /\ trace[Len(trace)].state = state

(* The link the pipeline keeps is to the end of the trace, which is its    *)
(* own last event.                                                         *)
CausalInv ==
    /\ \A id \in ActionIds : Causal(evidence[id])
    /\ pc \notin Judged => last = 0
    /\ pc = "sign" => tenants[T] = "live"
    /\ pc \in Judged => last = Len(evidence[Id]) /\ EndsIn(evidence[Id], Reached)

(* A linked event keeps a causal trace causal. *)
LEMMA LinkCausal ==
    ASSUME NEW trace \in Seq(Event), Causal(trace), T \in Tenants,
           NEW state \in States, NEW prev \in Nat,
           \/ prev = 0 /\ state = "PROPOSED"
           \/ /\ prev = Len(trace) /\ prev > 0
              /\ Follows(trace[prev], [tenant |-> T, state |-> state, prev |-> prev])
    PROVE  /\ Link(trace, prev, state) \in Seq(Event)
           /\ Len(Link(trace, prev, state)) = Len(trace) + 1 /\ Len(trace) \in Nat
           /\ Causal(Link(trace, prev, state))
           /\ EndsIn(Link(trace, prev, state), state)
<1> DEFINE e == [tenant |-> T, state |-> state, prev |-> prev]
           new == Link(trace, prev, state)
<1>1. e \in Event /\ e.tenant = T /\ e.state = state /\ e.prev = prev
  BY DEF Event
<1>2. new = Append(trace, e)
  BY DEF Link
<1>0. prev # 0 => prev = Len(trace) /\ Follows(trace[prev], e)
  OBVIOUS
<1> HIDE DEF e
<1>3. Len(trace) \in Nat /\ DOMAIN trace = 1..Len(trace)
  BY LenProperties
<1>4. /\ new \in Seq(Event) /\ Len(new) = Len(trace) + 1
      /\ \A i \in 1..Len(trace) : new[i] = trace[i]
      /\ new[Len(trace) + 1] = e
  BY <1>1, <1>2, AppendProperties
<1> HIDE DEF new
<1>5. DOMAIN new = 1..(Len(trace) + 1)
  BY <1>4, LenProperties
<1>6. ASSUME NEW i \in DOMAIN new
      PROVE  IF new[i].prev = 0
             THEN new[i].state = "PROPOSED"
             ELSE new[i].prev = i - 1 /\ Follows(new[new[i].prev], new[i])
  <2>1. CASE i \in 1..Len(trace)
    <3>1. new[i] = trace[i] /\ i \in DOMAIN trace
      BY <1>3, <1>4, <2>1
    <3>2. trace[i].prev = i - 1 /\ trace[i].prev # 0
            => new[trace[i].prev] = trace[trace[i].prev]
      BY <1>3, <1>4, <2>1
    <3> QED
      BY <3>1, <3>2 DEF Causal
  <2>2. CASE i = Len(trace) + 1
    <3>1. new[i] = e
      BY <1>4, <2>2
    <3>2. CASE prev = 0
      BY <1>1, <3>1, <3>2
    <3>3. CASE prev # 0
      <4>1. prev = Len(trace) /\ prev = i - 1 /\ prev \in 1..Len(trace) /\ Follows(trace[prev], e)
        BY <1>0, <1>3, <2>2, <3>3
      <4>2. new[prev] = trace[prev]
        BY <1>4, <4>1
      <4> QED
        BY <1>1, <3>1, <3>3, <4>1, <4>2
    <3> QED
      BY <3>2, <3>3
  <2> QED
    BY <1>3, <1>5, <2>1, <2>2
<1>7. EndsIn(new, state)
  BY <1>1, <1>3, <1>4 DEF EndsIn
<1>8. Causal(new)
  BY <1>6 DEF Causal
<1> QED
  BY <1>3, <1>4, <1>7, <1>8 DEF new

(* A simulated tenant stays one while the process lives. *)
SimsStay == \A t \in Tenants : tenants[t] = "sim" => tenants'[t] = "sim"

(* Then a causal trace stays causal. *)
LEMMA CausalStays ==
    ASSUME NEW id, evidence'[id] \in Seq(Event), Causal(evidence'[id]), SimsStay
    PROVE  Causal(evidence[id])'
<1> DEFINE trace == evidence'[id]
<1>1. DOMAIN trace = 1..Len(trace) /\ Len(trace) \in Nat
      /\ \A i \in 1..Len(trace) : trace[i] \in Event
  BY LenProperties, ElementOfSeq
<1>2. \A i \in 1..Len(trace) : trace[i].tenant \in Tenants /\ trace[i].prev \in Nat
  BY <1>1 DEF Event
<1>3. ASSUME NEW i \in DOMAIN trace
      PROVE  IF trace[i].prev = 0
             THEN trace[i].state = "PROPOSED"
             ELSE /\ trace[i].prev = i - 1
                  /\ trace[trace[i].prev].tenant = trace[i].tenant
                  /\ \/ <<trace[trace[i].prev].state, trace[i].state>> \in Legal
                     \/ /\ tenants'[trace[i].tenant] = "sim"
                        /\ trace[trace[i].prev].state = "APPROVED"
                        /\ trace[i].state = "SUBMITTED"
  <2>1. CASE trace[i].prev = 0
    BY <2>1 DEF Causal
  <2>2. CASE trace[i].prev # 0
    <3>1. trace[i].prev = i - 1 /\ Follows(trace[trace[i].prev], trace[i])
      BY <2>2 DEF Causal
    <3>2. trace[i].tenant \in Tenants
      BY <1>1, <1>2
    <3> QED
      BY <2>2, <3>1, <3>2 DEF Follows, SimsStay
  <2> QED
    BY <2>1, <2>2
<1> QED
  BY <1>3 DEF Causal, Follows

(* What may follow what the run has emitted. *)
MayEmit(s) ==
    \/ <<Reached, s>> \in Legal
    \/ tenants[T] = "sim" /\ Reached = "APPROVED" /\ s = "SUBMITTED"

(* A run emits one event. *)
LEMMA EmitCausal ==
    ASSUME TypeOK, CausalInv, pc \in Judged, NEW s \in States, Emit(s), MayEmit(s),
           UNCHANGED tenants
    PROVE  /\ \A id \in ActionIds : Causal(evidence[id])'
           /\ EndsIn(evidence'[Id], s)
<1>1. /\ T \in Tenants /\ Id \in ActionIds /\ evidence \in [ActionIds -> Seq(Event)]
      /\ last \in Nat
  BY RequestType DEF Judged, TypeOK
<1>2. /\ evidence[Id] \in Seq(Event) /\ Causal(evidence[Id])
      /\ last = Len(evidence[Id]) /\ EndsIn(evidence[Id], Reached)
  BY <1>1 DEF CausalInv
<1> DEFINE e == [tenant |-> T, state |-> s, prev |-> last]
           new == Link(evidence[Id], last, s)
<1>3. Follows(evidence[Id][last], e) /\ last > 0
  <2>1. e.tenant = T /\ e.state = s
    OBVIOUS
  <2> HIDE DEF e
  <2> QED
    BY <1>2, <2>1 DEF EndsIn, Follows, MayEmit
<1>4. Causal(new) /\ EndsIn(new, s) /\ new \in Seq(Event)
  BY <1>1, <1>2, <1>3, LinkCausal
<1>5. evidence' = [evidence EXCEPT ![Id] = new]
  BY <1>1 DEF Emit
<1> HIDE DEF new
<1>6. evidence'[Id] = new
  BY <1>1, <1>5
<1>7. ASSUME NEW id \in ActionIds PROVE Causal(evidence[id])'
  <2>1. Causal(evidence'[id]) /\ evidence'[id] \in Seq(Event)
    BY <1>1, <1>4, <1>5 DEF CausalInv
  <2> QED
    BY <2>1, CausalStays DEF SimsStay
<1> QED
  BY <1>4, <1>6, <1>7

(* A run emits two events, the second of which follows the first. *)
LEMMA EmitTwoCausal ==
    ASSUME TypeOK, CausalInv, pc # "idle", NEW f \in States, NEW s \in States,
           EmitTwo(f, s), <<f, s>> \in Legal, UNCHANGED tenants,
           \/ pc \notin Judged /\ f = "PROPOSED"
           \/ pc \in Judged /\ MayEmit(f)
    PROVE  /\ \A id \in ActionIds : Causal(evidence[id])'
           /\ EndsIn(evidence'[Id], s)
<1>1. /\ T \in Tenants /\ Id \in ActionIds /\ evidence \in [ActionIds -> Seq(Event)]
      /\ last \in Nat
  BY RequestType DEF TypeOK
<1>2. evidence[Id] \in Seq(Event) /\ Causal(evidence[Id])
  BY <1>1 DEF CausalInv
<1> DEFINE mid == Link(evidence[Id], last, f)
           new == Link(mid, Len(evidence[Id]) + 1, s)
<1>3. \/ last = 0 /\ f = "PROPOSED"
      \/ /\ last = Len(evidence[Id]) /\ last > 0
         /\ Follows(evidence[Id][last], [tenant |-> T, state |-> f, prev |-> last])
  <2> DEFINE e == [tenant |-> T, state |-> f, prev |-> last]
  <2>1. e.tenant = T /\ e.state = f
    OBVIOUS
  <2> HIDE DEF e
  <2>2. pc \in Judged => last = Len(evidence[Id]) /\ last > 0 /\ Follows(evidence[Id][last], e)
    BY <2>1 DEF CausalInv, EndsIn, Follows, MayEmit
  <2>3. pc \notin Judged => last = 0
    BY DEF CausalInv
  <2> QED
    BY <2>2, <2>3 DEF e
<1>4. /\ mid \in Seq(Event) /\ Len(mid) = Len(evidence[Id]) + 1 /\ Len(evidence[Id]) \in Nat
      /\ Causal(mid) /\ EndsIn(mid, f)
  BY <1>1, <1>2, <1>3, LinkCausal
<1> HIDE DEF mid
<1>5. new \in Seq(Event) /\ Causal(new) /\ EndsIn(new, s)
  <2> DEFINE k == Len(evidence[Id]) + 1
             e == [tenant |-> T, state |-> s, prev |-> k]
  <2>1. k \in Nat /\ k = Len(mid) /\ k > 0
    BY <1>4
  <2>2. Follows(mid[k], e)
    <3>1. e.tenant = T /\ e.state = s
      OBVIOUS
    <3> HIDE DEF e
    <3> QED
      BY <1>4, <2>1, <3>1 DEF EndsIn, Follows
  <2> HIDE DEF k
  <2> QED
    BY <1>1, <1>4, <2>1, <2>2, LinkCausal DEF k
<1>6. evidence' = [evidence EXCEPT ![Id] = new]
  BY <1>1 DEF EmitTwo, mid
<1> HIDE DEF new
<1>7. evidence'[Id] = new
  BY <1>1, <1>6
<1>8. ASSUME NEW id \in ActionIds PROVE Causal(evidence[id])'
  <2>1. Causal(evidence'[id]) /\ evidence'[id] \in Seq(Event)
    BY <1>1, <1>5, <1>6 DEF CausalInv
  <2> QED
    BY <2>1, CausalStays DEF SimsStay
<1> QED
  BY <1>5, <1>7, <1>8

(* A run that ends leaves the next one nothing to link to. *)
LEMMA CausalFinish ==
    ASSUME Finish, \A id \in ActionIds : Causal(evidence[id])'
    PROVE  CausalInv'
BY DEF Finish, CausalInv, Judged

(* A run that goes on links to what it emitted. *)
LEMMA CausalProceed ==
    ASSUME NEW stage \in Judged, Proceed(stage), NEW s,
           \A id \in ActionIds : Causal(evidence[id])',
           EndsIn(evidence'[Id], s), s = Reached', stage # "sign"
    PROVE  CausalInv'
<1>1. pc' = stage /\ last' = Len(evidence'[Id]) /\ UNCHANGED req
  BY DEF Proceed
<1>2. T' = T /\ Id' = Id
  BY <1>1 DEF T, Id, A, B
<1>3. EndsIn(evidence[Id], Reached)'
  BY <1>2 DEF EndsIn
<1> QED
  BY <1>1, <1>2, <1>3 DEF CausalInv

(* The loop stays where it is. *)
LEMMA CausalFrame ==
    ASSUME TypeOK, CausalInv, UNCHANGED <<evidence, pc, req, last>>, SimsStay,
           pc # "idle" => tenants'[T] = tenants[T]
    PROVE  CausalInv'
<1>1. \A id \in ActionIds : Causal(evidence[id])'
  BY CausalStays DEF CausalInv, TypeOK
<1>2. T' = T /\ Id' = Id
  BY DEF T, Id, A, B
<1>3. pc \in Judged => Reached' = Reached
  BY <1>2 DEF Reached, Judged
<1>4. pc \in Judged => EndsIn(evidence[Id], Reached)'
  BY <1>2, <1>3 DEF CausalInv, EndsIn
<1> QED
  BY <1>1, <1>2, <1>4 DEF CausalInv

(* Layers 1 to 4. *)
LEMMA CausalEvaluate ==
    ASSUME TypeOK, CausalInv, Evaluate
    PROVE  CausalInv'
<1>0. UNCHANGED tenants
  BY DEF Evaluate, envVars
<1>1. /\ "PROPOSED" \in States /\ "AUTHORIZED" \in States /\ "EVALUATED" \in States
      /\ "APPROVED" \in States /\ "REJECTED" \in States
  BY DEF States
<1>2. /\ pc = "hygiene" => Reached = "AUTHORIZED"
      /\ pc \in {"risk", "human"} => Reached = "EVALUATED"
      /\ pc' \in {"hygiene"} => Reached' = "AUTHORIZED"
      /\ pc' \in {"risk", "human"} => Reached' = "EVALUATED"
      /\ pc' = "replay" => Reached' = "APPROVED"
  BY DEF Reached
<1> DEFINE Traces == \A id \in ActionIds : Causal(evidence[id])'
<1>3. CASE StructureRefuse
  <2>1. UNCHANGED evidence /\ Finish
    BY <1>3 DEF StructureRefuse
  <2>2. Traces
    BY <1>0, <2>1, CausalStays DEF CausalInv, TypeOK, SimsStay
  <2> QED
    BY <2>1, <2>2, CausalFinish
<1>4. CASE EpistemicRefuse \/ EpistemicPass
  <2>1. PICK s \in {"REJECTED", "AUTHORIZED"} :
          /\ EmitTwo("PROPOSED", s)
          /\ s = "REJECTED" => Finish
          /\ s = "AUTHORIZED" => Proceed("hygiene")
    BY <1>4 DEF EpistemicRefuse, EpistemicPass
  <2>2. pc = "epistemic" /\ pc \notin Judged
    BY <1>4 DEF EpistemicRefuse, EpistemicPass, Judged
  <2>3. Traces /\ EndsIn(evidence'[Id], s)
    <3>1. <<"PROPOSED", s>> \in Legal /\ s \in States
      BY <1>1 DEF Legal
    <3> QED
      BY <1>0, <1>1, <2>1, <2>2, <3>1, EmitTwoCausal
  <2>4. CASE s = "REJECTED"
    BY <2>1, <2>3, <2>4, CausalFinish
  <2>5. CASE s = "AUTHORIZED"
    <3>1. pc' = "hygiene" /\ "hygiene" \in Judged
      BY <2>1, <2>5 DEF Proceed, Judged
    <3> QED
      BY <1>2, <2>1, <2>3, <2>5, <3>1, CausalProceed
  <2> QED
    BY <2>1, <2>4, <2>5
<1>5. CASE HygieneRefuse \/ RiskRefuse
  <2>1. /\ pc \in {"hygiene", "risk"} /\ pc \in Judged
        /\ EmitTwo("EVALUATED", "REJECTED") /\ Finish
    BY <1>5 DEF HygieneRefuse, RiskRefuse, Judged
  <2>2. MayEmit("EVALUATED") /\ <<"EVALUATED", "REJECTED">> \in Legal
    BY <1>2, <2>1 DEF MayEmit, Legal
  <2>3. Traces
    BY <1>0, <1>1, <2>1, <2>2, EmitTwoCausal
  <2> QED
    BY <2>1, <2>3, CausalFinish
<1>6. CASE DowngradeRefuse \/ DowngradePartial \/ HumanRefuse
  <2>1. pc \in {"hygiene", "human"} /\ pc \in Judged /\ Emit("REJECTED") /\ Finish
    BY <1>6 DEF DowngradeRefuse, DowngradePartial, HumanRefuse, Judged
  <2>2. MayEmit("REJECTED")
    BY <1>2, <2>1 DEF MayEmit, Legal
  <2>3. Traces
    BY <1>0, <1>1, <2>1, <2>2, EmitCausal
  <2> QED
    BY <2>1, <2>3, CausalFinish
<1>7. CASE HygienePass \/ DowngradeRelease \/ RiskPass
  <2>1. PICK stage \in {"risk", "human"} :
          /\ pc \in {"hygiene", "risk"} /\ pc \in Judged
          /\ Emit("EVALUATED") /\ Proceed(stage)
    BY <1>7 DEF HygienePass, DowngradeRelease, RiskPass, Judged
  <2>2. MayEmit("EVALUATED")
    BY <1>2, <2>1 DEF MayEmit, Legal
  <2>3. Traces /\ EndsIn(evidence'[Id], "EVALUATED")
    BY <1>0, <1>1, <2>1, <2>2, EmitCausal
  <2>4. pc' = stage /\ stage \in Judged /\ stage # "sign"
    BY <2>1 DEF Proceed, Judged
  <2> QED
    BY <1>2, <2>1, <2>3, <2>4, CausalProceed
<1>8. CASE HumanPass
  <2>1. /\ pc = "human" /\ pc \in Judged
        /\ Emit("APPROVED") /\ Proceed("replay")
    BY <1>8 DEF HumanPass, Judged
  <2>2. MayEmit("APPROVED")
    BY <1>2, <2>1 DEF MayEmit, Legal
  <2>3. Traces /\ EndsIn(evidence'[Id], "APPROVED")
    BY <1>0, <1>1, <2>1, <2>2, EmitCausal
  <2>4. pc' = "replay" /\ "replay" \in Judged
    BY <2>1 DEF Proceed, Judged
  <2> QED
    BY <1>2, <2>1, <2>3, <2>4, CausalProceed
<1> QED
  BY <1>3, <1>4, <1>5, <1>6, <1>7, <1>8 DEF Evaluate

(* Layers 5 to 10. *)
LEMMA CausalExecute ==
    ASSUME OnceInv, CausalInv, Execute
    PROVE  CausalInv'
<1>0. UNCHANGED tenants /\ TypeOK
  BY DEF Execute, envVars, OnceInv
<1>1. /\ "SIGNED" \in States /\ "SUBMITTED" \in States /\ "SETTLED" \in States
      /\ "FAILED" \in States /\ "REJECTED" \in States
  BY DEF States
<1> DEFINE Traces == \A id \in ActionIds : Causal(evidence[id])'
<1>2. UNCHANGED evidence => Traces
  BY <1>0, CausalStays DEF CausalInv, TypeOK, SimsStay
<1>3. CASE ReplayRefuse \/ SettleRefuse \/ VelocityRefuse
  <2>1. pc \in {"replay", "settle", "sign"} /\ pc \in Judged /\ Emit("REJECTED") /\ Finish
    BY <1>3 DEF ReplayRefuse, SettleRefuse, VelocityRefuse, Judged
  <2>2. MayEmit("REJECTED")
    BY <2>1 DEF MayEmit, Legal, Reached
  <2>3. Traces
    BY <1>0, <1>1, <2>1, <2>2, EmitCausal
  <2> QED
    BY <2>1, <2>3, CausalFinish
<1>4. CASE SignerFails
  BY <1>2, <1>4, CausalFinish DEF SignerFails
<1>5. CASE ReplayPass \/ SettlePass
  <2>1. /\ UNCHANGED <<evidence, req, last>> /\ pc \in {"replay", "settle"} /\ pc \in Judged
        /\ \/ pc' = "settle"
           \/ pc' = "sign" /\ tenants[T] = "live"
           \/ pc' = "submit" /\ tenants[T] # "live"
    BY <1>5 DEF ReplayPass, SettlePass, Judged
  <2>2. T' = T /\ Id' = Id
    BY <2>1 DEF T, Id, A, B
  <2>3. Reached = "APPROVED" /\ Reached' = "APPROVED"
    BY <1>0, <2>1, <2>2 DEF Reached
  <2>4. EndsIn(evidence[Id], Reached)'
    BY <2>1, <2>2, <2>3 DEF CausalInv, EndsIn
  <2>5. last' = Len(evidence'[Id'])
    BY <2>1, <2>2 DEF CausalInv
  <2>6. pc' \in Judged /\ (pc' = "sign" => tenants'[T'] = "live")
    BY <1>0, <2>1, <2>2 DEF Judged
  <2> QED
    BY <1>2, <2>1, <2>4, <2>5, <2>6 DEF CausalInv
<1>6. CASE Sign
  <2>1. pc = "sign" /\ pc \in Judged /\ Emit("SIGNED") /\ Proceed("submit")
    BY <1>6 DEF Sign, Judged
  <2>2. MayEmit("SIGNED") /\ tenants[T] = "live"
    BY <2>1 DEF MayEmit, Legal, Reached, CausalInv
  <2>3. Traces /\ EndsIn(evidence'[Id], "SIGNED")
    BY <1>0, <1>1, <2>1, <2>2, EmitCausal
  <2>4. pc' = "submit" /\ T' = T /\ "submit" \in Judged
    BY <2>1 DEF Proceed, Judged, T
  <2>5. Reached' = "SIGNED"
    BY <1>0, <2>2, <2>4 DEF Reached
  <2> QED
    BY <2>1, <2>3, <2>4, <2>5, CausalProceed
<1>7. CASE Submit
  <2>1. pc = "submit" /\ pc \in Judged /\ Emit("SUBMITTED") /\ Proceed("reconcile")
    BY <1>7 DEF Submit, Judged
  <2>2. tenants[T] = "live" \/ tenants[T] = "sim"
    BY <2>1 DEF OnceInv, ClaimHeld, Alive
  <2>3. MayEmit("SUBMITTED")
    BY <2>1, <2>2 DEF MayEmit, Legal, Reached
  <2>4. Traces /\ EndsIn(evidence'[Id], "SUBMITTED")
    BY <1>0, <1>1, <2>1, <2>3, EmitCausal
  <2>5. pc' = "reconcile" /\ "reconcile" \in Judged
    BY <2>1 DEF Proceed, Judged
  <2>6. Reached' = "SUBMITTED"
    BY <2>5 DEF Reached
  <2> QED
    BY <2>1, <2>4, <2>5, <2>6, CausalProceed
<1>8. CASE \E code \in VenueCodes : Reconcile(code)
  <2>1. PICK s \in {"SETTLED", "FAILED"} : Emit(s) /\ Finish /\ pc = "reconcile" /\ pc \in Judged
    BY <1>8 DEF Reconcile, Judged
  <2>2. MayEmit(s) /\ s \in States
    BY <1>1, <2>1 DEF MayEmit, Legal, Reached
  <2>3. Traces
    BY <1>0, <2>1, <2>2, EmitCausal
  <2> QED
    BY <2>1, <2>3, CausalFinish
<1> QED
  BY <1>3, <1>4, <1>5, <1>6, <1>7, <1>8 DEF Execute

(* Every step keeps the traces causal and the link at their end. *)
LEMMA CausalStep == OnceInv /\ CausalInv /\ [Next]_vars => CausalInv'
<1> SUFFICES ASSUME OnceInv, CausalInv, [Next]_vars PROVE CausalInv'
  OBVIOUS
<1>0. TypeOK /\ (pc # "idle" => T \in Tenants /\ Alive(T))
  BY RequestType DEF OnceInv, ClaimHeld
<1>1. CASE Gate \/ \E r \in Requests : Arrive(r)
  <2>1. /\ UNCHANGED <<evidence, tenants>> /\ pc \notin Judged /\ pc' \notin Judged
        /\ last' \in {last, 0}
    BY <1>1 DEF Gate, GateDormant, GateRefuse, GateAccept, CheckBreaker, Finish, Arrive,
                envVars, Judged
  <2>2. \A id \in ActionIds : Causal(evidence[id])'
    BY <1>0, <2>1, CausalStays DEF CausalInv, TypeOK, SimsStay
  <2>3. last' = 0 /\ pc' # "sign"
    BY <2>1 DEF CausalInv, Judged
  <2> QED
    BY <2>1, <2>2, <2>3 DEF CausalInv
<1>2. CASE Evaluate
  BY <1>0, <1>2, CausalEvaluate
<1>3. CASE Execute
  BY <1>3, CausalExecute
<1>4. CASE SafetyVerb \/ KeyOperation \/ Tick \/ UNCHANGED vars
  <2>1. UNCHANGED <<evidence, pc, req, last, tenants>>
    BY <1>4 DEF SafetyVerb, KeyOperation, Tick, vars, loopVars
  <2> QED
    BY <1>0, <2>1, CausalFrame DEF SimsStay
<1>5. CASE \E t \in Tenants, kind \in {"sim", "live"} : CreateTenant(t, kind)
  <2>1. PICK t \in Tenants, kind \in {"sim", "live"} : CreateTenant(t, kind)
    BY <1>5
  <2>2. /\ UNCHANGED <<evidence, pc, req, last>>
        /\ tenants' = [tenants EXCEPT ![t] = kind] /\ tenants[t] = "unborn"
    BY <2>1 DEF CreateTenant, loopVars
  <2>3. SimsStay /\ (pc # "idle" => tenants'[T] = tenants[T])
    BY <1>0, <2>2 DEF TypeOK, SimsStay, Alive
  <2> QED
    BY <1>0, <2>2, <2>3, CausalFrame
<1>6. CASE Restart
  <2>1. evidence' = [id \in ActionIds |-> <<>>] /\ Finish
    BY <1>6 DEF Restart
  <2>2. \A id \in ActionIds : Causal(evidence[id])'
    BY <2>1 DEF Causal
  <2> QED
    BY <2>1, <2>2, CausalFinish
<1> QED
  BY <1>1, <1>2, <1>3, <1>4, <1>5, <1>6 DEF Next, Handler

(* Every event of the evidence graph starts a run or follows the event     *)
(* before it by a legal transition of the same tenant, although all runs   *)
(* of an action id share one trace.                                        *)
THEOREM EvidenceIsCausal == Spec => []RunsAreCausal
<1>1. Init => OnceInv /\ CausalInv
  <2> SUFFICES ASSUME Init PROVE OnceInv /\ CausalInv
    OBVIOUS
  <2>1. evidence = [id \in ActionIds |-> <<>>] /\ pc = "idle" /\ last = 0
    BY DEF Init
  <2>2. \A id \in ActionIds : Causal(evidence[id])
    BY <2>1 DEF Causal
  <2> QED
    BY <2>1, <2>2, OnceInit DEF CausalInv, Judged
<1>2. CausalInv => RunsAreCausal
  <2> SUFFICES ASSUME CausalInv, NEW id \in ActionIds, NEW i \in DOMAIN evidence[id]
               PROVE  IF evidence[id][i].prev = 0
                      THEN evidence[id][i].state = "PROPOSED"
                      ELSE /\ evidence[id][i].prev = i - 1
                           /\ Follows(evidence[id][evidence[id][i].prev], evidence[id][i])
    BY DEF RunsAreCausal, Follows
  <2> QED
    BY DEF CausalInv, Causal
<1>3. OnceInv /\ CausalInv /\ [Next]_vars => (OnceInv /\ CausalInv)'
  BY OnceStep, CausalStep
<1> QED
  BY <1>1, <1>2, <1>3, PTL DEF Spec
=============================================================================
