---------------------------- MODULE LedgerProofs ----------------------------
(***************************************************************************)
(* A tenant's ledger and its meter for any number of worker threads and    *)
(* appended entries.  Nothing is locked, so the invariants follow what     *)
(* each thread still has to write: LInv is about every interleaving,       *)
(* SInv about those in which no two appends overlapped, MInv about the     *)
(* meter.                                                                  *)
(***************************************************************************)
EXTENDS TenantLedger, FiniteSetTheorems, TLAPS

Pending == {"seq", "sign", "push"}

(* All that a hash stands for has been appended. *)
Within(d) == \A n \in DOMAIN d : \E j \in DOMAIN records : records[j].call = d[n]

(* A call is one append: its entry is in the ledger from the push on, and  *)
(* until then nobody else has its number.                                  *)
CallInv ==
    /\ \A i \in DOMAIN records : records[i].call <= calls
    /\ \A p \in Actors : pc[p] # "idle" =>
          /\ loc[p].call \in 1 .. calls
          /\ pc[p] \in Pending => \A i \in DOMAIN records : records[i].call # loc[p].call
          /\ \A q \in Actors : pc[q] # "idle" /\ loc[p].call = loc[q].call => p = q

(* What a thread has read is not newer than the ledger. *)
ReadInv ==
    /\ Within(head)
    /\ \A p \in Actors :
          /\ pc[p] \in {"sign", "push"} => loc[p].seq <= Len(records) + 1
          /\ pc[p] = "push" => Within(loc[p].prev)
          /\ pc[p] = "hash" => \E j \in DOMAIN records : records[j].call = loc[p].call
          /\ pc[p] = "advance" => Within(loc[p].link)

LInv == LedgerIsHistory /\ CallInv /\ ReadInv

(* While no two appends have overlapped, one thread at most is appending,  *)
(* and at each place its locals and the head are those of the whole chain. *)
SInv ==
    "ledger" \notin overlap =>
        /\ SerialLedgerVerifies
        /\ \A p, q \in Actors : pc[p] \in Appending /\ pc[q] \in Appending => p = q
        /\ \A p \in Actors :
              /\ pc[p] = "sign" => loc[p].seq = Len(records) + 1 /\ head = Chain
              /\ pc[p] = "push" =>
                    loc[p].seq = Len(records) + 1 /\ head = Chain /\ loc[p].prev = Chain
              /\ pc[p] = "hash" => Append(head, loc[p].call) = Chain
              /\ pc[p] = "advance" => loc[p].link = Chain

(* What is metered, and what a thread has accrued and not entered yet. *)
Billable == MeteredCount + Accruing

(* A sum a thread has read was covered; it is the sum still while no two   *)
(* accruals have overlapped, for then nobody else is accruing.             *)
MInv ==
    /\ NeverOverbilled
    /\ \A p \in Actors : pc[p] \in {"meter", "accrue", "enter"} => p \in Workers
    /\ \A p \in Actors : pc[p] = "accrue" =>
          /\ loc[p].auto /\ loc[p].sum <= Billable
          /\ "meter" \notin overlap =>
                /\ loc[p].sum = aumSum
                /\ \A q \in Actors : pc[q] = "accrue" => p = q

-----------------------------------------------------------------------------
(* Types. *)

LEMMA TypeStep == TypeOK /\ [Next]_vars => TypeOK'
<1> SUFFICES ASSUME TypeOK, [Next]_vars PROVE TypeOK'
  OBVIOUS
<1> USE DEF TypeOK, Appending, Metering
<1>0. /\ Len(records) + 1 \in Nat /\ calls + 1 \in Nat /\ NoLocals \in Locals
      /\ \A p \in Actors : Append(head, loc[p].call) \in Digest
  BY DEF Locals, Digest, NoLocals
<1>1. ASSUME NEW p \in Actors, Step(p) PROVE TypeOK'
  <2>1. CASE ReadSeq(p)
    <3>1. loc' \in [Actors -> Locals]
      BY <1>0, <2>1 DEF ReadSeq, Locals
    <3> QED
      BY <2>1, <3>1 DEF ReadSeq, Enters, Goto, ledgerVars, meterVars
  <2>2. CASE Sign(p)
    BY <2>2 DEF Sign, Goto, ledgerVars, meterVars, Locals
  <2>3. CASE Push(p)
    BY <2>3 DEF Push, Entry, Goto, ledgerVars, meterVars, Locals
  <2>4. CASE Hash(p)
    <3>1. loc' \in [Actors -> Locals]
      BY <1>0, <2>4 DEF Hash, Locals
    <3> QED
      BY <2>4, <3>1 DEF Hash, Goto, ledgerVars, meterVars
  <2>5. CASE Advance(p)
    <3>1. loc' \in [Actors -> Locals] /\ head' \in Digest
      BY <1>0, <2>5 DEF Advance, Return, Locals
    <3>2. pc' \in [Actors -> {"idle", "seq", "meter", "enter"} \cup Appending \cup Metering]
      BY <2>5 DEF Advance, Return, Goto
    <3> QED
      BY <2>5, <3>1, <3>2 DEF Advance, meterVars
  <2>6. CASE ReadSum(p)
    BY <2>6 DEF ReadSum, Enters, Goto, ledgerVars, meterVars, Locals
  <2>7. CASE WriteSum(p)
    BY <2>7 DEF WriteSum, Goto, ledgerVars, meterVars, Locals
  <2>8. CASE SkipSum(p)
    BY <2>8 DEF SkipSum, Goto, ledgerVars, meterVars
  <2>9. CASE Enter(p)
    BY <1>0, <2>9 DEF Enter, MeterEntry, Return, ledgerVars, meterVars, Locals
  <2> QED
    BY <1>1, <2>1, <2>2, <2>3, <2>4, <2>5, <2>6, <2>7, <2>8, <2>9 DEF Step
<1>2. ASSUME NEW p \in Actors, NEW auto \in BOOLEAN, Begin(p, auto) PROVE TypeOK'
  <2>1. loc' \in [Actors -> Locals]
    BY <1>0, <1>2 DEF Begin, Locals
  <2> QED
    BY <1>0, <1>2, <2>1 DEF Begin, Goto, ledgerVars, meterVars
<1>3. CASE UNCHANGED vars
  BY <1>3 DEF vars, ledgerVars, meterVars
<1> QED
  BY <1>1, <1>2, <1>3 DEF Next, Actors

-----------------------------------------------------------------------------
(* Every interleaving. *)

(* A push adds the entry at the end, and what was within the ledger is. *)
LEMMA PushEffect ==
    ASSUME TypeOK, NEW p \in Actors, Push(p)
    PROVE  /\ Len(records') = Len(records) + 1
           /\ DOMAIN records' = DOMAIN records \cup {Len(records) + 1}
           /\ DOMAIN records = 1 .. Len(records) /\ Len(records) \in Nat
           /\ \A i \in DOMAIN records : records'[i] = records[i]
           /\ records'[Len(records) + 1] = Entry(p)
<1>1. Entry(p) \in [seq: Nat, prev: Digest, call: Nat]
  BY DEF TypeOK, Entry, Locals
<1> DEFINE R == [seq: Nat, prev: Digest, call: Nat]
<1>2. records \in Seq(R) /\ records' = Append(records, Entry(p))
  BY DEF TypeOK, Push
<1> HIDE DEF Entry, R
<1> QED
  BY <1>1, <1>2 DEF R

LEMMA HistoryKept ==
    ASSUME LInv, TypeOK', UNCHANGED records
    PROVE  LedgerIsHistory'
BY DEF LInv, LedgerIsHistory

LEMMA CallKept ==
    ASSUME CallInv, UNCHANGED <<records, calls>>,
           \A q \in Actors : pc'[q] # "idle" =>
               /\ pc[q] # "idle" /\ loc'[q].call = loc[q].call
               /\ pc'[q] \in Pending => pc[q] \in Pending
    PROVE  CallInv'
BY DEF CallInv

LEMMA ReadKept ==
    ASSUME ReadInv, UNCHANGED <<records, head>>,
           \A q \in Actors : pc'[q] \in {"sign", "push", "hash", "advance"} =>
               pc'[q] = pc[q] /\ loc'[q] = loc[q]
    PROVE  ReadInv'
<1>1. \A d : Within(d) => Within(d)'
  BY DEF Within
<1>2. \A q \in Actors :
         /\ pc'[q] = "sign" => pc[q] = "sign" /\ loc'[q] = loc[q]
         /\ pc'[q] = "push" => pc[q] = "push" /\ loc'[q] = loc[q]
         /\ pc'[q] = "hash" => pc[q] = "hash" /\ loc'[q] = loc[q]
         /\ pc'[q] = "advance" => pc[q] = "advance" /\ loc'[q] = loc[q]
  OBVIOUS
<1> QED
  BY <1>1, <1>2 DEF ReadInv, Within

LEMMA LInvStep == LInv /\ [Next]_vars => LInv'
<1> SUFFICES ASSUME LInv, [Next]_vars PROVE LInv'
  OBVIOUS
<1>t. TypeOK /\ TypeOK'
  BY TypeStep DEF LInv, LedgerIsHistory
<1>w. UNCHANGED records => \A d : Within(d) => Within(d)'
  BY DEF Within
<1> DEFINE Frame == /\ UNCHANGED <<records, head, calls>>
                    /\ \A q \in Actors : loc'[q].call = loc[q].call
<1>1. ASSUME NEW p \in Actors, Step(p) PROVE LInv'
  <2>1. CASE ReadSeq(p)
    <3>1. /\ Frame /\ pc[p] = "seq" /\ pc' = [pc EXCEPT ![p] = "sign"]
          /\ loc'[p].seq = Len(records) + 1
          /\ \A q \in Actors \ {p} : loc'[q] = loc[q]
      BY <1>t, <2>1 DEF ReadSeq, Goto, ledgerVars, TypeOK, Locals
    <3>2. CallInv'
      BY <1>t, <3>1, CallKept DEF LInv, Pending, TypeOK
    <3>3. ReadInv'
      BY <1>t, <3>1, <1>w DEF LInv, ReadInv, TypeOK
    <3> QED
      BY <1>t, <3>1, <3>2, <3>3, HistoryKept DEF LInv
  <2>2. CASE Sign(p)
    <3>1. /\ Frame /\ pc[p] = "sign" /\ pc' = [pc EXCEPT ![p] = "push"]
          /\ loc'[p].prev = head /\ loc'[p].seq = loc[p].seq
          /\ \A q \in Actors \ {p} : loc'[q] = loc[q]
      BY <1>t, <2>2 DEF Sign, Goto, ledgerVars, TypeOK, Locals
    <3>2. CallInv'
      BY <1>t, <3>1, CallKept DEF LInv, Pending, TypeOK
    <3>3. ReadInv'
      BY <1>t, <3>1, <1>w DEF LInv, ReadInv, TypeOK
    <3> QED
      BY <1>t, <3>1, <3>2, <3>3, HistoryKept DEF LInv
  <2>3. CASE Push(p)
    <3>1. /\ UNCHANGED <<head, loc, calls>> /\ pc[p] = "push"
          /\ pc' = [pc EXCEPT ![p] = "hash"]
      BY <2>3 DEF Push, Goto
    <3>2. /\ Len(records') = Len(records) + 1
          /\ DOMAIN records' = DOMAIN records \cup {Len(records) + 1}
          /\ DOMAIN records = 1 .. Len(records) /\ Len(records) \in Nat
          /\ \A i \in DOMAIN records : records'[i] = records[i]
          /\ records'[Len(records) + 1] = Entry(p)
      BY <1>t, <2>3, PushEffect
    <3>3. /\ Entry(p).call = loc[p].call /\ Entry(p).seq = loc[p].seq
          /\ Entry(p).prev = loc[p].prev
      BY DEF Entry
    <3>4. CallInv'
      <4>1. \A i \in DOMAIN records' : records'[i].call <= calls
        <5>1. loc[p].call <= calls
          BY <3>1 DEF LInv, CallInv
        <5> QED
          BY <3>2, <3>3, <5>1 DEF LInv, CallInv
      <4>2. ASSUME NEW q \in Actors, pc'[q] # "idle"
            PROVE  pc[q] # "idle" /\ (pc'[q] \in Pending => pc[q] \in Pending /\ q # p)
        BY <1>t, <3>1, <4>2 DEF Pending, TypeOK
      <4>3. \A q \in Actors \ {p} : pc[q] # "idle" => loc[q].call # loc[p].call
        BY <3>1 DEF LInv, CallInv
      <4> QED
        BY <3>1, <3>2, <3>3, <4>1, <4>2, <4>3 DEF LInv, CallInv
    <3>5. \A d : Within(d) => Within(d)'
      BY <3>2 DEF Within
    <3>6. ReadInv'
      <4>1. Len(records) + 1 \in DOMAIN records' /\ records'[Len(records) + 1].call = loc[p].call
        BY <3>2, <3>3
      <4>2. \A q \in Actors : loc[q].seq <= Len(records) + 1 => loc[q].seq <= Len(records') + 1
        <5>1. \A q \in Actors : loc[q].seq \in Nat
          BY <1>t DEF TypeOK, Locals
        <5> QED
          BY <3>2, <5>1
      <4>3. \A q \in Actors : /\ q # p => pc'[q] = pc[q]
                              /\ q = p => pc'[q] = "hash"
                              /\ loc'[q] = loc[q]
        BY <1>t, <3>1 DEF TypeOK
      <4>4. \A q \in Actors : pc'[q] = "hash" =>
               \E j \in DOMAIN records' : records'[j].call = loc'[q].call
        <5> TAKE q \in Actors
        <5>1. CASE q = p
          BY <4>1, <4>3, <5>1
        <5>2. CASE q # p
          BY <3>2, <4>3, <5>2 DEF LInv, ReadInv
        <5> QED
          BY <5>1, <5>2
      <4>5. \A q \in Actors : pc'[q] \in {"sign", "push"} => loc'[q].seq <= Len(records') + 1
        BY <4>2, <4>3 DEF LInv, ReadInv
      <4>6. Within(head)' /\ \A q \in Actors :
               /\ pc'[q] = "push" => Within(loc[q].prev)'
               /\ pc'[q] = "advance" => Within(loc[q].link)'
        <5>1. /\ \A d : Within(d) => \A n \in DOMAIN d : \E j \in DOMAIN records' : records'[j].call = d[n]
              /\ Within(head) /\ head' = head
          BY <3>1, <3>2 DEF LInv, ReadInv, Within
        <5>2. \A q \in Actors : /\ pc'[q] = "push" => Within(loc[q].prev)
                                /\ pc'[q] = "advance" => Within(loc[q].link)
          BY <4>3 DEF LInv, ReadInv
        <5> QED
          BY <4>3, <5>1, <5>2 DEF Within
      <4> QED
        BY <4>4, <4>5, <4>6 DEF ReadInv
    <3>7. LedgerIsHistory'
      <4>1. ASSUME NEW i \in DOMAIN records'
            PROVE  /\ records'[i].seq <= i
                   /\ \A n \in DOMAIN records'[i].prev :
                         \E j \in 1..(i - 1) : records'[j].call = records'[i].prev[n]
        <5>1. CASE i \in DOMAIN records
          BY <3>2, <5>1 DEF LInv, LedgerIsHistory
        <5>2. CASE i = Len(records) + 1
          <6>1. loc[p].seq <= Len(records) + 1 /\ Within(loc[p].prev)
            BY <3>1 DEF LInv, ReadInv
          <6>2. i - 1 = Len(records)
            BY <3>2, <5>2
          <6>3. records'[i].seq = loc[p].seq /\ records'[i].prev = loc[p].prev
            BY <3>2, <3>3, <5>2
          <6>4. ASSUME NEW n \in DOMAIN loc[p].prev
                PROVE  \E j \in 1 .. Len(records) : records'[j].call = loc[p].prev[n]
            BY <3>2, <6>1 DEF Within
          <6> QED
            BY <5>2, <6>1, <6>2, <6>3, <6>4
        <5> QED
          BY <3>2, <5>1, <5>2
      <4>2. ASSUME NEW i \in DOMAIN records', NEW j \in DOMAIN records',
                   records'[i].call = records'[j].call
            PROVE  i = j
        <5>1. \A k \in DOMAIN records : records[k].call # loc[p].call
          BY <1>t, <3>1 DEF LInv, CallInv, Pending
        <5> QED
          BY <3>2, <3>3, <4>2, <5>1 DEF LInv, LedgerIsHistory
      <4> QED
        BY <1>t, <4>1, <4>2 DEF LedgerIsHistory
    <3> QED
      BY <3>4, <3>6, <3>7 DEF LInv
  <2>4. CASE Hash(p)
    <3>1. /\ Frame /\ pc[p] = "hash" /\ pc' = [pc EXCEPT ![p] = "advance"]
          /\ loc'[p].link = Append(head, loc[p].call)
          /\ \A q \in Actors \ {p} : loc'[q] = loc[q]
      BY <1>t, <2>4 DEF Hash, Goto, ledgerVars, TypeOK, Locals
    <3>2. CallInv'
      BY <1>t, <3>1, CallKept DEF LInv, Pending, TypeOK
    <3>3. Within(Append(head, loc[p].call))
      <4>1. \E j \in DOMAIN records : records[j].call = loc[p].call
        BY <3>1 DEF LInv, ReadInv
      <4>2. Within(head) /\ head \in Seq(Nat) /\ loc[p].call \in Nat
        BY <1>t DEF LInv, ReadInv, TypeOK, Digest, Locals
      <4> QED
        BY <4>1, <4>2 DEF Within
    <3>4. ReadInv'
      <4>1. PICK d : d = loc'[p].link /\ Within(d)
        BY <3>1, <3>3
      <4>2. \A q \in Actors \ {p} : pc'[q] = pc[q]
        BY <1>t, <3>1 DEF TypeOK
      <4>3. pc'[p] \notin {"sign", "push", "hash"}
        BY <1>t, <3>1 DEF TypeOK
      <4> QED
        BY <3>1, <4>1, <4>2, <4>3 DEF LInv, ReadInv, Within
    <3> QED
      BY <1>t, <3>1, <3>2, <3>4, HistoryKept DEF LInv
  <2>5. CASE Advance(p)
    <3>1. /\ pc[p] = "advance" /\ UNCHANGED <<records, calls>> /\ head' = loc[p].link
          /\ pc'[p] \in {"idle", "meter"}
          /\ \A q \in Actors \ {p} : pc'[q] = pc[q] /\ loc'[q] = loc[q]
          /\ pc'[p] # "idle" => loc'[p] = loc[p]
      BY <1>t, <2>5 DEF Advance, Return, Goto, TypeOK
    <3>2. CallInv'
      BY <1>t, <3>1, CallKept DEF LInv, Pending, TypeOK
    <3>3. ReadInv'
      <4>1. PICK d : d = loc[p].link /\ Within(d)
        BY <3>1 DEF LInv, ReadInv
      <4>2. \A q \in Actors \ {p} : pc'[q] = pc[q]
        BY <1>t, <3>1 DEF TypeOK
      <4>3. pc'[p] \notin {"sign", "push", "hash"}
        BY <1>t, <3>1 DEF TypeOK
      <4> QED
        BY <3>1, <4>1, <4>2, <4>3 DEF LInv, ReadInv, Within
    <3> QED
      BY <1>t, <3>1, <3>2, <3>3, HistoryKept DEF LInv
  <2>6. CASE ReadSum(p) \/ WriteSum(p) \/ SkipSum(p)
    <3>1. /\ Frame /\ pc[p] \in {"meter", "accrue"} /\ pc'[p] \in {"accrue", "enter"}
          /\ \A q \in Actors \ {p} : pc'[q] = pc[q] /\ loc'[q] = loc[q]
      <4>1. CASE ReadSum(p)
        BY <1>t, <4>1 DEF ReadSum, Goto, ledgerVars, TypeOK, Locals
      <4>2. CASE WriteSum(p)
        BY <1>t, <4>2 DEF WriteSum, Goto, ledgerVars, TypeOK
      <4>3. CASE SkipSum(p)
        BY <1>t, <4>3 DEF SkipSum, Goto, ledgerVars, TypeOK
      <4> QED
        BY <2>6, <4>1, <4>2, <4>3
    <3>2. CallInv'
      BY <1>t, <3>1, CallKept DEF LInv, Pending, TypeOK
    <3>3. ReadInv'
      <4>1. \A q \in Actors : pc'[q] \in {"sign", "push", "hash", "advance"} => q # p
        BY <3>1
      <4> QED
        BY <3>1, <4>1, ReadKept DEF LInv
    <3> QED
      BY <1>t, <3>1, <3>2, <3>3, HistoryKept DEF LInv
  <2>7. CASE Enter(p)
    <3>1. /\ UNCHANGED <<records, head, calls>> /\ pc'[p] = "idle"
          /\ \A q \in Actors \ {p} : pc'[q] = pc[q] /\ loc'[q] = loc[q]
      BY <1>t, <2>7 DEF Enter, Return, ledgerVars, TypeOK
    <3>2. CallInv'
      BY <1>t, <3>1, CallKept DEF LInv, Pending, TypeOK
    <3>3. ReadInv'
      <4>1. \A q \in Actors : pc'[q] \in {"sign", "push", "hash", "advance"} => q # p
        BY <3>1
      <4> QED
        BY <3>1, <4>1, ReadKept DEF LInv
    <3> QED
      BY <1>t, <3>1, <3>2, <3>3, HistoryKept DEF LInv
  <2> QED
    BY <1>1, <2>1, <2>2, <2>3, <2>4, <2>5, <2>6, <2>7 DEF Step
<1>2. ASSUME NEW p \in Actors, NEW auto \in BOOLEAN, Begin(p, auto) PROVE LInv'
  <2>1. /\ UNCHANGED <<records, head>> /\ calls' = calls + 1 /\ pc[p] = "idle"
        /\ pc' = [pc EXCEPT ![p] = "seq"] /\ loc'[p].call = calls + 1
        /\ \A q \in Actors \ {p} : loc'[q] = loc[q]
    BY <1>t, <1>2 DEF Begin, Goto, ledgerVars, TypeOK, Locals
  <2>2. CallInv'
    <3>1. \A i \in DOMAIN records : records[i].call \in Nat /\ records[i].call <= calls
      <4> DEFINE R == [seq: Nat, prev: Digest, call: Nat]
      <4>1. records \in Seq(R) /\ \A e \in R : e.call \in Nat
        BY <1>t DEF TypeOK
      <4>2. \A i \in DOMAIN records : records[i] \in R
        <5> HIDE DEF R
        <5> QED
          BY <4>1
      <4> QED
        BY <4>1, <4>2 DEF LInv, CallInv
    <3>2. calls \in Nat
      BY <1>t DEF TypeOK
    <3>3. \A q \in Actors : /\ q # p => pc'[q] = pc[q] /\ loc'[q].call = loc[q].call
                            /\ q = p => pc'[q] = "seq" /\ loc'[q].call = calls + 1
      BY <1>t, <2>1 DEF TypeOK
    <3>4. \A q \in Actors : pc[q] # "idle" => loc[q].call \in 1 .. calls
      BY <1>t DEF LInv, CallInv, TypeOK, Locals
    <3>5. \A q \in Actors : pc'[q] # "idle" => loc'[q].call \in 1 .. calls'
      BY <2>1, <3>2, <3>3, <3>4
    <3>6. \A i \in DOMAIN records' : records'[i].call <= calls'
      BY <2>1, <3>1, <3>2
    <3>7. \A q, r \in Actors : q # r /\ pc'[q] # "idle" /\ pc'[r] # "idle" => loc'[q].call # loc'[r].call
      <4> TAKE q, r \in Actors
      <4>1. CASE q # p /\ r # p
        BY <3>3, <4>1 DEF LInv, CallInv
      <4>2. CASE q = p \/ r = p
        BY <3>2, <3>3, <3>4, <4>2
      <4> QED
        BY <4>1, <4>2
    <3>8. \A q \in Actors : pc'[q] \in Pending =>
             \A i \in DOMAIN records' : records'[i].call # loc'[q].call
      <4> TAKE q \in Actors
      <4>1. CASE q # p
        BY <2>1, <3>3, <4>1 DEF LInv, CallInv, Pending
      <4>2. CASE q = p
        BY <2>1, <3>1, <3>2, <3>3, <4>2
      <4> QED
        BY <4>1, <4>2
    <3> QED
      BY <3>5, <3>6, <3>7, <3>8 DEF CallInv
  <2>3. ReadInv'
    <3>1. \A q \in Actors : /\ pc'[q] \in {"sign", "push", "hash", "advance"} => q # p
                            /\ q # p => pc'[q] = pc[q]
      BY <1>t, <2>1 DEF TypeOK
    <3> QED
      BY <2>1, <3>1, ReadKept DEF LInv
  <2> QED
    BY <1>t, <2>1, <2>2, <2>3, HistoryKept DEF LInv
<1>3. CASE UNCHANGED vars
  BY <1>3, <1>t, <1>w, HistoryKept
     DEF vars, ledgerVars, LInv, CallInv, ReadInv
<1> QED
  BY <1>1, <1>2, <1>3 DEF Next, Actors

-----------------------------------------------------------------------------
(* Appends that do not overlap. *)

LEMMA ChainShape ==
    ASSUME TypeOK
    PROVE  Chain \in Seq(Nat) /\ Len(Chain) = Len(records) /\ DOMAIN Chain = DOMAIN records
<1> DEFINE R == [seq: Nat, prev: Digest, call: Nat]
<1>1. records \in Seq(R) /\ \A e \in R : e.call \in Nat
  BY DEF TypeOK
<1>2. DOMAIN records = 1 .. Len(records) /\ Len(records) \in Nat
      /\ \A i \in DOMAIN records : records[i] \in R
  <2> HIDE DEF R
  <2> QED
    BY <1>1
<1> QED
  BY <1>1, <1>2 DEF Chain

LEMMA ChainPush ==
    ASSUME TypeOK, NEW p \in Actors, Push(p)
    PROVE  /\ Chain' = Append(Chain, loc[p].call)
           /\ \A i \in DOMAIN records : SubSeq(Chain', 1, i - 1) = SubSeq(Chain, 1, i - 1)
           /\ SubSeq(Chain', 1, Len(records)) = Chain
<1>1. /\ DOMAIN records' = 1 .. Len(records) + 1
      /\ DOMAIN records = 1 .. Len(records) /\ Len(records) \in Nat
      /\ \A i \in DOMAIN records : records'[i] = records[i]
      /\ records'[Len(records) + 1].call = loc[p].call
  <2>1. Entry(p).call = loc[p].call
    BY DEF Entry
  <2> QED
    BY <2>1, PushEffect
<1>2. Chain \in Seq(Nat) /\ Len(Chain) = Len(records) /\ loc[p].call \in Nat
  BY ChainShape DEF TypeOK, Locals
<1>3. Chain' = Append(Chain, loc[p].call)
  BY <1>1, <1>2 DEF Chain
<1> DEFINE c == Chain
           x == loc[p].call
<1>4. c \in Seq(Nat) /\ x \in Nat /\ Len(c) = Len(records) /\ Chain' = Append(c, x)
  BY <1>2, <1>3
<1> HIDE DEF c, x
<1>5. \A n \in 0 .. Len(c) : SubSeq(Append(c, x), 1, n) = SubSeq(c, 1, n)
  BY <1>4
<1>6. SubSeq(c, 1, Len(c)) = c
  BY <1>4
<1>7. \A i \in DOMAIN records : i - 1 \in 0 .. Len(c)
  BY <1>1, <1>4
<1>8. SubSeq(Chain', 1, Len(records)) = c
  BY <1>1, <1>4, <1>5, <1>6
<1>9. \A i \in DOMAIN records : SubSeq(Chain', 1, i - 1) = SubSeq(c, 1, i - 1)
  BY <1>4, <1>5, <1>7
<1> QED
  BY <1>3, <1>8, <1>9 DEF c

(* Nobody who is appending moves, and the ledger stays as it is. *)
LEMMA SerialKept ==
    ASSUME SInv, UNCHANGED <<records, head>>, overlap \subseteq overlap',
           \A q \in Actors :
               /\ pc[q] \in Appending <=> pc'[q] \in Appending
               /\ pc'[q] \in Appending => pc'[q] = pc[q] /\ loc'[q] = loc[q]
    PROVE  SInv'
<1>1. Chain' = Chain
  BY DEF Chain
<1>2. CASE "ledger" \in overlap'
  BY <1>2 DEF SInv
<1>3. CASE "ledger" \notin overlap'
  <2>1. "ledger" \notin overlap
    BY <1>3
  <2>2. SerialLedgerVerifies'
    BY <1>1, <2>1 DEF SInv, SerialLedgerVerifies, VerifyLocally
  <2>3. \A p \in Actors : pc'[p] \in {"sign", "push", "hash", "advance"} =>
            pc'[p] = pc[p] /\ loc'[p] = loc[p]
    BY DEF Appending
  <2> QED
    BY <1>1, <2>1, <2>2, <2>3 DEF SInv
<1> QED
  BY <1>2, <1>3

LEMMA SInvStep == TypeOK /\ SInv /\ [Next]_vars => SInv'
<1> SUFFICES ASSUME TypeOK, SInv, [Next]_vars PROVE SInv'
  OBVIOUS
<1>t. TypeOK'
  BY TypeStep
<1>a. Appending = {"sign", "push", "hash", "advance"}
  BY DEF Appending
<1>1. ASSUME NEW p \in Actors, Step(p) PROVE SInv'
  <2>0. UNCHANGED records => Chain' = Chain
    BY DEF Chain
  <2> DEFINE Alone == \A q \in Actors : pc'[q] \in Appending => q = p
             Old == /\ VerifyLocally /\ \A i \in DOMAIN records : records[i].seq = i
  <2>1. CASE ReadSeq(p)
    <3>1. /\ UNCHANGED <<records, head>> /\ pc[p] = "seq" /\ pc' = [pc EXCEPT ![p] = "sign"]
          /\ loc'[p].seq = Len(records) + 1 /\ overlap \subseteq overlap'
          /\ "ledger" \notin overlap' => \A q \in Actors \ {p} : pc[q] \notin Appending
      BY <2>1 DEF ReadSeq, Goto, Enters, ledgerVars, TypeOK, Locals
    <3>2. SUFFICES ASSUME "ledger" \notin overlap' PROVE SInv'
      BY DEF SInv
    <3>3. (\A q \in Actors : pc[q] \notin Appending) /\ "ledger" \notin overlap
      BY <1>a, <3>1, <3>2
    <3>4. Old /\ head = Chain
      BY <3>3 DEF SInv, SerialLedgerVerifies
    <3>5. Alone /\ pc'[p] = "sign"
      BY <3>1, <3>3 DEF TypeOK
    <3>6. SerialLedgerVerifies'
      BY <1>a, <2>0, <3>1, <3>4, <3>5 DEF SerialLedgerVerifies, VerifyLocally
    <3> QED
      BY <1>a, <2>0, <3>1, <3>4, <3>5, <3>6 DEF SInv
  <2>2. CASE Sign(p) \/ Hash(p)
    <3>1. /\ UNCHANGED <<records, head, overlap>>
          /\ \/ /\ pc[p] = "sign" /\ pc' = [pc EXCEPT ![p] = "push"]
                /\ loc'[p].prev = head /\ loc'[p].seq = loc[p].seq
             \/ /\ pc[p] = "hash" /\ pc' = [pc EXCEPT ![p] = "advance"]
                /\ loc'[p].link = Append(head, loc[p].call)
      BY <2>2 DEF Sign, Hash, Goto, ledgerVars, TypeOK, Locals
    <3>2. SUFFICES ASSUME "ledger" \notin overlap PROVE SInv'
      BY <3>1 DEF SInv
    <3>3. Old /\ pc[p] \in Appending /\ pc'[p] \in Appending
      BY <1>a, <3>1, <3>2 DEF SInv, SerialLedgerVerifies, TypeOK
    <3>4. Alone
      BY <3>1, <3>2, <3>3 DEF SInv, TypeOK
    <3>5. SerialLedgerVerifies'
      BY <2>0, <3>1, <3>3 DEF SerialLedgerVerifies, VerifyLocally
    <3>6. \/ pc'[p] = "push" /\ loc'[p].seq = Len(records) + 1 /\ head = Chain /\ loc'[p].prev = Chain
          \/ pc'[p] = "advance" /\ loc'[p].link = Chain
      BY <3>1, <3>2 DEF SInv, TypeOK
    <3> QED
      BY <1>a, <2>0, <3>1, <3>4, <3>5, <3>6 DEF SInv
  <2>3. CASE Push(p)
    <3>1. /\ UNCHANGED <<head, loc, overlap>> /\ pc[p] = "push"
          /\ pc' = [pc EXCEPT ![p] = "hash"]
      BY <2>3 DEF Push, Goto
    <3>2. SUFFICES ASSUME "ledger" \notin overlap PROVE SInv'
      BY <3>1 DEF SInv
    <3>3. /\ Old /\ loc[p].seq = Len(records) + 1 /\ head = Chain /\ loc[p].prev = Chain
          /\ pc'[p] = "hash"
      BY <3>1, <3>2 DEF SInv, SerialLedgerVerifies, TypeOK
    <3>4. Alone
      BY <1>a, <3>1, <3>2 DEF SInv, TypeOK
    <3>5. /\ Chain' = Append(Chain, loc[p].call)
          /\ \A i \in DOMAIN records : SubSeq(Chain', 1, i - 1) = SubSeq(Chain, 1, i - 1)
          /\ SubSeq(Chain', 1, Len(records)) = Chain
      BY <2>3, ChainPush
    <3>6. /\ DOMAIN records' = DOMAIN records \cup {Len(records) + 1}
          /\ Len(records) \in Nat
          /\ \A i \in DOMAIN records : records'[i] = records[i]
          /\ records'[Len(records) + 1] = Entry(p)
      BY <2>3, PushEffect
    <3>7. Entry(p).seq = loc[p].seq /\ Entry(p).prev = loc[p].prev
      BY DEF Entry
    <3>8. VerifyLocally'
      <4>1. ASSUME NEW i \in DOMAIN records'
            PROVE  records'[i].prev = SubSeq(Chain', 1, i - 1)
        <5>1. CASE i \in DOMAIN records
          BY <3>3, <3>5, <3>6, <5>1 DEF VerifyLocally
        <5>2. CASE i = Len(records) + 1
          <6>1. i - 1 = Len(records)
            BY <3>6, <5>2
          <6> QED
            BY <3>3, <3>5, <3>6, <3>7, <5>2, <6>1
        <5> QED
          BY <3>6, <5>1, <5>2
      <4> QED
        BY <4>1 DEF VerifyLocally
    <3>9. \A i \in DOMAIN records' : records'[i].seq = i
      BY <3>3, <3>6, <3>7
    <3>10. SerialLedgerVerifies'
      BY <1>a, <3>3, <3>8, <3>9 DEF SerialLedgerVerifies
    <3>11. Append(head, loc[p].call)' = Chain'
      BY <3>1, <3>3, <3>5
    <3> QED
      BY <1>a, <3>1, <3>3, <3>4, <3>10, <3>11 DEF SInv
  <2>4. CASE Advance(p)
    <3>1. /\ UNCHANGED <<records, overlap>> /\ pc[p] = "advance" /\ head' = loc[p].link
          /\ pc'[p] \in {"idle", "meter"} /\ \A q \in Actors \ {p} : pc'[q] = pc[q]
      BY <2>4 DEF Advance, Return, Goto, TypeOK
    <3>2. SUFFICES ASSUME "ledger" \notin overlap PROVE SInv'
      BY <3>1 DEF SInv
    <3>3. Old /\ loc[p].link = Chain
      BY <3>1, <3>2 DEF SInv, SerialLedgerVerifies
    <3>4. \A q \in Actors : pc'[q] \notin Appending
      BY <1>a, <3>1, <3>2 DEF SInv
    <3>5. SerialLedgerVerifies'
      BY <2>0, <3>1, <3>3 DEF SerialLedgerVerifies, VerifyLocally
    <3> QED
      BY <1>a, <3>4, <3>5 DEF SInv
  <2>5. CASE ReadSum(p) \/ WriteSum(p) \/ SkipSum(p) \/ Enter(p)
    <3>1. /\ UNCHANGED <<records, head>> /\ overlap \subseteq overlap'
          /\ pc[p] \notin Appending /\ pc'[p] \notin Appending
          /\ \A q \in Actors \ {p} : pc'[q] = pc[q] /\ loc'[q] = loc[q]
      <4>1. CASE ReadSum(p)
        BY <1>a, <4>1 DEF ReadSum, Goto, Enters, ledgerVars, TypeOK
      <4>2. CASE WriteSum(p)
        BY <1>a, <4>2 DEF WriteSum, Goto, ledgerVars, TypeOK
      <4>3. CASE SkipSum(p)
        BY <1>a, <4>3 DEF SkipSum, Goto, ledgerVars, TypeOK
      <4>4. CASE Enter(p)
        BY <1>a, <4>4 DEF Enter, Return, ledgerVars, TypeOK
      <4> QED
        BY <2>5, <4>1, <4>2, <4>3, <4>4
    <3> QED
      BY <3>1, SerialKept
  <2> QED
    BY <1>1, <2>1, <2>2, <2>3, <2>4, <2>5 DEF Step
<1>2. ASSUME NEW p \in Actors, NEW auto \in BOOLEAN, Begin(p, auto) PROVE SInv'
  <2>1. /\ UNCHANGED <<records, head, overlap>>
        /\ pc[p] \notin Appending /\ pc'[p] \notin Appending
        /\ \A q \in Actors \ {p} : pc'[q] = pc[q] /\ loc'[q] = loc[q]
    BY <1>a, <1>2 DEF Begin, Goto, ledgerVars, TypeOK
  <2> QED
    BY <2>1, SerialKept
<1>3. CASE UNCHANGED vars
  BY <1>3, SerialKept DEF vars, ledgerVars
<1> QED
  BY <1>1, <1>2, <1>3 DEF Next, Actors

-----------------------------------------------------------------------------
(* The meter. *)

Metered == {i \in DOMAIN entries : entries[i]}
Accrued == {p \in Workers : pc[p] = "enter" /\ loc[p].auto}

LEMMA CountsFinite ==
    ASSUME TypeOK
    PROVE  /\ IsFiniteSet(Metered) /\ IsFiniteSet(Accrued)
           /\ MeteredCount = Cardinality(Metered) /\ Accruing = Cardinality(Accrued)
           /\ MeteredCount \in Nat /\ Accruing \in Nat
<1>1. DOMAIN entries = 1 .. Len(entries) /\ Len(entries) \in Nat
  BY DEF TypeOK
<1>2. IsFiniteSet(1 .. Len(entries))
  BY <1>1, FS_Interval
<1>3. Metered \in SUBSET (1 .. Len(entries)) /\ Accrued \in SUBSET Workers
  BY <1>1 DEF Metered, Accrued
<1>4. IsFiniteSet(Metered) /\ IsFiniteSet(Accrued)
  BY <1>2, <1>3, FS_Subset, LedgerAssumption
<1>5. MeteredCount = Cardinality(Metered) /\ Accruing = Cardinality(Accrued)
  BY DEF MeteredCount, Accruing, Metered, Accrued
<1> QED
  BY <1>4, <1>5, FS_CardinalityType

(* What is billable stays what it is when a thread neither enters the last *)
(* place nor leaves it.                                                    *)
LEMMA BillableKept ==
    ASSUME UNCHANGED entries,
           \A q \in Workers : (pc'[q] = "enter" /\ loc'[q].auto) <=> (pc[q] = "enter" /\ loc[q].auto)
    PROVE  Billable' = Billable
<1>1. Metered' = Metered /\ Accrued' = Accrued
  BY DEF Metered, Accrued
<1>2. MeteredCount' = MeteredCount /\ Accruing' = Accruing
  BY <1>1 DEF MeteredCount, Accruing, Metered, Accrued
<1> QED
  BY <1>2 DEF Billable

LEMMA BillableAccrues ==
    ASSUME TypeOK, TypeOK', NEW p \in Workers, WriteSum(p), loc[p].auto
    PROVE  Billable' = Billable + 1
<1>1. /\ UNCHANGED <<entries, loc>> /\ pc[p] = "accrue" /\ pc' = [pc EXCEPT ![p] = "enter"]
  BY DEF WriteSum, Goto
<1>2. Metered' = Metered
  BY <1>1 DEF Metered
<1>3. Accrued' = Accrued \cup {p} /\ p \notin Accrued
  BY <1>1 DEF Accrued, TypeOK, Actors
<1>4. Cardinality(Accrued') = Cardinality(Accrued) + 1
  BY <1>3, CountsFinite, FS_AddElement
<1>5. MeteredCount' = Cardinality(Metered') /\ Accruing' = Cardinality(Accrued')
  BY DEF MeteredCount, Accruing, Metered, Accrued
<1> QED
  BY <1>2, <1>4, <1>5, CountsFinite DEF Billable

(* An entry takes over from its thread. *)
LEMMA BillableEnters ==
    ASSUME TypeOK, TypeOK', NEW p \in Workers, Enter(p)
    PROVE  Billable' = Billable
<1>1. /\ pc[p] = "enter" /\ entries' = Append(entries, loc[p].auto)
      /\ pc' = [pc EXCEPT ![p] = "idle"] /\ \A q \in Actors \ {p} : loc'[q] = loc[q]
  BY DEF Enter, MeterEntry, Return, TypeOK
<1>2. loc[p].auto \in BOOLEAN /\ entries \in Seq(BOOLEAN)
  BY DEF TypeOK, Locals, Actors
<1>3. /\ DOMAIN entries' = DOMAIN entries \cup {Len(entries) + 1}
      /\ Len(entries) + 1 \notin DOMAIN entries
      /\ \A i \in DOMAIN entries : entries'[i] = entries[i]
      /\ entries'[Len(entries) + 1] = loc[p].auto
  BY <1>1, <1>2
<1>4. Accrued' = Accrued \ {p} /\ (p \in Accrued <=> loc[p].auto)
  BY <1>1 DEF Accrued, TypeOK, Actors
<1>c. /\ IsFiniteSet(Metered) /\ IsFiniteSet(Accrued)
      /\ MeteredCount = Cardinality(Metered) /\ Accruing = Cardinality(Accrued)
      /\ MeteredCount' = Cardinality(Metered') /\ Accruing' = Cardinality(Accrued')
      /\ MeteredCount \in Nat /\ Accruing \in Nat
  <2>1. MeteredCount' = Cardinality(Metered') /\ Accruing' = Cardinality(Accrued')
    BY DEF MeteredCount, Accruing, Metered, Accrued
  <2> QED
    BY <2>1, CountsFinite
<1>5. CASE loc[p].auto
  <2>1. Metered' = Metered \cup {Len(entries) + 1} /\ Len(entries) + 1 \notin Metered
    BY <1>3, <1>5 DEF Metered
  <2>2. Cardinality(Metered') = Cardinality(Metered) + 1
    BY <1>c, <2>1, FS_AddElement
  <2>3. Cardinality(Accrued') = Cardinality(Accrued) - 1
    BY <1>c, <1>4, <1>5, FS_RemoveElement
  <2> QED
    BY <1>c, <2>2, <2>3 DEF Billable
<1>6. CASE ~loc[p].auto
  <2>1. Metered' = Metered
    BY <1>3, <1>6 DEF Metered
  <2>2. Accrued' = Accrued
    BY <1>4, <1>6
  <2> QED
    BY <1>c, <2>1, <2>2 DEF Billable
<1> QED
  BY <1>5, <1>6

LEMMA MInvStep == TypeOK /\ MInv /\ [Next]_vars => MInv'
<1> SUFFICES ASSUME TypeOK, MInv, [Next]_vars PROVE MInv'
  OBVIOUS
<1>t. TypeOK'
  BY TypeStep
<1>n. Billable \in Nat /\ aumSum \in Nat /\ \A p \in Actors : loc[p].sum \in Nat
  BY CountsFinite DEF Billable, TypeOK, Locals
<1>o. /\ aumSum <= Billable
      /\ "meter" \notin overlap => aumSum = Billable
  BY DEF MInv, NeverOverbilled, Billable
<1>k. ASSUME Billable' = Billable, UNCHANGED aumSum, overlap \subseteq overlap',
             \A p \in Actors : /\ pc'[p] = "accrue" => pc[p] = "accrue" /\ loc'[p] = loc[p]
                               /\ pc'[p] \in {"meter", "accrue", "enter"} => p \in Workers
      PROVE  MInv'
  <2>1. NeverOverbilled'
    BY <1>k, <1>o DEF NeverOverbilled, Billable
  <2> QED
    BY <1>k, <2>1 DEF MInv
<1>1. ASSUME NEW p \in Actors, Step(p) PROVE MInv'
  <2>1. CASE ReadSeq(p) \/ Sign(p) \/ Push(p) \/ Hash(p)
    <3>1. /\ UNCHANGED meterVars /\ overlap \subseteq overlap'
          /\ pc[p] \notin {"enter", "accrue", "meter"}
          /\ pc'[p] \notin {"enter", "accrue", "meter"}
          /\ \A q \in Actors \ {p} : pc'[q] = pc[q] /\ loc'[q] = loc[q]
      <4>1. CASE ReadSeq(p)
        BY <4>1 DEF ReadSeq, Goto, Enters, TypeOK
      <4>2. CASE Sign(p)
        BY <4>2 DEF Sign, Goto, TypeOK
      <4>3. CASE Push(p)
        BY <4>3 DEF Push, Goto, TypeOK
      <4>4. CASE Hash(p)
        BY <4>4 DEF Hash, Goto, TypeOK
      <4> QED
        BY <2>1, <4>1, <4>2, <4>3, <4>4
    <3>2. Billable' = Billable
      BY <3>1, BillableKept DEF meterVars, Actors
    <3> QED
      BY <3>1, <3>2, <1>k DEF MInv, meterVars
  <2>2. CASE Advance(p)
    <3>1. /\ UNCHANGED meterVars /\ UNCHANGED overlap
          /\ pc[p] = "advance" /\ pc'[p] \in {"idle", "meter"}
          /\ pc'[p] = "meter" => p \in Workers
          /\ \A q \in Actors \ {p} : pc'[q] = pc[q] /\ loc'[q] = loc[q]
      BY <2>2 DEF Advance, Return, Goto, TypeOK, Actors
    <3>2. Billable' = Billable
      BY <3>1, BillableKept DEF meterVars, Actors
    <3> QED
      BY <3>1, <3>2, <1>k DEF MInv, meterVars
  <2>3. CASE ReadSum(p)
    <3>1. /\ UNCHANGED meterVars /\ overlap \subseteq overlap' /\ pc[p] = "meter" /\ loc[p].auto
          /\ pc' = [pc EXCEPT ![p] = "accrue"] /\ loc'[p].auto /\ loc'[p].sum = aumSum
          /\ \A q \in Actors \ {p} : loc'[q] = loc[q]
          /\ "meter" \notin overlap' => \A q \in Actors \ {p} : pc[q] # "accrue"
      BY <2>3 DEF ReadSum, Goto, Enters, Metering, TypeOK, Locals
    <3>2. Billable' = Billable
      BY <3>1, BillableKept DEF meterVars, Actors, TypeOK
    <3>3. NeverOverbilled'
      BY <1>o, <3>1, <3>2 DEF NeverOverbilled, Billable, meterVars
    <3>4. \A q \in Actors : q # p => pc'[q] = pc[q]
      BY <3>1 DEF TypeOK
    <3>5. p \in Workers
      BY <3>1 DEF MInv
    <3>6. ASSUME NEW q \in Actors, pc'[q] = "accrue"
          PROVE  /\ loc'[q].auto /\ loc'[q].sum <= Billable'
                 /\ "meter" \notin overlap' =>
                       /\ loc'[q].sum = aumSum'
                       /\ \A r \in Actors : pc'[r] = "accrue" => q = r
      BY <1>o, <3>1, <3>2, <3>4, <3>6 DEF MInv, meterVars
    <3> QED
      BY <3>1, <3>3, <3>4, <3>5, <3>6 DEF MInv
  <2>4. CASE WriteSum(p)
    <3>1. /\ UNCHANGED <<loc, overlap>> /\ pc[p] = "accrue" /\ pc' = [pc EXCEPT ![p] = "enter"]
          /\ aumSum' = loc[p].sum + 1
      BY <2>4 DEF WriteSum, Goto
    <3>2. p \in Workers /\ loc[p].auto /\ loc[p].sum <= Billable
      BY <3>1 DEF MInv
    <3>3. Billable' = Billable + 1
      BY <1>t, <2>4, <3>2, BillableAccrues
    <3>4. aumSum' <= Billable' /\ ("meter" \notin overlap => aumSum' = Billable')
      BY <1>n, <1>o, <3>1, <3>2, <3>3 DEF MInv
    <3>5. NeverOverbilled'
      BY <3>1, <3>4 DEF NeverOverbilled, Billable
    <3>6. \A q \in Actors : q # p => pc'[q] = pc[q]
      BY <3>1 DEF TypeOK
    <3>7. pc'[p] = "enter"
      BY <3>1 DEF TypeOK
    <3>8. ASSUME NEW q \in Actors, pc'[q] = "accrue"
          PROVE  /\ loc[q].auto /\ loc[q].sum <= Billable'
                 /\ "meter" \in overlap
      <4>1. q # p /\ pc[q] = "accrue"
        BY <3>6, <3>7, <3>8
      <4>2. loc[q].auto /\ loc[q].sum <= Billable /\ "meter" \in overlap
        BY <3>1, <4>1 DEF MInv
      <4> QED
        BY <1>n, <3>3, <4>2
    <3> QED
      BY <3>1, <3>2, <3>5, <3>6, <3>7, <3>8 DEF MInv
  <2>5. CASE SkipSum(p)
    <3>1. /\ UNCHANGED <<meterVars, loc, overlap>> /\ pc[p] = "meter" /\ ~loc[p].auto
          /\ pc' = [pc EXCEPT ![p] = "enter"]
      BY <2>5 DEF SkipSum, Goto
    <3>2. Billable' = Billable
      BY <3>1, BillableKept DEF meterVars, Actors, TypeOK
    <3> QED
      BY <3>1, <3>2, <1>k DEF MInv, meterVars, TypeOK
  <2>6. CASE Enter(p)
    <3>1. /\ UNCHANGED <<aumSum, overlap>> /\ pc[p] = "enter" /\ pc'[p] = "idle"
          /\ \A q \in Actors \ {p} : pc'[q] = pc[q] /\ loc'[q] = loc[q]
      BY <2>6 DEF Enter, Return, TypeOK
    <3>2. Billable' = Billable
      BY <1>t, <2>6, <3>1, BillableEnters DEF MInv
    <3> QED
      BY <3>1, <3>2, <1>k DEF MInv
  <2> QED
    BY <1>1, <2>1, <2>2, <2>3, <2>4, <2>5, <2>6 DEF Step
<1>2. ASSUME NEW p \in Actors, NEW auto \in BOOLEAN, Begin(p, auto) PROVE MInv'
  <2>1. /\ UNCHANGED <<meterVars, overlap>> /\ pc[p] = "idle" /\ pc'[p] = "seq"
        /\ \A q \in Actors \ {p} : pc'[q] = pc[q] /\ loc'[q] = loc[q]
    BY <1>2 DEF Begin, Goto, TypeOK
  <2>2. Billable' = Billable
    BY <2>1, BillableKept DEF meterVars, Actors
  <2> QED
    BY <2>1, <2>2, <1>k DEF MInv, meterVars
<1>3. CASE UNCHANGED vars
  <2>1. Billable' = Billable
    BY <1>3, BillableKept DEF vars, meterVars
  <2> QED
    BY <1>3, <2>1, <1>k DEF vars, meterVars, MInv
<1> QED
  BY <1>1, <1>2, <1>3 DEF Next, Actors

-----------------------------------------------------------------------------
LEMMA InitHolds == Init => LInv /\ SInv /\ MInv
<1> SUFFICES ASSUME Init PROVE LInv /\ SInv /\ MInv
  OBVIOUS
<1>1. TypeOK
  BY LedgerAssumption DEF Init, TypeOK, Locals, NoLocals, Digest
<1>2. LInv
  BY <1>1 DEF Init, LInv, LedgerIsHistory, CallInv, ReadInv, Within
<1>3. Chain = <<>>
  BY DEF Init, Chain
<1>4. SInv
  BY <1>3 DEF Init, SInv, SerialLedgerVerifies, VerifyLocally, Appending
<1>5. Metered = {} /\ Accrued = {}
  BY DEF Init, Metered, Accrued, Actors
<1>6. MeteredCount = 0 /\ Accruing = 0
  BY <1>1, <1>5, CountsFinite, FS_EmptySet
<1>7. MInv
  BY <1>6 DEF Init, MInv, NeverOverbilled
<1> QED
  BY <1>2, <1>4, <1>7

LEMMA InvHolds == Spec => [](LInv /\ SInv /\ MInv)
<1>1. LInv => TypeOK
  BY DEF LInv, LedgerIsHistory
<1> QED
  BY <1>1, InitHolds, LInvStep, SInvStep, MInvStep, PTL DEF Spec

(* However many threads append to a tenant's ledger at once, an entry      *)
(* refers only to entries before it, each call has one entry, and none     *)
(* claims a number beyond its place.                                       *)
THEOREM LedgerKeepsHistory == Spec => []LedgerIsHistory
<1>1. LInv => LedgerIsHistory
  BY DEF LInv
<1> QED
  BY <1>1, InvHolds, PTL

(* As long as no two calls of append_ledger overlap, verify_locally        *)
(* accepts the ledger at every moment and the entries are numbered in      *)
(* order.                                                                  *)
THEOREM SerialAppendsVerify == Spec => []SerialLedgerVerifies
<1>1. SInv => SerialLedgerVerifies
  BY DEF SInv, SerialLedgerVerifies
<1> QED
  BY <1>1, InvHolds, PTL

(* A race in MeteringLedger.record can lose revenue and never charge for   *)
(* an action that was not authorized.                                      *)
THEOREM MeterNeverOverbills == Spec => []NeverOverbilled
<1>1. MInv => NeverOverbilled
  BY DEF MInv
<1> QED
  BY <1>1, InvHolds, PTL
=============================================================================
