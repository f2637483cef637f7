---------------------------- MODULE TenantLedger ----------------------------
(***************************************************************************)
(* One tenant's signed ledger (src/src/service/tenant.py) and its meter    *)
(* (metering.py), statement by statement.  POST /tenants/{id}/authorize is *)
(* a plain function, so calls run on several worker threads at once; the   *)
(* handlers of the event loop append to the same ledger.  None of it takes *)
(* a lock, and a thread may be preempted between any two statements (the   *)
(* signature releases the interpreter lock).                               *)
(*                                                                         *)
(* A hash is what was hashed: a call's number stands for the body it       *)
(* appends, and sha256(prev || body) for the sequence of bodies up to it.  *)
(***************************************************************************)
EXTENDS Naturals, Sequences, FiniteSets

CONSTANTS
    Workers,     \* threads that run /authorize
    Loop,        \* the event loop: authorize_action and the pipeline
    MaxCalls     \* bound: how many entries are appended

ASSUME LedgerAssumption ==
    /\ IsFiniteSet(Workers) /\ Loop \notin Workers
    /\ MaxCalls \in Nat

Actors == Workers \cup {Loop}

VARIABLES
    records,     \* Tenant._records
    head,        \* Tenant._head
    aumSum,      \* MeteringLedger._aum_sum, in units of the tenant's AUM
    entries,     \* MeteringLedger.entries: whether each was metered
    pc, loc,     \* the place and the local variables of each actor
    calls,       \* how many appends have started
    overlap      \* which critical sections two actors have been in at once

ledgerVars == <<records, head>>
meterVars == <<aumSum, entries>>
vars == <<ledgerVars, meterVars, pc, loc, calls, overlap>>

Digest == Seq(Nat)
Appending == {"sign", "push", "hash", "advance"}
Metering == {"accrue"}

(* call: the body being appended; auto: decide() answered AUTO. *)
Locals == [call: Nat, auto: BOOLEAN, seq: Nat, prev: Digest, link: Digest, sum: Nat]
NoLocals == [call |-> 0, auto |-> FALSE, seq |-> 0, prev |-> <<>>, link |-> <<>>, sum |-> 0]

Init ==
    /\ records = <<>> /\ head = <<>>
    /\ aumSum = 0 /\ entries = <<>>
    /\ pc = [p \in Actors |-> "idle"]
    /\ loc = [p \in Actors |-> NoLocals]
    /\ calls = 0
    /\ overlap = {}

Goto(p, place) == pc' = [pc EXCEPT ![p] = place]

Return(p) ==
    /\ pc' = [pc EXCEPT ![p] = "idle"]
    /\ loc' = [loc EXCEPT ![p] = NoLocals]

(* Entering a section while somebody else is at one of these places. *)
Enters(p, places, section) ==
    overlap' = IF \E q \in Actors \ {p} : pc[q] \in places
               THEN overlap \cup {section} ELSE overlap

(* authorize on a thread, or a handler of the loop, has an entry to append. *)
Begin(p, auto) ==
    /\ pc[p] = "idle" /\ calls < MaxCalls
    /\ calls' = calls + 1
    /\ loc' = [loc EXCEPT ![p].call = calls + 1, ![p].auto = auto]
    /\ Goto(p, "seq")
    /\ UNCHANGED <<ledgerVars, meterVars, overlap>>

-----------------------------------------------------------------------------
(* Tenant.append_ledger. *)

(* seq = len(self._records) + 1 *)
ReadSeq(p) ==
    /\ pc[p] = "seq"
    /\ loc' = [loc EXCEPT ![p].seq = Len(records) + 1]
    /\ Enters(p, Appending, "ledger")
    /\ Goto(p, "sign")
    /\ UNCHANGED <<ledgerVars, meterVars, calls>>

(* rec = make_ledger_entry(seq, self._head, body, key) *)
Sign(p) ==
    /\ pc[p] = "sign"
    /\ loc' = [loc EXCEPT ![p].prev = head]
    /\ Goto(p, "push")
    /\ UNCHANGED <<ledgerVars, meterVars, calls, overlap>>

Entry(p) == [seq |-> loc[p].seq, prev |-> loc[p].prev, call |-> loc[p].call]

(* Mutant of Push: the newest entry comes first. *)
PushFront(p) ==
    /\ pc[p] = "push"
    /\ records' = <<Entry(p)>> \o records
    /\ Goto(p, "hash")
    /\ UNCHANGED <<head, meterVars, loc, calls, overlap>>

(* self._records.append(rec) *)
Push(p) ==
    /\ pc[p] = "push"
    /\ records' = Append(records, Entry(p))
    /\ Goto(p, "hash")
    /\ UNCHANGED <<head, meterVars, loc, calls, overlap>>

(* sha256(self._head + _entry_body(rec)): the head is read again. *)
Hash(p) ==
    /\ pc[p] = "hash"
    /\ loc' = [loc EXCEPT ![p].link = Append(head, loc[p].call)]
    /\ Goto(p, "advance")
    /\ UNCHANGED <<ledgerVars, meterVars, calls, overlap>>

(* Mutant of Advance: a local instead of the attribute is assigned. *)
AdvanceLost(p) ==
    /\ pc[p] = "advance"
    /\ IF p = Loop THEN Return(p) ELSE Goto(p, "meter") /\ UNCHANGED loc
    /\ UNCHANGED <<ledgerVars, meterVars, calls, overlap>>

(* self._head = ...; the handlers of the loop do not meter. *)
Advance(p) ==
    /\ pc[p] = "advance"
    /\ head' = loc[p].link
    /\ IF p = Loop THEN Return(p) ELSE Goto(p, "meter") /\ UNCHANGED loc
    /\ UNCHANGED <<records, meterVars, calls, overlap>>

-----------------------------------------------------------------------------
(* MeteringLedger.record. *)

(* if authorized: self._aum_sum += aum, the read *)
ReadSum(p) ==
    /\ pc[p] = "meter" /\ loc[p].auto
    /\ loc' = [loc EXCEPT ![p].sum = aumSum]
    /\ Enters(p, Metering, "meter")
    /\ Goto(p, "accrue")
    /\ UNCHANGED <<ledgerVars, meterVars, calls>>

(* ... and the write *)
WriteSum(p) ==
    /\ pc[p] = "accrue"
    /\ aumSum' = loc[p].sum + 1
    /\ Goto(p, "enter")
    /\ UNCHANGED <<ledgerVars, entries, loc, calls, overlap>>

SkipSum(p) ==
    /\ pc[p] = "meter" /\ ~loc[p].auto
    /\ Goto(p, "enter")
    /\ UNCHANGED <<ledgerVars, meterVars, loc, calls, overlap>>

(* Mutant of MeterEntry: `authorized` is taken before it is known. *)
MeterEntryNever(p) == FALSE

MeterEntry(p) == loc[p].auto

(* self.entries.append({..., "metered": authorized}) *)
Enter(p) ==
    /\ pc[p] = "enter"
    /\ entries' = Append(entries, MeterEntry(p))
    /\ Return(p)
    /\ UNCHANGED <<ledgerVars, aumSum, calls, overlap>>

Step(p) ==
    \/ ReadSeq(p) \/ Sign(p) \/ Push(p) \/ Hash(p) \/ Advance(p)
    \/ ReadSum(p) \/ WriteSum(p) \/ SkipSum(p) \/ Enter(p)

Next ==
    \/ \E p \in Actors : Step(p)
    \/ \E p \in Workers, auto \in BOOLEAN : Begin(p, auto)
    \/ Begin(Loop, FALSE)

Spec == Init /\ [][Next]_vars

-----------------------------------------------------------------------------
(* Every variable holds a value of its type. *)
TypeOK ==
    /\ records \in Seq([seq: Nat, prev: Digest, call: Nat])
    /\ head \in Digest
    /\ aumSum \in Nat /\ entries \in Seq(BOOLEAN)
    /\ pc \in [Actors -> {"idle", "seq", "meter", "enter"} \cup Appending \cup Metering]
    /\ loc \in [Actors -> Locals]
    /\ calls \in Nat /\ overlap \subseteq {"ledger", "meter"}

Chain == [i \in DOMAIN records |-> records[i].call]

(* Tenant.verify_locally, the chain part: signatures are never wrong. *)
VerifyLocally ==
    \A i \in DOMAIN records : records[i].prev = SubSeq(Chain, 1, i - 1)

(* As long as no two appends to the tenant's ledger overlap, its chain     *)
(* verifies at every moment, entries are numbered without gaps, and the    *)
(* head is that of the whole chain whenever no append is running.          *)
SerialLedgerVerifies ==
    "ledger" \notin overlap =>
        /\ VerifyLocally
        /\ \A i \in DOMAIN records : records[i].seq = i
        /\ (\A p \in Actors : pc[p] \notin Appending) => head = Chain

(* Whatever overlaps, the ledger is a history: an entry never refers to    *)
(* one that was appended later, and none is there twice or claims a number *)
(* beyond its place.  A broken chain is a fork, not a rewrite.             *)
LedgerIsHistory ==
    /\ TypeOK
    /\ \A i \in DOMAIN records :
          /\ records[i].seq <= i
          /\ \A n \in DOMAIN records[i].prev :
                \E j \in 1..(i - 1) : records[j].call = records[i].prev[n]
          /\ \A j \in DOMAIN records : records[i].call = records[j].call => i = j

MeteredCount == Cardinality({i \in DOMAIN entries : entries[i]})
Accruing == Cardinality({p \in Workers : pc[p] = "enter" /\ loc[p].auto})

(* The bill never exceeds the authorized actions, and equals them as long  *)
(* as no two accruals overlapped: a race can only lose revenue.            *)
NeverOverbilled ==
    /\ aumSum <= MeteredCount + Accruing
    /\ "meter" \notin overlap => aumSum = MeteredCount + Accruing
=============================================================================
