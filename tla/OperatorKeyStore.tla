-------------------------- MODULE OperatorKeyStore --------------------------
(***************************************************************************)
(* src/src/security/keystore.py under the endpoints that use it: the ring  *)
(* of one scope, which the process loads when it starts (safety) or when   *)
(* the first request asks for it (a tenant), and one SQLite connection,    *)
(* shared by the worker threads that manage keys and by the event loop     *)
(* that audits safety commands.  A step is one statement; a transaction    *)
(* belongs to the connection, not to the thread that opened it.            *)
(***************************************************************************)
EXTENDS OperatorKeys, FiniteSets

CONSTANTS
    Writers,     \* threads that run /operator-keys... and GET /tenants/{id}
    NoRing,      \* the thread uses the ring everybody sees
    MaxOps, MaxAudits, MaxBoots   \* bounds of the exploration

ASSUME StoreAssumption == MaxOps \in Nat /\ MaxAudits \in Nat /\ MaxBoots \in Nat

VARIABLES
    scope,       \* whose ring it is: the safety scope's or a tenant's
    ring,        \* operator_keys of the scope
    hydrated,    \* _keys_hydrated
    mine,        \* a ring object that only this thread holds, or NoRing
    rows,        \* the committed rows of the scope in operator_keys
    trail,       \* how many rows of safety_audit are committed
    open,        \* the connection has a transaction
    txRows, txTrail,   \* what the open transaction sees
    pc, at,      \* the place of each writer, the next entry it inserts
    auditor,     \* the place of the event loop in append_safety_audit
    edit,        \* what the request of each writer has to make durable
    acked,       \* the edits that were answered 200
    commands,    \* how many safety commands were answered
    base,        \* the rows before the first writer that is still running
    overlap,     \* two of them have been inside the store at once
    ops, boots   \* counters for the bounds

dbVars == <<rows, trail, open, txRows, txTrail>>
scopeVars == <<scope, hydrated, mine>>
vars == <<scopeVars, ring, dbVars, pc, at, edit, auditor, acked, commands, base, overlap,
          ops, boots>>

Edit == [added: SUBSET Keys, revoked: SUBSET Keys]
NoEdit == [added |-> {}, revoked |-> {}]

Init ==
    /\ scope \in {"safety", "tenant"}
    /\ hydrated = (scope = "safety")
    /\ ring = <<>> /\ mine = [w \in Writers |-> NoRing]
    /\ rows = {} /\ trail = 0
    /\ open = FALSE /\ txRows = {} /\ txTrail = 0
    /\ pc = [w \in Writers |-> "idle"]
    /\ at = [w \in Writers |-> 1]
    /\ edit = [w \in Writers |-> NoEdit]
    /\ auditor = "idle"
    /\ acked = NoEdit /\ commands = 0
    /\ base = {} /\ overlap = FALSE
    /\ ops = 0 /\ boots = 0

Idle == auditor = "idle" /\ \A w \in Writers : pc[w] = "idle"
Goto(w, place) == pc' = [pc EXCEPT ![w] = place]
Return(w) ==
    /\ pc' = [pc EXCEPT ![w] = "idle"]
    /\ at' = [at EXCEPT ![w] = 1]
    /\ edit' = [edit EXCEPT ![w] = NoEdit]

-----------------------------------------------------------------------------
(* sqlite3.Connection, with the default isolation_level: a statement that  *)
(* writes opens a transaction if there is none.                            *)

Closed == open' = FALSE /\ txRows' = {} /\ txTrail' = 0

SqlBegin ==
    /\ ~open
    /\ open' = TRUE /\ txRows' = rows /\ txTrail' = trail
    /\ UNCHANGED <<rows, trail>>

(* The rows a statement sees. *)
Seen == IF open THEN txRows ELSE rows

SqlWriteRows(after) ==
    /\ open' = TRUE
    /\ txRows' = after
    /\ txTrail' = IF open THEN txTrail ELSE trail
    /\ UNCHANGED <<rows, trail>>

SqlWriteTrail ==
    /\ open' = TRUE
    /\ txRows' = Seen
    /\ txTrail' = (IF open THEN txTrail ELSE trail) + 1
    /\ UNCHANGED <<rows, trail>>

SqlCommit ==
    /\ open
    /\ rows' = txRows /\ trail' = txTrail
    /\ Closed

(* ROLLBACK; without a transaction it raises, and changes nothing. *)
SqlRollback ==
    /\ IF open THEN Closed ELSE UNCHANGED <<open, txRows, txTrail>>
    /\ UNCHANGED <<rows, trail>>

-----------------------------------------------------------------------------
(* The endpoints: find the scope, change its ring, then _store_scope and   *)
(* persist_ring.                                                           *)

(* _scope_for and _get_tenant: has the ring been loaded? *)
Open(w) ==
    /\ pc[w] = "idle" /\ ops < MaxOps
    /\ ops' = ops + 1
    /\ overlap' = (overlap \/ ~Idle)
    /\ base' = IF Idle THEN rows ELSE base
    /\ Goto(w, IF hydrated THEN "mutate" ELSE "load")
    /\ UNCHANGED <<scopeVars, ring, dbVars, at, edit, auditor, acked, commands, boots>>

(* load_scope: the SELECT sees what other threads have not committed. *)
Load(w) ==
    /\ pc[w] = "load"
    /\ \E entries \in Reloaded(Seen, Cardinality(Seen)) :
          mine' = [mine EXCEPT ![w] = entries]
    /\ Goto(w, "assign")
    /\ UNCHANGED <<scope, hydrated, ring, dbVars, at, edit, auditor, acked,
                   commands, base, overlap, ops, boots>>

(* t.operator_keys = ...; t._keys_hydrated = True.  The ring that was      *)
(* there lives on in a thread that is writing it out.                      *)
Hydrate(w) ==
    /\ pc[w] = "assign"
    /\ ring' = mine[w]
    /\ hydrated' = TRUE
    /\ mine' = [v \in Writers |->
                   CASE v = w -> NoRing
                     [] v # w /\ pc[v] \in {"delete", "insert"} /\ mine[v] = NoRing
                        -> ring
                     [] OTHER -> mine[v]]
    /\ Goto(w, "mutate")
    /\ UNCHANGED <<scope, dbVars, at, edit, auditor, acked, commands, base,
                   overlap, ops, boots>>

Held == {ring[i].pem : i \in DOMAIN ring}

(* add_operator_key, revoke_operator_key and rotate_operator_key: each new *)
(* key is provisioned once.                                                *)
Mutate(w) ==
    /\ pc[w] = "mutate"
    /\ \/ \E k \in Keys \ Held :
             /\ ring' = Add(ring, k, NoExpiry)
             /\ edit' = [edit EXCEPT ![w] = [added |-> {k}, revoked |-> {}]]
       \/ \E k \in Held :
             /\ ring' = Revoke(ring, k)
             /\ edit' = [edit EXCEPT ![w] = [added |-> {}, revoked |-> {k}]]
       \/ \E new \in Keys \ Held, old \in Held :
             /\ ring' = Rotate(ring, new, old, NoExpiry, 0, 0)
             /\ edit' = [edit EXCEPT ![w] = [added |-> {new}, revoked |-> {old}]]
    /\ Goto(w, "begin")
    /\ UNCHANGED <<scopeVars, dbVars, at, auditor, acked, commands, base, overlap,
                   ops, boots>>

(* list_operator_keys, tenant_info, and a revoke that finds no key (404). *)
Read(w) ==
    /\ pc[w] = "mutate"
    /\ Return(w)
    /\ UNCHANGED <<scopeVars, ring, dbVars, auditor, acked, commands, base,
                   overlap, ops, boots>>

(* The argument of persist_ring. *)
Ring(w) == IF mine[w] = NoRing THEN ring ELSE mine[w]

writerFrame == <<scope, hydrated, ring, auditor, commands, base, overlap, ops,
                 boots>>


(* BEGIN; it raises inside a transaction, whoever opened it. *)
Begin(w) ==
    /\ pc[w] = "begin"
    /\ \/ SqlBegin /\ Goto(w, "delete")
       \/ open /\ Goto(w, "rollback") /\ UNCHANGED dbVars
    /\ UNCHANGED <<writerFrame, mine, at, edit, acked>>

(* Mutant of Delete: the deletion is committed by itself. *)
DeleteCommits(w) ==
    /\ pc[w] = "delete"
    /\ rows' = {} /\ Closed /\ UNCHANGED trail
    /\ at' = [at EXCEPT ![w] = 1]
    /\ Goto(w, "insert")
    /\ UNCHANGED <<writerFrame, mine, edit, acked>>

(* DELETE FROM operator_keys WHERE scope = ? *)
Delete(w) ==
    /\ pc[w] = "delete"
    /\ SqlWriteRows({})
    /\ at' = [at EXCEPT ![w] = 1]
    /\ Goto(w, "insert")
    /\ UNCHANGED <<writerFrame, mine, edit, acked>>

Replace(seen, e) == {r \in seen : r.pem # e.pem} \cup {e}

(* Mutant of Insert: the loop does not advance. *)
InsertAgain(w) ==
    /\ pc[w] = "insert" /\ at[w] <= Len(Ring(w))
    /\ SqlWriteRows(Replace(Seen, Ring(w)[at[w]]))
    /\ UNCHANGED <<writerFrame, mine, pc, at, edit, acked>>

(* for e in ring: INSERT OR REPLACE; the list may grow meanwhile. *)
Insert(w) ==
    /\ pc[w] = "insert" /\ at[w] <= Len(Ring(w))
    /\ SqlWriteRows(Replace(Seen, Ring(w)[at[w]]))
    /\ at' = [at EXCEPT ![w] = @ + 1]
    /\ UNCHANGED <<writerFrame, mine, pc, edit, acked>>

(* COMMIT, and the endpoint answers; without a transaction it raises. *)
Commit(w) ==
    /\ pc[w] = "insert" /\ at[w] > Len(Ring(w))
    /\ \/ /\ SqlCommit
          /\ acked' = [added |-> acked.added \cup edit[w].added,
                       revoked |-> acked.revoked \cup edit[w].revoked]
          /\ Return(w)
          /\ mine' = [mine EXCEPT ![w] = NoRing]
       \/ /\ ~open
          /\ Goto(w, "rollback")
          /\ UNCHANGED <<dbVars, mine, at, edit, acked>>
    /\ UNCHANGED writerFrame

(* except Exception: ROLLBACK; raise.  The endpoint answers 500, and the   *)
(* ring in memory stays as it is.                                          *)
Rollback(w) ==
    /\ pc[w] = "rollback"
    /\ SqlRollback
    /\ Return(w)
    /\ mine' = [mine EXCEPT ![w] = NoRing]
    /\ UNCHANGED <<writerFrame, acked>>

-----------------------------------------------------------------------------
(* append_safety_audit, for a signed halt or resume on the event loop. *)

AuditInsert ==
    /\ auditor = "idle" /\ commands < MaxAudits
    /\ SqlWriteTrail
    /\ auditor' = "commit"
    /\ overlap' = (overlap \/ ~Idle)
    /\ UNCHANGED <<scopeVars, ring, pc, at, edit, acked, commands, base, ops, boots>>

(* Mutant of AuditCommit: the commit is forgotten. *)
AuditCommitForgotten ==
    /\ auditor = "commit"
    /\ auditor' = "idle"
    /\ commands' = commands + 1
    /\ UNCHANGED <<scopeVars, dbVars, ring, pc, at, edit, acked, base, overlap, ops, boots>>

(* self._conn.commit(): nothing to do without a transaction. *)
AuditCommit ==
    /\ auditor = "commit"
    /\ \/ SqlCommit
       \/ ~open /\ UNCHANGED dbVars
    /\ auditor' = "idle"
    /\ commands' = commands + 1
    /\ UNCHANGED <<scopeVars, ring, pc, at, edit, acked, base, overlap, ops, boots>>

(* The process ends at any point; the next one hydrates the safety ring as *)
(* it starts.  A tenant does not come back: its id was in memory.          *)
Restart ==
    /\ scope = "safety" /\ boots < MaxBoots
    /\ boots' = boots + 1
    /\ Closed
    /\ ring' \in Reloaded(rows, Cardinality(rows))
    /\ pc' = [w \in Writers |-> "idle"]
    /\ at' = [w \in Writers |-> 1]
    /\ auditor' = "idle"
    /\ edit' = [w \in Writers |-> NoEdit]
    /\ base' = rows
    /\ UNCHANGED <<scopeVars, rows, trail, acked, commands, overlap, ops>>

Statement(w) ==
    \/ Load(w) \/ Hydrate(w) \/ Mutate(w) \/ Read(w)
    \/ Begin(w) \/ Delete(w) \/ Insert(w) \/ Commit(w) \/ Rollback(w)

Next ==
    \/ \E w \in Writers : Open(w) \/ Statement(w)
    \/ AuditInsert \/ AuditCommit
    \/ Restart

Spec == Init /\ [][Next]_vars

(* A thread that has started its request runs on. *)
FairSpec == Spec /\ (\A w \in Writers : WF_vars(Statement(w))) /\ WF_vars(AuditCommit)

-----------------------------------------------------------------------------
(* Every variable holds a value of its type, and a closed transaction      *)
(* sees nothing.                                                           *)
TypeOK ==
    /\ scope \in {"safety", "tenant"} /\ hydrated \in BOOLEAN
    /\ ring \in Seq(Entry)
    /\ mine \in [Writers -> Seq(Entry) \cup {NoRing}]
    /\ rows \subseteq Entry /\ txRows \subseteq Entry
    /\ edit \in [Writers -> Edit] /\ acked \in Edit
    /\ base \subseteq Entry
    /\ trail \in Nat /\ txTrail \in Nat /\ commands \in Nat
    /\ open \in BOOLEAN /\ overlap \in BOOLEAN
    /\ ~open => txRows = {} /\ txTrail = 0
    /\ pc \in [Writers -> {"idle", "load", "assign", "mutate", "begin", "delete",
                           "insert", "rollback"}]
    /\ at \in [Writers -> Nat \ {0}]
    /\ auditor \in {"idle", "commit"}
    /\ ops \in Nat /\ boots \in Nat

(* The edit is on disk: the key is there, and there revoked. *)
Durable(e) ==
    /\ \A k \in e.added : \E r \in rows : r.pem = k
    /\ \A k \in e.revoked : \E r \in rows : r.pem = k /\ r.revoked

(* As long as no two of them are inside the store at once, what was        *)
(* answered is on disk whatever the moment of a crash, memory and disk     *)
(* agree when nobody is running, and while a mutation runs the disk holds  *)
(* the set before it, never a part of one.                                 *)
SerialWriteThrough ==
    /\ TypeOK
    /\ ~overlap =>
        /\ Durable(acked)
        /\ Idle => rows = Stored(ring) /\ trail = commands
        /\ (\E w \in Writers : pc[w] # "idle") => rows = base

(* Whatever they interleave, nobody leaves a transaction open behind: an   *)
(* idle store has nothing uncommitted that the next writer would find.     *)
NoDanglingTransaction == Idle => ~open

(* Every writer is answered, although others may grow the list it iterates *)
(* over and close the transaction it opened.                               *)
WritersAnswered == \A w \in Writers : pc[w] # "idle" ~> pc[w] = "idle"
=============================================================================
