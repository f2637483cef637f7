--------------------------- MODULE ReplayRegistry ---------------------------
(***************************************************************************)
(* src/src/security/replay.py: ActionRegistry (in memory) and its SQLite   *)
(* twin DurableActionRegistry, the gate that lets an action through once.  *)
(*                                                                         *)
(* An action hash covers the tenant and every field of Attr, so a hash is  *)
(* a pair <<tenant, action>>.  byHash is the status of every hash, byNonce *)
(* the action that owns a nonce of a tenant: two dictionaries in memory,   *)
(* one table with two unique keys on disk.                                 *)
(***************************************************************************)
EXTENDS Naturals

CONSTANTS
    Tenants,      \* tenant ids (uuid4: never issued twice)
    Actions,      \* the contents of FinancialActions, without the tenant
    Attr,         \* the fields of each action that the control plane reads
    NoAction,     \* a nonce without an owner
    DurableRegistry  \* RATHNONE_LEDGER_DB is set

Capabilities == {"trade_execute", "treasury_rebalance", "chain_settle", "other"}

(* FinancialAction: id is the caller's action_id, expiry is in epoch       *)
(* seconds with 0 for none; wellFormed is validate_structure, riskOk the   *)
(* verdict of RiskEngine.evaluate, size what the settlement or order check *)
(* tells apart: "large" is above the default ceiling of a live tenant.     *)
ActionAttr == [id: STRING, nonce: Nat, expiry: Nat, capability: Capabilities,
               wellFormed: BOOLEAN, riskOk: BOOLEAN,
               size: {"small", "large", "malformed"}]

ASSUME RegistryAssumption ==
    /\ Attr \in [Actions -> ActionAttr]
    /\ NoAction \notin Actions
    /\ DurableRegistry \in BOOLEAN

VARIABLES
    byHash,    \* _by_hash: <<tenant, action>> -> status, "NONE" if not there
    byNonce    \* _by_nonce: <<tenant, nonce>> -> action

registryVars == <<byHash, byNonce>>

Hashes == Tenants \X Actions
Nonces == {Attr[a].nonce : a \in Actions}
Statuses == {"NONE", "REGISTERED", "SIGNED", "SUBMITTED", "EXPIRED"}

RegistryTypeOK ==
    /\ byHash \in [Hashes -> Statuses]
    /\ byNonce \in [Tenants \X Nonces -> Actions \cup {NoAction}]

RegistryInit ==
    /\ byHash = [h \in Hashes |-> "NONE"]
    /\ byNonce = [p \in Tenants \X Nonces |-> NoAction]

(* `expiry and now and expiry < now`: a zero on either side switches it off. *)
Expired(a, now) ==
    LET expiry == Attr[a].expiry IN expiry # 0 /\ now # 0 /\ expiry < now

(* Mutant of Seen: only the nonce is looked up, never the hash. *)
SeenNever(t, a) == FALSE

Seen(t, a) == byHash[<<t, a>>] # "NONE"

NonceTaken(t, a) == byNonce[<<t, Attr[a].nonce>>] \notin {NoAction, a}

Insert(t, a, status) ==
    /\ byHash' = [byHash EXCEPT ![<<t, a>>] = status]
    /\ byNonce' = [byNonce EXCEPT ![<<t, Attr[a].nonce>>] = a]

(* register, when it returns a record. *)
Register(t, a, now) ==
    /\ ~Expired(a, now)
    /\ ~Seen(t, a)
    /\ ~NonceTaken(t, a)
    /\ Insert(t, a, "REGISTERED")

(* register, when the expiry check raises ReplayError.  In memory the      *)
(* status of a known hash is overwritten and nothing is inserted; on disk  *)
(* INSERT OR IGNORE adds a row unless the hash or the nonce has one.       *)
RefuseExpired(t, a, now) ==
    /\ Expired(a, now)
    /\ \/ /\ DurableRegistry
          /\ ~Seen(t, a) /\ byNonce[<<t, Attr[a].nonce>>] = NoAction
          /\ Insert(t, a, "EXPIRED")
       \/ /\ DurableRegistry
          /\ Seen(t, a) \/ byNonce[<<t, Attr[a].nonce>>] # NoAction
          /\ UNCHANGED registryVars
       \/ /\ ~DurableRegistry
          /\ byHash' = [byHash EXCEPT ![<<t, a>>] =
                            IF Seen(t, a) THEN "EXPIRED" ELSE "NONE"]
          /\ UNCHANGED byNonce

(* Mutant of RefuseReplay: the nonce index is not looked up here. *)
RefuseReplayByHash(t, a, now) ==
    /\ ~Expired(a, now)
    /\ Seen(t, a)
    /\ UNCHANGED registryVars

(* register, when it raises for a replayed hash or a reused nonce. *)
RefuseReplay(t, a, now) ==
    /\ ~Expired(a, now)
    /\ Seen(t, a) \/ NonceTaken(t, a)
    /\ UNCHANGED registryVars

(* advance: the caller has registered the hash. *)
Advance(t, a, status) ==
    /\ byHash' = [byHash EXCEPT ![<<t, a>>] = status]
    /\ UNCHANGED byNonce
=============================================================================
