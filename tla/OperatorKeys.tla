---------------------------- MODULE OperatorKeys ----------------------------
(***************************************************************************)
(* src/src/security/operator.py: the operator keyring and the gate for a   *)
(* signed operator command, as operators on values.  Modules with state    *)
(* (AuthorizationPipeline, OperatorKeyStore, HarnessGate) apply them.      *)
(*                                                                         *)
(* A PEM is a key of Keys, and its key_id is the key itself (sha256 of the *)
(* PEM).  A signature is the key that made it: a signature verifies        *)
(* against exactly that key.                                               *)
(***************************************************************************)
EXTENDS Naturals, Sequences

CONSTANTS
    Keys,        \* operator public keys (PEMs)
    NoExpiry,    \* OperatorKeyEntry.expires_at = None
    NoKey,       \* "signed by nobody on record"
    MaxAge       \* verify_command's max_age_s

ASSUME OperatorKeysAssumption ==
    /\ NoExpiry \notin Nat
    /\ NoKey \notin Keys
    /\ MaxAge \in Nat

Entry == [pem: Keys, expires: Nat \cup {NoExpiry}, revoked: BOOLEAN]

(* OperatorKeyEntry.is_expired / is_active; times are epoch seconds. *)
IsExpired(e, now) == e.expires # NoExpiry /\ now >= e.expires
IsActive(e, now) == ~e.revoked /\ ~IsExpired(e, now)

(* OperatorKeyRing.active_pems, as a set: no caller looks at its order. *)
ActivePems(ring, now) ==
    {ring[i].pem : i \in {j \in DOMAIN ring : IsActive(ring[j], now)}}

(* OperatorKeyRing._find, and revoke's scan by key_id: the index of the    *)
(* first entry of the key, as a set with at most one element.              *)
Find(ring, pem) ==
    {i \in DOMAIN ring :
        /\ ring[i].pem = pem
        /\ \A j \in DOMAIN ring : j < i => ring[j].pem # pem}

(* OperatorKeyRing.add never looks for an entry that is already there. *)
Add(ring, pem, expires) ==
    Append(ring, [pem |-> pem, expires |-> expires, revoked |-> FALSE])

(* OperatorKeyRing.revoke: the first entry only.  The caller answers 404   *)
(* when Find(ring, pem) is empty.                                          *)
Revoke(ring, pem) ==
    [i \in DOMAIN ring |->
        IF i \in Find(ring, pem) THEN [ring[i] EXCEPT !.revoked = TRUE]
                                 ELSE ring[i]]

(* The retirement half of OperatorKeyRing.rotate: a grace window for a key *)
(* without an expiry, an immediate revocation otherwise.                   *)
Retire(e, grace, now) ==
    IF grace > 0 /\ e.expires = NoExpiry
    THEN [e EXCEPT !.expires = now + grace]
    ELSE [e EXCEPT !.revoked = TRUE]

(* OperatorKeyRing.rotate: append the new key, then look for the old one,  *)
(* in that order.                                                          *)
Rotate(ring, new, old, expires, grace, now) ==
    LET grown == Add(ring, new, expires)
    IN  [i \in DOMAIN grown |->
            IF i \in Find(grown, old) THEN Retire(grown[i], grace, now)
                                      ELSE grown[i]]

(* DurableOperatorKeyStore.persist_ring: INSERT OR REPLACE under the       *)
(* primary key (scope, key_id), so the last entry of a key is the one that *)
(* is stored; load_scope returns one entry per key.                        *)
Stored(ring) ==
    {ring[i] : i \in {j \in DOMAIN ring :
        \A k \in DOMAIN ring : k > j => ring[k].pem # ring[j].pem}}

(* load_scope: one entry per stored key, in an order SQL leaves open. *)
Reloaded(entries, n) ==
    {s \in UNION {[1..m -> entries] : m \in 0..n} :
        /\ \A e \in entries : \E i \in DOMAIN s : s[i] = e
        /\ \A i, j \in DOMAIN s : s[i] = s[j] => i = j}

(* verify_command.  The verb of the command is signed and not looked at.   *)
VerifyCommand(cmd, body, allowlist, usedNonces, now, scope) ==
    /\ allowlist # {}
    /\ cmd.scope = scope
    /\ cmd.body = body
    /\ cmd.nonce \notin usedNonces
    /\ cmd.stamp <= now + MaxAge /\ now <= cmd.stamp + MaxAge
    /\ cmd.signer \in allowlist
=============================================================================
