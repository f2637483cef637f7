---------------------------- MODULE EvidenceLogs ----------------------------
(***************************************************************************)
(* The two hash-chained logs of the evidence domain, as operators on       *)
(* sequences: the trust log of evidence keys (query/authority.py) and the  *)
(* witness log of what was served (query/witness.py).                      *)
(*                                                                         *)
(* A hash is modelled by what was hashed: the hash of an entry is the      *)
(* sequence of the contents of the entries up to it.  A signature is the   *)
(* key that made it; nobody rewrites an entry, so a signature verifies     *)
(* under exactly that key.                                                 *)
(***************************************************************************)
EXTENDS Naturals, Sequences

(* What a lookup of a key answers when it finds none. *)
CONSTANT NoKey

(* canonical_bytes: every field but the signature, prev_hash included. *)
Canonical(e) == Append(e.prev, [f \in DOMAIN e \ {"prev", "sig"} |-> e[f]])

PrevHash(log) == IF log = <<>> THEN <<>> ELSE Canonical(log[Len(log)])

-----------------------------------------------------------------------------
(* The trust log: who may sign evidence. *)

BuildBootstrapLog(key) ==
    << [seq |-> 0, action |-> "bootstrap", pem |-> key, prev |-> <<>>, sig |-> key] >>

AppendRotate(log, new, signer) ==
    Append(log, [seq |-> Len(log), action |-> "rotate", pem |-> new,
                 prev |-> PrevHash(log), sig |-> signer])

CurrentPem(log) ==
    IF log # <<>> /\ log[Len(log)].action \in {"bootstrap", "rotate"}
    THEN log[Len(log)].pem ELSE NoKey

(* Both verifiers walk the chain in the same way. *)
Chained(log) ==
    \A i \in DOMAIN log :
        /\ log[i].seq = i - 1
        /\ log[i].prev = IF i = 1 THEN <<>> ELSE Canonical(log[i - 1])

(* The key of the last entry before the i-th that is not a revocation. *)
ExpectedSigner(log, i) ==
    LET kept == {j \in 1 .. i - 1 : log[j].action # "revoke"}
    IN  IF i = 1 THEN log[1].pem
        ELSE IF kept = {} THEN NoKey
        ELSE log[CHOOSE j \in kept : \A k \in kept : k <= j].pem

(* anchor_fingerprint is that of the bootstrap entry in every log that     *)
(* build_bootstrap_log and append_rotate make.                             *)
VerifyTrustLog(log, anchor) ==
    /\ log # <<>>
    /\ log[1].pem = anchor
    /\ Chained(log)
    /\ \A i \in DOMAIN log :
          /\ log[i].action \in IF i = 1 THEN {"bootstrap"} ELSE {"rotate", "revoke"}
          /\ log[i].sig = ExpectedSigner(log, i)

TrustedKeyForSeq(log, seq, fingerprint) ==
    IF /\ seq < Len(log)
       /\ log[seq + 1].action # "revoke"
       /\ log[seq + 1].pem = fingerprint
    THEN log[seq + 1].pem ELSE NoKey

-----------------------------------------------------------------------------
(* The witness log: what was served, under which key.  A fingerprint is    *)
(* the key it identifies; id stands for the hashes of query and record,    *)
(* the agent, its capabilities and the time.                               *)

WitnessEntry(log, id, signer, keySeq, fingerprint) ==
    [seq |-> Len(log), id |-> id, key_seq |-> keySeq, key_fingerprint |-> fingerprint,
     prev |-> PrevHash(log), sig |-> signer]

AppendEntry(log, id, signer, keySeq, fingerprint) ==
    Append(log, WitnessEntry(log, id, signer, keySeq, fingerprint))

VerifyWitnessLogAnchored(log, trust) ==
    /\ log # <<>>
    /\ Chained(log)
    /\ \A i \in DOMAIN log :
          log[i].sig = TrustedKeyForSeq(trust, log[i].key_seq, log[i].key_fingerprint)
=============================================================================
