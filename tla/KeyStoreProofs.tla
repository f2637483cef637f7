--------------------------- MODULE KeyStoreProofs ---------------------------
(***************************************************************************)
(* OperatorKeyStore for any number of writers, keys and restarts.          *)
(***************************************************************************)
EXTENDS OperatorKeyStore, FiniteSetTheorems, SequenceTheorems, TLAPS

Places == {"idle", "load", "assign", "mutate", "begin", "delete", "insert",
           "rollback"}

(* The inductive invariant: an open transaction has somebody who will      *)
(* still close it, a writer between BEGIN and COMMIT or the event loop     *)
(* between INSERT and commit.  NoDanglingTransaction by itself is not      *)
(* inductive: a reader of the ring leaves without touching the store.      *)
HeldOpen ==
    /\ pc \in [Writers -> Places]
    /\ open => \/ auditor = "commit"
               \/ \E w \in Writers : pc[w] \in {"delete", "insert"}

LEMMA HeldOpenSuffices == HeldOpen => NoDanglingTransaction
BY DEF HeldOpen, NoDanglingTransaction, Idle

LEMMA HeldOpenStep ==
    ASSUME HeldOpen, [Next]_vars
    PROVE  HeldOpen'
<1> USE DEF HeldOpen, Places
<1>1. ASSUME NEW w \in Writers,
             Open(w) \/ Load(w) \/ Hydrate(w) \/ Mutate(w) \/ Read(w)
      PROVE  HeldOpen'
  <2>1. \E place \in Places : pc' = [pc EXCEPT ![w] = place]
    BY <1>1 DEF Open, Load, Hydrate, Mutate, Read, Goto, Return
  <2>2. pc[w] \in {"idle", "load", "assign", "mutate"}
    BY <1>1 DEF Open, Load, Hydrate, Mutate, Read
  <2>3. open' = open /\ auditor' = auditor
    BY <1>1 DEF Open, Load, Hydrate, Mutate, Read, dbVars
  <2> QED
    BY <2>1, <2>2, <2>3
<1>2. ASSUME NEW w \in Writers, Begin(w)
      PROVE  HeldOpen'
  <2>1. CASE SqlBegin /\ Goto(w, "delete")
    <3>1. pc' \in [Writers -> Places] /\ pc'[w] = "delete"
      BY <2>1 DEF Goto
    <3> QED
      BY <3>1
  <2>2. CASE open /\ Goto(w, "rollback") /\ UNCHANGED dbVars
    <3>1. auditor' = auditor /\ pc[w] = "begin"
      BY <1>2 DEF Begin, writerFrame
    <3> QED
      BY <2>2, <3>1 DEF Goto
  <2> QED
    BY <1>2, <2>1, <2>2 DEF Begin
<1>3. ASSUME NEW w \in Writers, Delete(w) \/ Insert(w)
      PROVE  HeldOpen'
  <2>1. pc' \in [Writers -> Places] /\ pc'[w] = "insert"
    BY <1>3 DEF Delete, Insert, Goto
  <2> QED
    BY <2>1
<1>4. ASSUME NEW w \in Writers, Commit(w) \/ Rollback(w)
      PROVE  HeldOpen'
  <2>1. pc' \in [Writers -> Places]
    BY <1>4 DEF Commit, Rollback, Return, Goto
  <2>2. open' = FALSE
    BY <1>4 DEF Commit, Rollback, SqlCommit, SqlRollback, Closed, dbVars
  <2> QED
    BY <2>1, <2>2
<1>5. CASE AuditInsert
  BY <1>5 DEF AuditInsert
<1>6. CASE AuditCommit
  BY <1>6 DEF AuditCommit, SqlCommit, Closed, dbVars
<1>7. CASE Restart
  BY <1>7 DEF Restart, Closed
<1>8. CASE UNCHANGED vars
  BY <1>8 DEF vars, dbVars
<1> QED
  BY <1>1, <1>2, <1>3, <1>4, <1>5, <1>6, <1>7, <1>8 DEF Next, Statement

(* Nobody leaves a transaction open on the shared connection of            *)
(* DurableOperatorKeyStore: whatever the threads of the key endpoints, the *)
(* audit of the event loop and a crash interleave, an idle store has       *)
(* nothing uncommitted.                                                    *)
THEOREM StoreClosesTransactions == Spec => []NoDanglingTransaction
<1>1. Init => HeldOpen
  BY DEF Init, HeldOpen, Places
<1>2. HeldOpen /\ [Next]_vars => HeldOpen'
  BY HeldOpenStep
<1>3. HeldOpen => NoDanglingTransaction
  BY HeldOpenSuffices
<1> QED
  BY <1>1, <1>2, <1>3, PTL DEF Spec

-----------------------------------------------------------------------------
(* What the store has written. *)

(* The entries of a ring, those before a place, and a ring in which every  *)
(* key has one entry.                                                      *)
Entries(g) == {g[i] : i \in DOMAIN g}
Before(g, n) == {g[i] : i \in {j \in DOMAIN g : j < n}}
OneEach(g) == \A i, j \in DOMAIN g : g[i].pem = g[j].pem => i = j

(* The edit is in the ring. *)
Carries(g, e) ==
    /\ \A k \in e.added : \E i \in DOMAIN g : g[i].pem = k
    /\ \A k \in e.revoked : \E i \in DOMAIN g : g[i].pem = k /\ g[i].revoked

(* A thread about to hydrate holds a ring, a table has finitely many rows, *)
(* and the safety ring is loaded before anybody asks for it.               *)
Types ==
    /\ TypeOK
    /\ IsFiniteSet(rows) /\ IsFiniteSet(txRows)
    /\ \A w \in Writers : pc[w] = "assign" => mine[w] \in Seq(Entry)
    /\ scope = "safety" => /\ hydrated
                           /\ \A w \in Writers : pc[w] \notin {"load", "assign"}

Writing == {"begin", "delete", "insert"}

(* What a client was told is on disk, and the disk and the ring have one   *)
(* entry for each key.                                                     *)
Disk ==
    /\ Durable(acked) /\ trail = commands /\ OneEach(ring)
    /\ \A r, s \in rows : r.pem = s.pem => r = s

(* Nobody but w is inside the store. *)
Alone(w) ==
    /\ auditor = "idle"
    /\ \A v \in Writers \ {w} : pc[v] = "idle" /\ mine[v] = NoRing

(* Where w stands: the disk holds the ring, or the set before the edit     *)
(* that w is making durable, entry by entry.                               *)
Turn(w) ==
    /\ pc[w] \notin Writing => rows = Entries(ring)
    /\ open <=> pc[w] \in {"delete", "insert"}
    /\ pc[w] # "idle" => rows = base /\ pc[w] # "rollback"
    /\ IF pc[w] = "assign" THEN OneEach(mine[w]) /\ Entries(mine[w]) = rows
                           ELSE mine[w] = NoRing
    /\ pc[w] \in Writing => Carries(ring, acked) /\ Carries(ring, edit[w])
    /\ open => txTrail = trail
    /\ pc[w] = "insert" => txRows = Before(ring, at[w])

(* Nobody is, and the event loop may be between its INSERT and its commit. *)
Rest ==
    /\ rows = Entries(ring)
    /\ \A w \in Writers : pc[w] = "idle" /\ mine[w] = NoRing
    /\ open <=> auditor = "commit"
    /\ open => txRows = rows /\ txTrail = trail + 1

(* One at a time. *)
Serial == Disk /\ (Rest \/ \E w \in Writers : pc[w] # "idle" /\ Alone(w) /\ Turn(w))

StoreInv == Types /\ (~overlap => Serial)


-----------------------------------------------------------------------------
(* The operators the store applies to a ring. *)

LEMMA ReloadedType ==
    ASSUME NEW R, NEW n \in Nat, NEW g \in Reloaded(R, n)
    PROVE  /\ g \in Seq(R)
           /\ Entries(g) = R
           /\ \A i, j \in DOMAIN g : g[i] = g[j] => i = j
<1>1. PICK m \in 0..n : g \in [1..m -> R]
  BY DEF Reloaded
<1>2. m \in Nat
  BY <1>1
<1>3. g \in Seq(R) /\ DOMAIN g = 1..m
  BY <1>1, <1>2, IsASeq
<1>4. /\ \A e \in R : \E i \in DOMAIN g : g[i] = e
      /\ \A i, j \in DOMAIN g : g[i] = g[j] => i = j
  BY DEF Reloaded
<1>5. Entries(g) = R
  BY <1>1, <1>3, <1>4 DEF Entries
<1> QED
  BY <1>3, <1>4, <1>5

LEMMA EntryKey ==
    ASSUME NEW g \in Seq(Entry), NEW n \in DOMAIN g
    PROVE  g[n] \in Entry /\ g[n].pem \in Keys
<1>1. g[n] \in Entry
  BY LenProperties
<1> QED
  BY <1>1 DEF Entry

LEMMA AddEffect ==
    ASSUME NEW g \in Seq(Entry), NEW k \in Keys
    PROVE  LET h == Add(g, k, NoExpiry) IN
           /\ h \in Seq(Entry) /\ Len(h) = Len(g) + 1
           /\ \A i \in DOMAIN g : i \in DOMAIN h /\ h[i] = g[i]
           /\ h[Len(h)].pem = k
           /\ DOMAIN h = 1..(Len(g) + 1)
<1>1. [pem |-> k, expires |-> NoExpiry, revoked |-> FALSE] \in Entry
  BY DEF Entry
<1> QED
  BY <1>1 DEF Add

LEMMA RevokeEffect ==
    ASSUME NEW g \in Seq(Entry), NEW k \in Keys
    PROVE  LET h == Revoke(g, k) IN
           /\ h \in Seq(Entry) /\ DOMAIN h = DOMAIN g
           /\ \A i \in DOMAIN g : /\ h[i].pem = g[i].pem
                                  /\ g[i].revoked => h[i].revoked
                                  /\ i \in Find(g, k) => h[i].revoked
<1> DEFINE h == Revoke(g, k)
<1>1. DOMAIN g = 1..Len(g) /\ Len(g) \in Nat
  BY LenProperties
<1>2. DOMAIN h = DOMAIN g
  BY DEF Revoke
<1>3. ASSUME NEW i \in DOMAIN g
      PROVE  /\ h[i] \in Entry /\ h[i].pem = g[i].pem
             /\ g[i].revoked => h[i].revoked
             /\ i \in Find(g, k) => h[i].revoked
  <2>1. g[i] \in Entry
    BY <1>1
  <2>2. h[i] = IF i \in Find(g, k) THEN [g[i] EXCEPT !.revoked = TRUE] ELSE g[i]
    BY DEF Revoke
  <2> HIDE DEF h
  <2> QED
    BY <2>1, <2>2 DEF Entry
<1>4. h \in Seq(Entry)
  <2>1. h = [i \in DOMAIN g |-> h[i]]
    BY DEF Revoke
  <2> HIDE DEF h
  <2>2. h \in [1..Len(g) -> Entry]
    BY <1>1, <1>3, <2>1
  <2> QED
    BY <1>1, <2>2, IsASeq
<1> HIDE DEF h
<1>5. /\ h \in Seq(Entry) /\ DOMAIN h = DOMAIN g
      /\ \A i \in DOMAIN g : /\ h[i].pem = g[i].pem
                             /\ g[i].revoked => h[i].revoked
                             /\ i \in Find(g, k) => h[i].revoked
  BY <1>2, <1>3, <1>4
<1> QED
  BY <1>5 DEF h

(* Without a grace period, a rotation adds the new key and revokes the     *)
(* old one.                                                                *)
LEMMA RotateIsRevoke ==
    ASSUME NEW g \in Seq(Entry), NEW new \in Keys, NEW old \in Keys
    PROVE  Rotate(g, new, old, NoExpiry, 0, 0)
             = Revoke(Add(g, new, NoExpiry), old)
<1>1. \A e : Retire(e, 0, 0) = [e EXCEPT !.revoked = TRUE]
  BY DEF Retire
<1> QED
  BY <1>1 DEF Rotate, Revoke

(* In a ring with one entry for each key, the first is the only one. *)
LEMMA OneEachFind ==
    ASSUME NEW g \in Seq(Entry), OneEach(g), NEW i \in DOMAIN g
    PROVE  i \in Find(g, g[i].pem)
<1>1. DOMAIN g = 1..Len(g) /\ Len(g) \in Nat
  BY LenProperties
<1> QED
  BY <1>1 DEF Find, OneEach

LEMMA OneEachStored ==
    ASSUME NEW g \in Seq(Entry), OneEach(g)
    PROVE  Stored(g) = Entries(g)
<1>1. DOMAIN g = 1..Len(g) /\ Len(g) \in Nat
  BY LenProperties
<1>2. \A j \in DOMAIN g : \A k \in DOMAIN g : k > j => g[k].pem # g[j].pem
  BY <1>1 DEF OneEach
<1> QED
  BY <1>2 DEF Stored, Entries

(* Adding a fresh key keeps one entry for each, and what was carried. *)
LEMMA AddCarries ==
    ASSUME NEW g \in Seq(Entry), OneEach(g), NEW k \in Keys,
           \A i \in DOMAIN g : g[i].pem # k
    PROVE  LET h == Add(g, k, NoExpiry) IN
           /\ h \in Seq(Entry) /\ OneEach(h)
           /\ \A e \in Edit : Carries(g, e) => Carries(h, e)
           /\ Carries(h, [added |-> {k}, revoked |-> {}])
<1> DEFINE h == Add(g, k, NoExpiry)
<1>1. /\ h \in Seq(Entry) /\ Len(h) = Len(g) + 1
      /\ \A i \in DOMAIN g : i \in DOMAIN h /\ h[i] = g[i]
      /\ h[Len(h)].pem = k
      /\ DOMAIN h = 1..(Len(g) + 1)
  BY AddEffect
<1>2. DOMAIN g = 1..Len(g) /\ Len(g) \in Nat
  BY LenProperties
<1> HIDE DEF h
<1>3. OneEach(h)
  <2> SUFFICES ASSUME NEW i \in DOMAIN h, NEW j \in DOMAIN h, h[i].pem = h[j].pem
               PROVE  i = j
    BY DEF OneEach
  <2>1. \A n \in DOMAIN h : n \in DOMAIN g \/ n = Len(h)
    BY <1>1, <1>2
  <2> QED
    BY <1>1, <2>1 DEF OneEach
<1>4. \A e \in Edit : Carries(g, e) => Carries(h, e)
  BY <1>1 DEF Carries
<1>5. Len(h) \in DOMAIN h
  BY <1>1, <1>2
<1>6. Carries(h, [added |-> {k}, revoked |-> {}])
  BY <1>1, <1>5 DEF Carries
<1> QED
  BY <1>1, <1>3, <1>4, <1>6 DEF h

LEMMA RevokeCarries ==
    ASSUME NEW g \in Seq(Entry), OneEach(g), NEW n \in DOMAIN g
    PROVE  LET h == Revoke(g, g[n].pem) IN
           /\ h \in Seq(Entry) /\ OneEach(h)
           /\ \A e \in Edit : Carries(g, e) => Carries(h, e)
           /\ Carries(h, [added |-> {}, revoked |-> {g[n].pem}])
<1> DEFINE h == Revoke(g, g[n].pem)
<1>0. g[n].pem \in Keys
  BY EntryKey
<1>1. /\ h \in Seq(Entry) /\ DOMAIN h = DOMAIN g
      /\ \A i \in DOMAIN g : /\ h[i].pem = g[i].pem
                             /\ g[i].revoked => h[i].revoked
                             /\ i \in Find(g, g[n].pem) => h[i].revoked
  BY <1>0, RevokeEffect
<1>2. n \in Find(g, g[n].pem)
  BY OneEachFind
<1> HIDE DEF h
<1>3. OneEach(h)
  BY <1>1 DEF OneEach
<1>4. \A e \in Edit : Carries(g, e) => Carries(h, e)
  BY <1>1 DEF Carries
<1>5. Carries(h, [added |-> {}, revoked |-> {g[n].pem}])
  BY <1>1, <1>2 DEF Carries
<1> QED
  BY <1>1, <1>3, <1>4, <1>5 DEF h

LEMMA RotateCarries ==
    ASSUME NEW g \in Seq(Entry), OneEach(g), NEW new \in Keys, NEW n \in DOMAIN g,
           \A i \in DOMAIN g : g[i].pem # new
    PROVE  LET h == Rotate(g, new, g[n].pem, NoExpiry, 0, 0) IN
           /\ h \in Seq(Entry) /\ OneEach(h)
           /\ \A e \in Edit : Carries(g, e) => Carries(h, e)
           /\ Carries(h, [added |-> {new}, revoked |-> {g[n].pem}])
<1> DEFINE a == Add(g, new, NoExpiry)
           h == Revoke(a, g[n].pem)
<1>0. g[n].pem \in Keys
  BY EntryKey
<1>1. /\ a \in Seq(Entry) /\ OneEach(a)
      /\ \A e \in Edit : Carries(g, e) => Carries(a, e)
      /\ Carries(a, [added |-> {new}, revoked |-> {}])
  BY AddCarries
<1>2. n \in DOMAIN a /\ a[n].pem = g[n].pem
  BY AddEffect
<1>3. Rotate(g, new, g[n].pem, NoExpiry, 0, 0) = h
  BY <1>0, RotateIsRevoke
<1> HIDE DEF a
<1>4. /\ h \in Seq(Entry) /\ OneEach(h)
      /\ \A e \in Edit : Carries(a, e) => Carries(h, e)
      /\ Carries(h, [added |-> {}, revoked |-> {g[n].pem}])
  BY <1>1, <1>2, RevokeCarries
<1> HIDE DEF h
<1>5. [added |-> {new}, revoked |-> {}] \in Edit
  BY DEF Edit
<1>6. Carries(h, [added |-> {new}, revoked |-> {g[n].pem}])
  BY <1>1, <1>4, <1>5 DEF Carries
<1> QED
  BY <1>1, <1>3, <1>4, <1>6

(* One INSERT OR REPLACE more, and the last one. *)
LEMMA ReplaceBefore ==
    ASSUME NEW g \in Seq(Entry), OneEach(g), NEW i \in DOMAIN g
    PROVE  Replace(Before(g, i), g[i]) = Before(g, i + 1)
<1>1. DOMAIN g = 1..Len(g) /\ Len(g) \in Nat
  BY LenProperties
<1>2. \A j \in DOMAIN g : j < i + 1 <=> j < i \/ j = i
  BY <1>1
<1>3. \A j \in DOMAIN g : j < i => g[j].pem # g[i].pem
  BY <1>1 DEF OneEach
<1> QED
  BY <1>2, <1>3 DEF Replace, Before

LEMMA BeforeAll ==
    ASSUME NEW g \in Seq(Entry), NEW n \in Nat, n > Len(g)
    PROVE  Before(g, n) = Entries(g)
<1>1. DOMAIN g = 1..Len(g) /\ Len(g) \in Nat
  BY LenProperties
<1>2. \A j \in DOMAIN g : j < n
  BY <1>1
<1> QED
  BY <1>2 DEF Before, Entries

LEMMA BeforeNone ==
    ASSUME NEW g \in Seq(Entry)
    PROVE  Before(g, 1) = {}
<1>1. DOMAIN g = 1..Len(g) /\ Len(g) \in Nat
  BY LenProperties
<1> QED
  BY <1>1 DEF Before

-----------------------------------------------------------------------------
(* Every step keeps the types. *)

LEMMA TypesInit == Init => Types
<1> SUFFICES ASSUME Init PROVE Types
  OBVIOUS
<1>1. NoEdit \in Edit
  BY DEF NoEdit, Edit
<1>2. ring \in Seq(Entry)
  BY DEF Init
<1>3. hydrated \in BOOLEAN /\ (scope = "safety" => hydrated) /\ open \in BOOLEAN /\ overlap \in BOOLEAN
  BY DEF Init
<1>4. /\ mine \in [Writers -> Seq(Entry) \cup {NoRing}]
      /\ edit \in [Writers -> Edit] /\ acked \in Edit
  BY <1>1 DEF Init
<1>5. /\ rows = {} /\ trail = 0 /\ txRows = {} /\ txTrail = 0 /\ base = {}
      /\ scope \in {"safety", "tenant"} /\ auditor = "idle"
      /\ commands = 0 /\ ops = 0 /\ boots = 0
      /\ pc = [w \in Writers |-> "idle"] /\ at = [w \in Writers |-> 1]
  BY DEF Init
<1>5a. TypeOK
  BY <1>2, <1>3, <1>4, <1>5 DEF TypeOK
<1>6. IsFiniteSet(rows) /\ IsFiniteSet(txRows)
  BY FS_EmptySet DEF Init
<1> QED
  BY <1>3, <1>5, <1>5a, <1>6 DEF Types

LEMMA SeenTypes ==
    ASSUME Types
    PROVE  Seen \subseteq Entry /\ IsFiniteSet(Seen) /\ Cardinality(Seen) \in Nat
<1>1. Seen \subseteq Entry /\ IsFiniteSet(Seen)
  BY DEF Types, TypeOK, Seen
<1> QED
  BY <1>1, FS_CardinalityType

LEMMA RingType ==
    ASSUME Types, NEW w \in Writers
    PROVE  Ring(w) \in Seq(Entry)
BY DEF Types, TypeOK, Ring

LEMMA ReplaceType ==
    ASSUME NEW R \in SUBSET Entry, IsFiniteSet(R), NEW e \in Entry
    PROVE  Replace(R, e) \subseteq Entry /\ IsFiniteSet(Replace(R, e))
<1>1. IsFiniteSet({r \in R : r.pem # e.pem})
  BY FS_Subset
<1>2. IsFiniteSet({r \in R : r.pem # e.pem} \cup {e})
  BY <1>1, FS_AddElement
<1> QED
  BY <1>2 DEF Replace

LEMMA TypesWriter ==
    ASSUME Types, NEW w \in Writers, Open(w) \/ Statement(w)
    PROVE  Types'
<1> USE DEF Types, TypeOK
<1>0. NoEdit \in Edit
  BY DEF NoEdit, Edit
<1>1. CASE Open(w)
  BY <1>1 DEF Open, Goto, scopeVars, dbVars
<1>2. CASE Load(w)
  <2>1. PICK g \in Reloaded(Seen, Cardinality(Seen)) : mine' = [mine EXCEPT ![w] = g]
    BY <1>2 DEF Load
  <2>2. g \in Seq(Entry)
    BY SeenTypes, ReloadedType, SeqMonotonic
  <2> QED
    BY <1>2, <2>1, <2>2 DEF Load, Goto, dbVars
<1>3. CASE Hydrate(w)
  <2>1. ring' \in Seq(Entry)
    BY <1>3 DEF Hydrate
  <2>2. mine' \in [Writers -> Seq(Entry) \cup {NoRing}]
    BY <1>3 DEF Hydrate
  <2>3. \A v \in Writers : pc'[v] = "assign" => pc[v] = "assign" /\ v # w
    BY <1>3 DEF Hydrate, Goto
  <2>4. \A v \in Writers : pc[v] = "assign" /\ v # w => mine'[v] = mine[v]
    BY <1>3 DEF Hydrate
  <2> QED
    BY <1>3, <2>1, <2>2, <2>3, <2>4 DEF Hydrate, Goto, dbVars
<1>4. CASE Mutate(w)
  <2>1. ring' \in Seq(Entry) /\ \E e \in Edit : edit' = [edit EXCEPT ![w] = e]
    <3>1. ASSUME NEW k \in Keys, ring' = Add(ring, k, NoExpiry),
                 edit' = [edit EXCEPT ![w] = [added |-> {k}, revoked |-> {}]]
          PROVE  <2>1
      <4>1. [added |-> {k}, revoked |-> {}] \in Edit
        BY DEF Edit
      <4>2. ring' \in Seq(Entry)
        BY <3>1, AddEffect
      <4> QED
        BY <3>1, <4>1, <4>2
    <3>2. \A k \in Held : k \in Keys
      BY EntryKey DEF Held
    <3>3. ASSUME NEW k \in Keys, ring' = Revoke(ring, k),
                 edit' = [edit EXCEPT ![w] = [added |-> {}, revoked |-> {k}]]
          PROVE  <2>1
      BY <3>3, RevokeEffect DEF Edit
    <3>4. ASSUME NEW new \in Keys, NEW old \in Keys,
                 ring' = Rotate(ring, new, old, NoExpiry, 0, 0),
                 edit' = [edit EXCEPT ![w] = [added |-> {new}, revoked |-> {old}]]
          PROVE  <2>1
      <4>1. Add(ring, new, NoExpiry) \in Seq(Entry)
        BY AddEffect
      <4>2. Revoke(Add(ring, new, NoExpiry), old) \in Seq(Entry)
        BY <4>1, RevokeEffect
      <4> QED
        BY <3>4, <4>2, RotateIsRevoke DEF Edit
    <3> QED
      BY <1>4, <3>1, <3>2, <3>3, <3>4 DEF Mutate
  <2> QED
    BY <1>4, <2>1 DEF Mutate, Goto, scopeVars, dbVars
<1>5. CASE Read(w)
  BY <1>0, <1>5 DEF Read, Return, scopeVars, dbVars
<1>6. CASE Begin(w)
  <2>1. CASE SqlBegin /\ Goto(w, "delete")
    BY <1>6, <2>1 DEF Begin, SqlBegin, Goto, writerFrame
  <2>2. CASE open /\ Goto(w, "rollback") /\ UNCHANGED dbVars
    BY <1>6, <2>2 DEF Begin, Goto, dbVars, writerFrame
  <2> QED
    BY <1>6, <2>1, <2>2 DEF Begin
<1>7. CASE Delete(w)
  <2>1. IsFiniteSet(txRows') /\ txRows' \subseteq Entry
    BY <1>7, FS_EmptySet DEF Delete, SqlWriteRows
  <2> QED
    BY <1>7, <2>1 DEF Delete, SqlWriteRows, Goto, writerFrame
<1>8. CASE Insert(w)
  <2>1. Ring(w)[at[w]] \in Entry
    BY <1>8, RingType, ElementOfSeq DEF Insert
  <2>2. IsFiniteSet(txRows') /\ txRows' \subseteq Entry
    BY <1>8, <2>1, SeenTypes, ReplaceType DEF Insert, SqlWriteRows
  <2> QED
    BY <1>8, <2>2 DEF Insert, SqlWriteRows, Goto, writerFrame
<1>9. CASE Commit(w)
  <2>1. CASE SqlCommit
    <3>1. /\ acked' = [added |-> acked.added \cup edit[w].added,
                       revoked |-> acked.revoked \cup edit[w].revoked]
          /\ Return(w) /\ mine' = [mine EXCEPT ![w] = NoRing]
          /\ UNCHANGED writerFrame
      BY <1>9, <2>1 DEF Commit, SqlCommit
    <3>2. acked' \in Edit
      <4>1. edit[w] \in Edit /\ acked \in Edit
        OBVIOUS
      <4> QED
        BY <3>1, <4>1 DEF Edit
    <3>3. edit' \in [Writers -> Edit] /\ at' \in [Writers -> Nat \ {0}]
      BY <1>0, <3>1 DEF Return
    <3>4. IsFiniteSet(txRows') /\ txRows' \subseteq Entry
      BY <2>1, FS_EmptySet DEF SqlCommit, Closed
    <3> QED
      BY <2>1, <3>1, <3>2, <3>3, <3>4 DEF SqlCommit, Closed, Return, writerFrame
  <2>2. CASE ~open
    BY <1>9, <2>2 DEF Commit, SqlCommit, Goto, dbVars, writerFrame
  <2> QED
    BY <1>9, <2>1, <2>2 DEF Commit
<1>10. CASE Rollback(w)
  <2>1. IsFiniteSet(txRows') /\ txRows' \subseteq Entry
    BY <1>10, FS_EmptySet DEF Rollback, SqlRollback, Closed
  <2>2. open' = FALSE /\ txRows' = {} /\ txTrail' = 0 /\ rows' = rows /\ trail' = trail
    BY <1>10 DEF Rollback, SqlRollback, Closed
  <2>3. edit' \in [Writers -> Edit] /\ at' \in [Writers -> Nat \ {0}]
    BY <1>0, <1>10 DEF Rollback, Return
  <2> QED
    BY <1>10, <2>1, <2>2, <2>3 DEF Rollback, Return, writerFrame
<1> QED
  BY <1>1, <1>2, <1>3, <1>4, <1>5, <1>6, <1>7, <1>8, <1>9, <1>10 DEF Statement

LEMMA TypesStep == Types /\ [Next]_vars => Types'
<1> SUFFICES ASSUME Types, [Next]_vars PROVE Types'
  OBVIOUS
<1> USE DEF Types, TypeOK
<1>1. CASE \E w \in Writers : Open(w) \/ Statement(w)
  BY <1>1, TypesWriter
<1>2. CASE AuditInsert
  <2>1. IsFiniteSet(txRows') /\ txRows' \subseteq Entry
    BY <1>2, SeenTypes DEF AuditInsert, SqlWriteTrail
  <2> QED
    BY <1>2, <2>1 DEF AuditInsert, SqlWriteTrail, scopeVars
<1>3. CASE AuditCommit
  <2>1. IsFiniteSet(txRows') /\ txRows' \subseteq Entry
    BY <1>3, FS_EmptySet DEF AuditCommit, SqlCommit, Closed, dbVars
  <2>2. /\ open' \in BOOLEAN /\ txRows' = {} /\ txTrail' = 0
        /\ rows' \subseteq Entry /\ IsFiniteSet(rows') /\ trail' \in Nat
    BY <1>3 DEF AuditCommit, SqlCommit, Closed, dbVars
  <2>3. /\ auditor' = "idle" /\ commands' = commands + 1
        /\ UNCHANGED <<scope, hydrated, mine, ring, pc, at, edit, acked, base,
                       overlap, ops, boots>>
    BY <1>3 DEF AuditCommit, scopeVars
  <2> QED
    BY <2>1, <2>2, <2>3
<1>4. CASE Restart
  <2>1. ring' \in Seq(Entry)
    BY <1>4, FS_CardinalityType, ReloadedType, SeqMonotonic DEF Restart
  <2>2. IsFiniteSet(txRows') /\ txRows' \subseteq Entry
    BY <1>4, FS_EmptySet DEF Restart, Closed
  <2>3. NoEdit \in Edit
    BY DEF NoEdit, Edit
  <2>4. open' \in BOOLEAN /\ txRows' = {} /\ txTrail' = 0
    BY <1>4 DEF Restart, Closed
  <2>4a. edit' \in [Writers -> Edit] /\ at' \in [Writers -> Nat \ {0}]
    BY <1>4, <2>3 DEF Restart
  <2>5. /\ auditor' = "idle" /\ pc' = [w \in Writers |-> "idle"]
        /\ base' = rows /\ boots' = boots + 1
        /\ UNCHANGED <<scope, hydrated, mine, rows, trail, acked, commands,
                       overlap, ops>>
    BY <1>4 DEF Restart, scopeVars
  <2> QED
    BY <2>1, <2>2, <2>4, <2>4a, <2>5
<1>5. CASE UNCHANGED vars
  BY <1>5 DEF vars, scopeVars, dbVars
<1> QED
  BY <1>1, <1>2, <1>3, <1>4, <1>5 DEF Next

-----------------------------------------------------------------------------
(* One at a time, every statement keeps the disk and the ring in step. *)

LEMMA SerialSuffices ==
    ASSUME StoreInv
    PROVE  SerialWriteThrough
<1>1. ASSUME ~overlap
      PROVE  /\ Durable(acked)
             /\ Idle => rows = Stored(ring) /\ trail = commands
             /\ (\E w \in Writers : pc[w] # "idle") => rows = base
  <2>1. Disk /\ (Rest \/ \E w \in Writers : pc[w] # "idle" /\ Alone(w) /\ Turn(w))
    BY <1>1 DEF StoreInv, Serial
  <2>2. Stored(ring) = Entries(ring)
    BY <2>1, OneEachStored DEF Disk, StoreInv, Types, TypeOK
  <2>3. Idle => Rest
    BY <2>1 DEF Idle
  <2>4. (\E w \in Writers : pc[w] # "idle") => rows = base
    BY <2>1 DEF Rest, Turn
  <2> QED
    BY <2>1, <2>2, <2>3, <2>4 DEF Disk, Rest
<1> QED
  BY <1>1 DEF StoreInv, Types, SerialWriteThrough

(* A ring that was loaded has the rows, one entry for each key. *)
LEMMA ReloadedSerial ==
    ASSUME NEW R, NEW n \in Nat, NEW g \in Reloaded(R, n),
           \A r, s \in R : r.pem = s.pem => r = s
    PROVE  OneEach(g) /\ Entries(g) = R
<1>1. /\ g \in Seq(R) /\ Entries(g) = R
      /\ \A i, j \in DOMAIN g : g[i] = g[j] => i = j
  BY ReloadedType
<1>2. \A i \in DOMAIN g : g[i] \in R
  BY <1>1 DEF Entries
<1> QED
  BY <1>1, <1>2 DEF OneEach

(* What the rows hold, a ring with these entries carries, and back. *)
LEMMA DurableCarries ==
    ASSUME NEW e, rows = Entries(ring)
    PROVE  Durable(e) <=> Carries(ring, e)
BY DEF Durable, Carries, Entries

LEMMA SerialStart ==
    ASSUME Types, Serial, NEW w \in Writers, Open(w), ~overlap'
    PROVE  Serial'
<1>1. Idle /\ Rest
  BY DEF Open, Serial, Idle, Alone, Rest
<1>2. pc \in [Writers -> Places]
  BY DEF Types, TypeOK, Places
<1>3. pc' = [pc EXCEPT ![w] = IF hydrated THEN "mutate" ELSE "load"] /\ base' = rows
  BY <1>1 DEF Open, Goto
<1>4. /\ UNCHANGED <<mine, ring, rows, trail, open, txRows, txTrail, auditor>>
      /\ UNCHANGED <<acked, commands>>
  BY DEF Open, scopeVars, dbVars
<1>5. pc'[w] \in {"mutate", "load"} /\ \A v \in Writers \ {w} : pc'[v] = pc[v]
  BY <1>2, <1>3
<1>6. ~open /\ auditor = "idle"
  BY <1>1 DEF Idle, Rest
<1>7. Alone(w)'
  BY <1>1, <1>4, <1>5, <1>6 DEF Alone, Rest
<1>8. Turn(w)'
  BY <1>1, <1>3, <1>4, <1>5, <1>6 DEF Turn, Rest, Entries, Writing
<1>9. Disk'
  BY <1>4 DEF Serial, Disk, Durable, OneEach
<1> QED
  BY <1>5, <1>7, <1>8, <1>9 DEF Serial

(* The thread whose turn it is does not find anybody else inside. *)
LEMMA SerialTurn ==
    ASSUME Serial, NEW w \in Writers, pc[w] # "idle"
    PROVE  Disk /\ Alone(w) /\ Turn(w)
<1>1. PICK v \in Writers : pc[v] # "idle" /\ Alone(v) /\ Turn(v)
  BY DEF Serial, Rest
<1>2. v = w
  BY <1>1 DEF Alone
<1> QED
  BY <1>1, <1>2 DEF Serial

LEMMA AloneStays ==
    ASSUME Types, NEW w \in Writers, Alone(w), auditor' = auditor,
           NEW p, pc' = [pc EXCEPT ![w] = p],
           \A v \in Writers \ {w} : mine'[v] = mine[v]
    PROVE  Alone(w)' /\ pc'[w] = p
BY DEF Types, TypeOK, Alone

LEMMA SerialFetch ==
    ASSUME Types, Disk, NEW w \in Writers, Alone(w), Turn(w),
           Load(w) \/ Hydrate(w) \/ Mutate(w)
    PROVE  Disk' /\ pc'[w] # "idle" /\ Alone(w)' /\ Turn(w)'
<1>1. CASE Load(w)
  <2>1. pc[w] = "load" /\ ~open /\ rows = Entries(ring) /\ rows = base
    BY <1>1 DEF Load, Turn, Writing
  <2>2. PICK g \in Reloaded(Seen, Cardinality(Seen)) : mine' = [mine EXCEPT ![w] = g]
    BY <1>1 DEF Load
  <2>3. OneEach(g) /\ Entries(g) = rows
    BY <2>1, SeenTypes, ReloadedSerial DEF Disk, Seen
  <2>4. mine'[w] = g /\ \A v \in Writers \ {w} : mine'[v] = mine[v]
    BY <2>2 DEF Types, TypeOK
  <2>5. Goto(w, "assign") /\ auditor' = auditor
    BY <1>1 DEF Load
  <2>6. Alone(w)' /\ pc'[w] = "assign"
    BY <2>4, <2>5, AloneStays DEF Goto
  <2>7. UNCHANGED <<ring, rows, trail, open, acked, commands, base>>
    BY <1>1 DEF Load, dbVars
  <2>8. Disk'
    BY <2>7 DEF Disk, Durable, OneEach
  <2>9. OneEach(mine[w])' /\ Entries(mine[w])' = rows'
    BY <2>3, <2>4, <2>7 DEF OneEach, Entries
  <2>10. Entries(ring)' = rows'
    BY <2>1, <2>7 DEF Entries
  <2> QED
    BY <2>1, <2>6, <2>7, <2>8, <2>9, <2>10 DEF Turn, Writing
<1>2. CASE Hydrate(w)
  <2>1. pc[w] = "assign" /\ ~open /\ rows = base
    BY <1>2 DEF Hydrate, Turn
  <2>2. OneEach(mine[w]) /\ Entries(mine[w]) = rows
    BY <2>1 DEF Turn
  <2>3. ring' = mine[w] /\ Goto(w, "mutate") /\ auditor' = auditor
    BY <1>2 DEF Hydrate
  <2>4. UNCHANGED <<rows, trail, open, acked, commands, base>>
    BY <1>2 DEF Hydrate, dbVars
  <2>5. mine'[w] = NoRing /\ \A v \in Writers \ {w} : mine'[v] = mine[v]
    BY <1>2 DEF Hydrate, Alone
  <2>6. Alone(w)' /\ pc'[w] = "mutate"
    BY <2>3, <2>5, AloneStays DEF Goto
  <2>7. OneEach(ring)' /\ Entries(ring)' = rows'
    BY <2>2, <2>3, <2>4 DEF OneEach, Entries
  <2>8. Disk'
    BY <2>4, <2>7 DEF Disk, Durable
  <2> QED
    BY <2>1, <2>4, <2>5, <2>6, <2>7, <2>8 DEF Turn, Writing
<1>3. CASE Mutate(w)
  <2>1. pc[w] = "mutate" /\ ~open /\ rows = base /\ rows = Entries(ring) /\ mine[w] = NoRing
    BY <1>3 DEF Mutate, Turn, Writing
  <2>2. Carries(ring, acked) /\ ring \in Seq(Entry) /\ OneEach(ring) /\ acked \in Edit
    BY <2>1, DurableCarries DEF Disk, Types, TypeOK
  <2>3. Goto(w, "begin") /\ auditor' = auditor
    BY <1>3 DEF Mutate
  <2>4. UNCHANGED <<mine, rows, trail, open, acked, commands, base>>
    BY <1>3 DEF Mutate, scopeVars, dbVars
  <2>5. Alone(w)' /\ pc'[w] = "begin"
    BY <2>3, <2>4, AloneStays DEF Goto
  <2>6. OneEach(ring') /\ Carries(ring', acked) /\ Carries(ring', edit'[w])
    <3>0. \A e : edit' = [edit EXCEPT ![w] = e] => edit'[w] = e
      BY DEF Types, TypeOK
    <3>1. ASSUME NEW k \in Keys \ Held, ring' = Add(ring, k, NoExpiry),
                 edit' = [edit EXCEPT ![w] = [added |-> {k}, revoked |-> {}]]
          PROVE  <2>6
      <4>1. \A i \in DOMAIN ring : ring[i].pem # k
        BY DEF Held
      <4> QED
        <5>1. edit'[w] = [added |-> {k}, revoked |-> {}]
          BY <3>0, <3>1
        <5>2. OneEach(Add(ring, k, NoExpiry)) /\ Carries(Add(ring, k, NoExpiry), acked)
              /\ Carries(Add(ring, k, NoExpiry), [added |-> {k}, revoked |-> {}])
          BY <2>2, <4>1, AddCarries
        <5> QED
          BY <3>1, <5>1, <5>2
    <3>2. ASSUME NEW k \in Held, ring' = Revoke(ring, k),
                 edit' = [edit EXCEPT ![w] = [added |-> {}, revoked |-> {k}]]
          PROVE  <2>6
      <4>1. PICK n \in DOMAIN ring : k = ring[n].pem
        BY DEF Held
      <4>2. /\ OneEach(Revoke(ring, ring[n].pem))
            /\ \A e \in Edit : Carries(ring, e) => Carries(Revoke(ring, ring[n].pem), e)
            /\ Carries(Revoke(ring, ring[n].pem), [added |-> {}, revoked |-> {ring[n].pem}])
        BY <2>2, RevokeCarries
      <4> QED
        BY <2>2, <3>0, <3>2, <4>1, <4>2
    <3>3. ASSUME NEW new \in Keys \ Held, NEW old \in Held,
                 ring' = Rotate(ring, new, old, NoExpiry, 0, 0),
                 edit' = [edit EXCEPT ![w] = [added |-> {new}, revoked |-> {old}]]
          PROVE  <2>6
      <4>1. PICK n \in DOMAIN ring : old = ring[n].pem
        BY DEF Held
      <4>2. \A i \in DOMAIN ring : ring[i].pem # new
        BY DEF Held
      <4> DEFINE h == Rotate(ring, new, ring[n].pem, NoExpiry, 0, 0)
      <4>3. /\ OneEach(h)
            /\ \A e \in Edit : Carries(ring, e) => Carries(h, e)
            /\ Carries(h, [added |-> {new}, revoked |-> {ring[n].pem}])
        BY <2>2, <4>2, RotateCarries
      <4> QED
        BY <2>2, <3>0, <3>3, <4>1, <4>3
    <3> QED
      BY <1>3, <3>1, <3>2, <3>3 DEF Mutate
  <2>7. Disk'
    BY <2>4, <2>6 DEF Disk, Durable, OneEach
  <2>8. Carries(ring, acked)' /\ Carries(ring, edit[w])'
    BY <2>4, <2>6 DEF Carries
  <2> QED
    BY <2>1, <2>4, <2>5, <2>7, <2>8 DEF Turn, Writing
<1> QED
  BY <1>1, <1>2, <1>3

LEMMA SerialWrite ==
    ASSUME Types, Disk, NEW w \in Writers, Alone(w), Turn(w),
           Begin(w) \/ Delete(w) \/ Insert(w)
    PROVE  Disk' /\ pc'[w] # "idle" /\ Alone(w)' /\ Turn(w)'
<1>1. /\ pc[w] \in Writing /\ rows = base /\ mine[w] = NoRing
      /\ Carries(ring, acked) /\ Carries(ring, edit[w])
  BY DEF Begin, Delete, Insert, Turn, Writing
<1>2. UNCHANGED <<mine, ring, rows, trail, edit, acked, commands, base, auditor>>
  BY DEF Begin, Delete, Insert, SqlBegin, SqlWriteRows, writerFrame, dbVars
<1>3. Disk'
  BY <1>2 DEF Disk, Durable, OneEach
<1>4. Carries(ring, acked)' /\ Carries(ring, edit[w])'
  BY <1>1, <1>2 DEF Carries
<1>5. ring \in Seq(Entry) /\ OneEach(ring)
  BY DEF Types, TypeOK, Disk
<1>6. CASE Begin(w)
  <2>1. ~open /\ SqlBegin /\ Goto(w, "delete")
    BY <1>6 DEF Begin, Turn
  <2>2. Alone(w)' /\ pc'[w] = "delete"
    BY <1>2, <2>1, AloneStays DEF Goto
  <2> QED
    BY <1>1, <1>2, <1>3, <1>4, <2>1, <2>2 DEF Turn, Writing, SqlBegin
<1>7. CASE Delete(w)
  <2>1. open /\ txTrail = trail /\ Goto(w, "insert") /\ SqlWriteRows({})
    BY <1>7 DEF Delete, Turn
  <2>2. Alone(w)' /\ pc'[w] = "insert"
    BY <1>2, <2>1, AloneStays DEF Goto
  <2>3. at'[w] = 1
    BY <1>7 DEF Delete, Types, TypeOK
  <2>4. txRows' = Before(ring, at[w])'
    BY <1>2, <1>5, <2>1, <2>3, BeforeNone DEF SqlWriteRows, Before
  <2> QED
    BY <1>1, <1>2, <1>3, <1>4, <2>1, <2>2, <2>4 DEF Turn, Writing, SqlWriteRows
<1>8. CASE Insert(w)
  <2>1. /\ pc[w] = "insert" /\ open /\ txTrail = trail /\ txRows = Before(ring, at[w])
        /\ Ring(w) = ring
    BY <1>1, <1>8 DEF Insert, Turn, Ring
  <2>2. at[w] \in DOMAIN ring
    BY <1>5, <1>8, <2>1, LenProperties DEF Insert, Types, TypeOK
  <2>3. at'[w] = at[w] + 1 /\ pc' = pc
    BY <1>8 DEF Insert, Types, TypeOK
  <2>4. SqlWriteRows(Replace(txRows, ring[at[w]]))
    BY <1>8, <2>1 DEF Insert, Seen
  <2>5. txRows' = Before(ring, at[w] + 1)
    BY <1>5, <2>1, <2>2, <2>4, ReplaceBefore DEF SqlWriteRows
  <2>6. txRows' = Before(ring, at[w])'
    BY <1>2, <2>3, <2>5 DEF Before
  <2>7. Alone(w)'
    BY <1>2, <2>3 DEF Alone
  <2> QED
    BY <1>1, <1>2, <1>3, <1>4, <2>1, <2>3, <2>4, <2>6, <2>7 DEF Turn, Writing, SqlWriteRows
<1> QED
  BY <1>6, <1>7, <1>8

LEMMA SerialDone ==
    ASSUME Types, Disk, NEW w \in Writers, Alone(w), Turn(w),
           Read(w) \/ Commit(w)
    PROVE  Disk' /\ Rest'
<1>1. ASSUME Return(w), auditor' = auditor, mine' = [mine EXCEPT ![w] = NoRing]
      PROVE  /\ auditor' = "idle"
             /\ \A v \in Writers : pc'[v] = "idle" /\ mine'[v] = NoRing
  BY <1>1 DEF Alone, Return, Types, TypeOK
<1>2. CASE Read(w)
  <2>1. pc[w] = "mutate" /\ ~open /\ rows = Entries(ring) /\ mine[w] = NoRing
    BY <1>2 DEF Read, Turn, Writing
  <2>2. /\ UNCHANGED <<ring, rows, trail, open, acked, commands>>
        /\ Return(w) /\ auditor' = auditor /\ mine' = mine
    BY <1>2 DEF Read, scopeVars, dbVars
  <2>3. mine' = [mine EXCEPT ![w] = NoRing]
    BY <2>1, <2>2 DEF Types, TypeOK
  <2>4. Disk' /\ Entries(ring)' = rows'
    BY <2>1, <2>2 DEF Disk, Durable, OneEach, Entries
  <2> QED
    BY <1>1, <2>1, <2>2, <2>3, <2>4 DEF Rest
<1>3. CASE Commit(w)
  <2>1. /\ pc[w] = "insert" /\ open /\ txTrail = trail /\ txRows = Before(ring, at[w])
        /\ Ring(w) = ring /\ Carries(ring, acked) /\ Carries(ring, edit[w])
    BY <1>3 DEF Commit, Turn, Ring, Writing
  <2>2. /\ SqlCommit /\ Return(w) /\ mine' = [mine EXCEPT ![w] = NoRing]
        /\ acked' = [added |-> acked.added \cup edit[w].added,
                     revoked |-> acked.revoked \cup edit[w].revoked]
    BY <1>3, <2>1 DEF Commit
  <2>3. UNCHANGED <<ring, auditor, commands>>
    BY <1>3 DEF Commit, writerFrame
  <2>4. ring \in Seq(Entry) /\ OneEach(ring) /\ at[w] \in Nat /\ at[w] > Len(ring)
    BY <1>3, <2>1 DEF Commit, Types, TypeOK, Disk
  <2>5. rows' = Entries(ring) /\ trail' = trail /\ ~open'
    BY <2>1, <2>2, <2>4, BeforeAll DEF SqlCommit, Closed
  <2>6. rows' = Entries(ring)'
    BY <2>3, <2>5 DEF Entries
  <2>7. Durable(acked)'
    <3>1. Carries(ring, acked')
      BY <2>1, <2>2 DEF Carries
    <3> QED
      BY <2>5, <3>1 DEF Carries, Durable, Entries
  <2>8. \A r, s \in rows' : r.pem = s.pem => r = s
    BY <2>4, <2>5 DEF Entries, OneEach
  <2>9. Disk'
    BY <2>3, <2>5, <2>7, <2>8 DEF Disk, OneEach
  <2> QED
    BY <1>1, <2>2, <2>3, <2>5, <2>6, <2>9 DEF Rest
<1> QED
  BY <1>2, <1>3

LEMMA SerialAudit ==
    ASSUME Types, Serial, AuditInsert \/ AuditCommit, ~overlap'
    PROVE  Serial'
<1>1. CASE AuditInsert
  <2>1. Idle /\ Rest
    BY <1>1 DEF AuditInsert, Idle, Serial
  <2>2. ~open /\ SqlWriteTrail /\ auditor' = "commit"
    BY <1>1, <2>1 DEF AuditInsert, Rest
  <2>3. UNCHANGED <<mine, ring, rows, trail, pc, acked, commands>>
    BY <1>1, <2>2 DEF AuditInsert, SqlWriteTrail, scopeVars
  <2>4. Disk' /\ Entries(ring)' = rows'
    BY <2>1, <2>3 DEF Serial, Disk, Durable, OneEach, Entries, Rest
  <2>5. Rest'
    BY <2>1, <2>2, <2>3, <2>4 DEF Rest, SqlWriteTrail, Seen
  <2> QED
    BY <2>4, <2>5 DEF Serial
<1>2. CASE AuditCommit
  <2>1. Rest /\ open /\ txRows = rows /\ txTrail = trail + 1
    BY <1>2 DEF AuditCommit, Serial, Alone, Rest
  <2>2. SqlCommit /\ auditor' = "idle" /\ commands' = commands + 1
    BY <1>2, <2>1 DEF AuditCommit
  <2>3. UNCHANGED <<mine, ring, pc, acked>>
    BY <1>2 DEF AuditCommit, scopeVars
  <2>4. rows' = rows /\ trail' = trail + 1 /\ ~open'
    BY <2>1, <2>2 DEF SqlCommit, Closed
  <2>5. Disk' /\ Entries(ring)' = rows'
    BY <2>1, <2>2, <2>3, <2>4 DEF Serial, Disk, Durable, OneEach, Entries, Rest
  <2>6. Rest'
    BY <2>1, <2>2, <2>3, <2>4, <2>5 DEF Rest
  <2> QED
    BY <2>5, <2>6 DEF Serial
<1> QED
  BY <1>1, <1>2

(* The next process starts from the committed rows. *)
LEMMA SerialRestart ==
    ASSUME Types, Serial, Restart
    PROVE  Serial'
<1>1. ring' \in Reloaded(rows, Cardinality(rows)) /\ Cardinality(rows) \in Nat
  BY FS_CardinalityType DEF Restart, Types
<1>2. OneEach(ring') /\ Entries(ring') = rows
  BY <1>1, ReloadedSerial DEF Serial, Disk
<1>3. /\ UNCHANGED <<mine, rows, trail, acked, commands>>
      /\ ~open' /\ auditor' = "idle" /\ pc' = [w \in Writers |-> "idle"]
  BY DEF Restart, Closed, scopeVars
<1>4. \A w \in Writers : mine[w] = NoRing
  <2>1. \A w \in Writers : pc[w] # "assign"
    BY DEF Restart, Types
  <2> QED
    BY <2>1 DEF Serial, Rest, Alone, Turn
<1>5. Disk'
  BY <1>2, <1>3 DEF Serial, Disk, Durable, OneEach
<1>6. Rest'
  BY <1>2, <1>3, <1>4 DEF Rest, Entries
<1> QED
  BY <1>5, <1>6 DEF Serial

LEMMA StoreStep == StoreInv /\ [Next]_vars => StoreInv'
<1> SUFFICES ASSUME StoreInv, [Next]_vars PROVE StoreInv'
  OBVIOUS
<1>1. Types /\ Types'
  BY TypesStep DEF StoreInv
<1>2. ASSUME ~overlap' PROVE Serial'
  <2>1. Serial
    <3>1. overlap => overlap'
      BY DEF Next, Statement, Open, Load, Hydrate, Mutate, Read, Begin, Delete, Insert,
             Commit, Rollback, AuditInsert, AuditCommit, Restart, writerFrame, vars
    <3> QED
      BY <1>2, <3>1 DEF StoreInv
  <2>2. ASSUME NEW w \in Writers, Statement(w) PROVE Serial'
    <3>1. pc[w] # "idle"
      BY <2>2 DEF Statement, Load, Hydrate, Mutate, Read, Begin, Delete, Insert,
                  Commit, Rollback
    <3>2. Disk /\ Alone(w) /\ Turn(w)
      BY <2>1, <3>1, SerialTurn
    <3>3. ~Rollback(w)
      BY <3>2 DEF Rollback, Turn
    <3> QED
      BY <1>1, <2>2, <3>2, <3>3, SerialFetch, SerialWrite, SerialDone DEF Statement, Serial
  <2>3. CASE UNCHANGED vars
    <3>1. UNCHANGED <<mine, ring, rows, trail, open, txRows, txTrail, pc, at, edit,
                      auditor, acked, commands, base>>
      BY <2>3 DEF vars, scopeVars, dbVars
    <3>2. Disk'
      BY <2>1, <3>1 DEF Serial, Disk, Durable, OneEach
    <3>3. Rest => Rest'
      BY <3>1 DEF Rest, Entries
    <3>4. ASSUME NEW w \in Writers, pc[w] # "idle", Alone(w), Turn(w)
          PROVE  pc'[w] # "idle" /\ Alone(w)' /\ Turn(w)'
      BY <3>1, <3>4 DEF Alone, Turn, Entries, OneEach, Carries, Before
    <3> QED
      BY <2>1, <3>2, <3>3, <3>4 DEF Serial
  <2> QED
    BY <1>1, <1>2, <2>1, <2>2, <2>3, SerialStart, SerialAudit, SerialRestart DEF Next
<1> QED
  BY <1>1, <1>2 DEF StoreInv

(* DurableOperatorKeyStore.persist_ring writes through, whatever the       *)
(* number of keys, edits, audits and restarts: as long as the calls do not *)
(* overlap on the shared connection, an edit that was answered 200 is on   *)
(* disk at every moment a crash may come, the ring in memory and the table *)
(* agree when nobody is running, and a running call leaves the table as it *)
(* was until its COMMIT.                                                   *)
THEOREM StoreWritesThrough == Spec => []SerialWriteThrough
<1>1. Init => StoreInv
  <2> SUFFICES ASSUME Init PROVE StoreInv
    OBVIOUS
  <2>1. Types
    BY TypesInit
  <2>2. ring = <<>> /\ rows = {} /\ trail = commands /\ acked = NoEdit
    BY DEF Init
  <2>3. DOMAIN ring = {}
    BY <2>2
  <2>4. Disk
    BY <2>2, <2>3 DEF Disk, Durable, OneEach, NoEdit
  <2>5. Rest
    BY <2>2, <2>3 DEF Init, Rest, Entries
  <2> QED
    BY <2>1, <2>4, <2>5 DEF StoreInv, Serial
<1>2. StoreInv /\ [Next]_vars => StoreInv'
  BY StoreStep
<1>3. StoreInv => SerialWriteThrough
  BY SerialSuffices
<1> QED
  BY <1>1, <1>2, <1>3, PTL DEF Spec
=============================================================================
