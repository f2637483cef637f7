--------------------------- MODULE KnowledgeGraph ---------------------------
(***************************************************************************)
(* The in-memory knowledge graph (query/executor.py), how it is built from *)
(* an SKC artifact (query/loader.py), and the purification layer that      *)
(* judges a set of retained entities (query/purify.py), as operators on    *)
(* values.                                                                 *)
(*                                                                         *)
(* A text is the set of the terms it contains, a domain the sequence of    *)
(* its labels.  A list of the artifact whose members have an id is a       *)
(* function from ids: the last member with an id is the one that stays.    *)
(***************************************************************************)
EXTENDS Integers, Sequences, FiniteSets, TLC

(* What dict.get answers for a key that is not there. *)
CONSTANT None

Entity(type, source, text, score) ==
    [type |-> type, source |-> source, text |-> text, score |-> score, timestamp |-> 0,
     neighbor_terms |-> {}, contradicts |-> {}]

(* add, of entity after entity: what has the id of an earlier one replaces *)
(* it.                                                                     *)
Added(earlier, later) ==
    [n \in DOMAIN earlier \cup DOMAIN later |->
        IF n \in DOMAIN later THEN later[n] ELSE earlier[n]]

(* link stores both directions. *)
Link(e) == {[src |-> e.source, dst |-> e.target, kind |-> e.type],
            [src |-> e.target, dst |-> e.source, kind |-> e.type]}

(* An end of an edge that is no concept node becomes one. *)
Concepts(art) ==
    Added([n \in UNION {{e.source, e.target} : e \in art.edges} |->
              Entity("concept", <<>>, {n}, 0)],
          [n \in DOMAIN art.nodes |->
              Entity(art.nodes[n].type, <<>>, art.nodes[n].label, 0)])

Documents(art) ==
    [d \in DOMAIN art.documents |->
        Entity("document", art.documents[d].domain, art.documents[d].title,
               art.documents[d].authority)]

Claims(art) ==
    [c \in DOMAIN art.claims |->
        Entity("claim",
               IF art.claims[c].doc \in DOMAIN art.documents
               THEN art.documents[art.claims[c].doc].domain ELSE <<>>,
               art.claims[c].text, art.claims[c].confidence)]

(* A side of a contradiction is named by id, or by the text of a claim. *)
Side(ents, side) ==
    LET same == {c \in DOMAIN ents : ents[c].type = "claim" /\ ents[c].text = side.text}
    IN  IF side.id # None THEN side.id
        ELSE IF same = {} THEN None
        ELSE CHOOSE c \in same : TRUE

(* _add_contradiction, for both directions of every pair that resolves; a  *)
(* pair with an empty text is skipped, ids or not.                         *)
Opponents(ents, art, c) ==
    LET pairs == {x \in art.contradictions : x.a.text # {} /\ x.b.text # {}}
        Sides(x) == {<<Side(ents, x.a), Side(ents, x.b)>>, <<Side(ents, x.b), Side(ents, x.a)>>}
    IN  {p[2] : p \in {q \in UNION {Sides(x) : x \in pairs} : q[1] = c /\ q[2] # None}}

(* graph_from_skc_artifact: a later section replaces an entity of the same *)
(* id and leaves its edges.                                                *)
GraphFromSkcArtifact(art) ==
    LET ents == Added(Added(Concepts(art), Documents(art)), Claims(art))
    IN  [ents |-> [n \in DOMAIN ents |->
                      [ents[n] EXCEPT !.contradicts = Opponents(ents, art, n)]],
         adj  |-> UNION {Link(e) : e \in art.edges}]

(* Mutant of Neighbors: the kind of the edge is not looked at. *)
NeighborsAnyKind(g, n, kind) == {e.dst : e \in {a \in g.adj : a.src = n}}

(* KnowledgeGraph.neighbors; kind None is any kind. *)
Neighbors(g, n, kind) ==
    {e.dst : e \in {a \in g.adj : a.src = n /\ (kind = None \/ a.kind = kind)}}

(* _tool_get_schema, without the counts. *)
Schema(g) ==
    [node_types |-> {g.ents[n].type : n \in DOMAIN g.ents},
     origins    |-> {g.ents[n].source : n \in DOMAIN g.ents} \ {<<>>},
     edge_kinds |-> {e.kind : e \in g.adj}]

-----------------------------------------------------------------------------
(* query/purify.py *)

CONSTANT MultiLabelTlds    \* _MULTI_LABEL_TLDS

LastLabels(d, n) == SubSeq(d, Len(d) - n + 1, Len(d))

(* Mutant of Etld1: the host as it is. *)
Etld1Host(d) == d

(* The registrable domain. *)
Etld1(d) ==
    IF Len(d) <= 2 THEN d
    ELSE IF LastLabels(d, 2) \in MultiLabelTlds THEN LastLabels(d, 3)
    ELSE LastLabels(d, 2)

WithProvenance(g, ids) == {n \in ids : g.ents[n].type \in {"document", "claim"}}
Origins(g, ids) ==
    {Etld1(g.ents[n].source) : n \in {x \in WithProvenance(g, ids) : g.ents[x].source # <<>>}}

(* PurificationLayer.evaluate, enabled: the codes of its violations.  The  *)
(* shares are compared as tenths.                                          *)
PoisonViolations(g, ids, quorum, captureTenths, scoreFloor) ==
    LET docs == WithProvenance(g, ids)
        all == WithProvenance(g, DOMAIN g.ents)
        few == Cardinality(Origins(g, ids)) < quorum
    IN  {v \in {"insufficient_source_diversity", "internal_contradiction",
                "unearned_confidence", "total_graph_capture"} :
            CASE v = "insufficient_source_diversity" -> docs # {} /\ few
              [] v = "internal_contradiction" ->
                    \E n \in ids : g.ents[n].contradicts \cap ids # {}
              [] v = "unearned_confidence" ->
                    few /\ \E n \in docs :
                              g.ents[n].score >= scoreFloor /\ g.ents[n].source # <<>>
              [] v = "total_graph_capture" ->
                    /\ few /\ all # {}
                    /\ 10 * Cardinality(docs) >= captureTenths * Cardinality(all)}
=============================================================================
