---------------------------- MODULE QueryExecutor ----------------------------
(***************************************************************************)
(* Query plans (query/algebra.py), the compiler that makes them from a     *)
(* question (query/compiler.py) and their evaluation over a graph          *)
(* (query/executor.py), as operators on values; and, as the reference the  *)
(* evaluation is checked against, what the operators are said to mean.     *)
(***************************************************************************)
EXTENDS KnowledgeGraph

Boolean == {"AND", "OR", "NOT"}
Traversal == {"CONNECTED_TO", "DERIVED_FROM", "SAME_AS", "PATH"}

(* Op, with the defaults of its dataclass. *)
Plan(kind) ==
    [kind |-> kind, arg |-> None, threshold |-> None, lo |-> None, hi |-> None,
     depth |-> 1, children |-> <<>>]
With(kind, arg) == [Plan(kind) EXCEPT !.arg = arg]
Over(kind, depth, child) == [Plan(kind) EXCEPT !.depth = depth, !.children = <<child>>]
Of(kind, children) == [Plan(kind) EXCEPT !.children = children]

RECURSIVE Kinds(_)
Kinds(op) == {op.kind} \cup UNION {Kinds(op.children[i]) : i \in DOMAIN op.children}

-----------------------------------------------------------------------------
(* Evaluation *)

EdgeKind(op) ==
    CASE op.kind = "DERIVED_FROM" -> "derived_from"
      [] op.kind = "SAME_AS" -> "same_as"
      [] OTHER -> None

(* The predicates of _leaf that look at the entity alone.  An operator it  *)
(* does not know, AND, OR and NOT among them, fails.                       *)
Predicate(op, e) ==
    CASE op.kind = "TYPE" -> e.type = op.arg
      [] op.kind = "SOURCE" -> e.source = op.arg
      [] op.kind = "MATCH" -> op.arg \in e.text
      [] op.kind = "NEAR" -> op.arg \in e.neighbor_terms
      [] op.kind = "SCORE" -> e.score >= IF op.threshold = None THEN 0 ELSE op.threshold
      [] op.kind = "TIME" -> /\ op.lo # None => e.timestamp >= op.lo
                             /\ op.hi # None => e.timestamp <= op.hi
      [] OTHER -> FALSE

RECURSIVE Leaf(_, _, _), Search(_, _, _, _, _, _)

(* The loop of _bfs and of _shortest over range(depth), a level at a time: *)
(* which entity of a level is met first makes no difference.               *)
Search(g, inner, kind, seen, frontier, hops) ==
    LET next == UNION {Neighbors(g, n, kind) : n \in frontier} \ seen
    IN  /\ hops > 0
        /\ \/ \E n \in next : Leaf(g, inner, n)
           \/ Search(g, inner, kind, seen \cup next, next, hops - 1)

(* _leaf: the start counts as reached. *)
Leaf(g, op, n) ==
    IF op.kind \in Traversal
    THEN \/ Leaf(g, op.children[1], n)
         \/ Search(g, op.children[1], EdgeKind(op), {n}, {n}, op.depth)
    ELSE Predicate(op, g.ents[n])

RECURSIVE Eval(_, _, _)
Eval(g, op, n) ==
    CASE op.kind = "AND" -> \A i \in DOMAIN op.children : Eval(g, op.children[i], n)
      [] op.kind = "OR" -> \E i \in DOMAIN op.children : Eval(g, op.children[i], n)
      [] op.kind = "NOT" -> ~Eval(g, op.children[1], n)
      [] OTHER -> Leaf(g, op, n)

(* children[0] of an operator without children: an IndexError.  AND and OR *)
(* evaluate all their children; under a traversal only _leaf is called.    *)
RECURSIVE LeafRaises(_), Raises(_)
LeafRaises(op) ==
    op.kind \in Traversal /\ (op.children = <<>> \/ LeafRaises(op.children[1]))
Raises(op) ==
    CASE op.kind \in {"AND", "OR"} -> \E i \in DOMAIN op.children : Raises(op.children[i])
      [] op.kind = "NOT" -> op.children = <<>> \/ Raises(op.children[1])
      [] OTHER -> LeafRaises(op)

-----------------------------------------------------------------------------
(* The compiler: a question is its head, the text before the first         *)
(* connector, and its connectors, [kind, phrase], in order.  A phrase that *)
(* is empty after _clean, or has no number where one is needed, is None.   *)

(* _build *)
Build(c) ==
    IF c.phrase = None THEN None
    ELSE CASE c.kind = "FROM_SRC" -> With("SOURCE", c.phrase)
           [] c.kind = "CONNECTED" -> Over("CONNECTED_TO", 2, With("MATCH", c.phrase))
           [] c.kind = "DERIVED" -> Over("DERIVED_FROM", 1, With("MATCH", c.phrase))
           [] c.kind = "SAMEAS" -> Over("SAME_AS", 1, With("MATCH", c.phrase))
           [] c.kind = "NEAR" -> With("NEAR", c.phrase)
           [] c.kind = "SCORE" -> [Plan("SCORE") EXCEPT !.threshold = c.phrase]
           [] c.kind = "AFTER" -> [Plan("TIME") EXCEPT !.lo = c.phrase]
           [] c.kind = "BEFORE" -> [Plan("TIME") EXCEPT !.hi = c.phrase]
           [] c.kind = "TYPE" -> With("TYPE", c.phrase)
           [] c.kind \in {"ABOUT", "DISCUSS"} -> With("MATCH", c.phrase)
           [] OTHER -> None

(* An exclusion without a phrase of its own takes the next connector. *)
TakesNext(cs, i) ==
    /\ cs[i].kind = "EXCLUDE" /\ cs[i].phrase = None
    /\ i < Len(cs) /\ Build(cs[i + 1]) # None

(* Mutant of Clause: the object of an exclusion is dropped with it. *)
ClauseDropped(cs, i) ==
    CASE cs[i].kind = "EXCLUDE_SRC" -> Of("NOT", <<With("SOURCE", cs[i].phrase)>>)
      [] cs[i].kind = "EXCLUDE" /\ cs[i].phrase # None ->
            Of("NOT", <<With("MATCH", cs[i].phrase)>>)
      [] cs[i].kind = "EXCLUDE" -> None
      [] OTHER -> Build(cs[i])

(* _parse_negation and _parse_positive *)
Clause(cs, i) ==
    CASE cs[i].kind = "EXCLUDE_SRC" -> Of("NOT", <<With("SOURCE", cs[i].phrase)>>)
      [] cs[i].kind = "EXCLUDE" /\ cs[i].phrase # None ->
            Of("NOT", <<With("MATCH", cs[i].phrase)>>)
      [] cs[i].kind = "EXCLUDE" /\ TakesNext(cs, i) -> Of("NOT", <<Build(cs[i + 1])>>)
      [] cs[i].kind = "EXCLUDE" -> None
      [] OTHER -> Build(cs[i])

RECURSIVE Clauses(_, _)
Clauses(cs, i) ==
    IF i > Len(cs) THEN <<>>
    ELSE (IF Clause(cs, i) = None THEN <<>> ELSE <<Clause(cs, i)>>)
         \o Clauses(cs, i + IF TakesNext(cs, i) THEN 2 ELSE 1)

(* QueryCompiler.compile; None is the CompileError. *)
Compile(q) ==
    LET clauses == (IF q.head = None THEN <<>> ELSE <<With("MATCH", q.head)>>)
                   \o Clauses(q.connectors, 1)
    IN  CASE clauses = <<>> -> None
          [] Len(clauses) = 1 -> clauses[1]
          [] OTHER -> Of("AND", clauses)

-----------------------------------------------------------------------------
(* What the operators are said to mean (algebra.py:10-19), by paths: a     *)
(* traversal holds of an entity from which a path of at most depth edges   *)
(* of the kind leads to an entity that satisfies the inner operator.       *)

Paths(g, kind, hops) ==
    {p \in UNION {[1 .. k -> DOMAIN g.ents] : k \in 1 .. hops + 1} :
        \A i \in 1 .. Len(p) - 1 :
            \E a \in g.adj : a.src = p[i] /\ a.dst = p[i + 1] /\ kind \in {None, a.kind}}

RECURSIVE Means(_, _)
Means(g, op) ==
    LET inner(i) == Means(g, op.children[i])
    IN  CASE op.kind = "AND" -> {n \in DOMAIN g.ents : \A i \in DOMAIN op.children : n \in inner(i)}
          [] op.kind = "OR" -> UNION {inner(i) : i \in DOMAIN op.children}
          [] op.kind = "NOT" -> DOMAIN g.ents \ inner(1)
          [] op.kind \in Traversal ->
                {p[1] : p \in {q \in Paths(g, EdgeKind(op), op.depth) : q[Len(q)] \in inner(1)}}
          [] OTHER -> {n \in DOMAIN g.ents : Predicate(op, g.ents[n])}

(* A Boolean operator under a traversal is handed to _leaf, which does not *)
(* know it.                                                                *)
RECURSIVE Flat(_)
Flat(op) ==
    \A i \in DOMAIN op.children :
        /\ op.kind \in Traversal => op.children[i].kind \notin Boolean
        /\ Flat(op.children[i])
=============================================================================
