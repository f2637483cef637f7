----------------------------- MODULE McpQueries -----------------------------
(***************************************************************************)
(* What the plans that McpServer is sent ask for: the properties of the    *)
(* records it serves, when its plans are those of QueryExecutor (KindsOf   *)
(* is Kinds, Holds is Eval, Fails is Raises).                              *)
(***************************************************************************)
EXTENDS McpServer, QueryExecutor

(* Breadth-first search with its marks and its level bound finds what the  *)
(* paths of the graph say, through any nesting of traversals and over      *)
(* cycles, edges kept from an entity that was replaced, and isolated       *)
(* entities; and a record accounts for every entity of the graph once.     *)
ServedIsReference ==
    \A i \in LastRecord :
        LET op == wire[out[i].id].op
            rec == out[i].result
        IN  /\ rec.included \cup rec.excluded = DOMAIN graph.ents
            /\ rec.included \cap rec.excluded = {}
            /\ Flat(op) /\ ~Raises(op) => rec.included = Means(graph, op)

(* A clause of a question, negated where an exclusion without a phrase     *)
(* stands before it.                                                       *)
ClauseAsked(g, cs, k, n) ==
    LET c == cs[k]
        negated == k > 1 /\ cs[k - 1].kind = "EXCLUDE" /\ cs[k - 1].phrase = None
    IN  CASE c.kind = "EXCLUDE" -> c.phrase # None => c.phrase \notin g.ents[n].text
          [] c.kind = "EXCLUDE_SRC" -> g.ents[n].source # c.phrase
          [] OTHER -> c.phrase # None => (n \in Means(g, Build(c)) <=> ~negated)

(* A compiled question retains the entities that its head and every one of *)
(* its clauses describe: no clause is lost on the way, and an exclusion    *)
(* takes the clause it stands before and no other.                         *)
CompiledAsAsked ==
    \A i \in LastRecord :
        LET q == wire[out[i].id].question
        IN  q # None =>
                out[i].result.included =
                    {n \in DOMAIN graph.ents :
                        /\ q.head # None => q.head \in graph.ents[n].text
                        /\ \A k \in DOMAIN q.connectors : ClauseAsked(graph, q.connectors, k, n)}
=============================================================================
