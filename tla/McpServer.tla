------------------------------ MODULE McpServer ------------------------------
(***************************************************************************)
(* The local MCP server (mcp_local/server.py): run_stdio reads JSON-RPC    *)
(* requests from a pipe, one a line, and answers each before it reads the  *)
(* next; read is gated by a signed scope, read_write by a signed operator  *)
(* command.  The client that writes to the pipe and the thread that sets   *)
(* the shutdown event run beside it.                                       *)
(*                                                                         *)
(* A line is a record; its field frame says what json.loads makes of it.   *)
(* What a plan asks is the business of QueryExecutor: here a plan has a    *)
(* set of operators, holds of an entity or does not, and may fail.         *)
(***************************************************************************)
EXTENDS KnowledgeGraph, OperatorKeys

CONSTANTS
    KindsOf(_),     \* the operators of a plan
    Holds(_, _, _), \* _eval: a plan holds of an entity of a graph
    Fails(_),       \* the evaluation of a plan raises
    Artifacts,      \* SKC artifacts the server may be started with
    Lines,          \* what a client may write
    OpKey,          \* the operation authority's key
    Operators,      \* operator_allowlist_pems
    GraphName,      \* the server's graph_name
    Mirrored,       \* RATHNONE_NEO4J_URI names a local database
    MaxLines, MaxClock    \* bounds

Frame == {"garbage", "blank", "null", "array", "notification", "request"}

ASSUME McpAssumption ==
    /\ Mirrored \in BOOLEAN /\ MaxLines \in Nat /\ MaxClock \in Nat
    /\ OpKey # NoKey

(* What from_dict makes of the scope of a read and of the command of a     *)
(* write has a nonce and times; one that it refuses is None.               *)
ASSUME LineAssumption ==
    \A l \in Lines :
        /\ l.frame \in Frame
        /\ l.tool = "read" /\ l.scope # None =>
              l.scope.nonce \in Nat /\ {l.scope.not_before, l.scope.not_after} \subseteq Int
        /\ l.tool = "read_write" /\ l.cmd # None =>
              l.cmd.nonce \in Nat /\ l.cmd.stamp \in Int

(* An artifact is a finite file, and the domain of a document a list of    *)
(* labels.                                                                 *)
ASSUME ArtifactAssumption ==
    \A art \in Artifacts :
        /\ IsFiniteSet(DOMAIN art.nodes) /\ IsFiniteSet(art.edges)
        /\ IsFiniteSet(DOMAIN art.documents) /\ IsFiniteSet(DOMAIN art.claims)
        /\ \A d \in DOMAIN art.documents : art.documents[d].domain \in Seq(STRING)

VARIABLES
    graph,          \* server.graph
    provisioned,    \* op_allowlist_pems is not empty; then it is {OpKey}
    usedScope,      \* _used_scope_nonces
    usedCmd,        \* _used_cmd_nonces
    wire,           \* the lines the client has written, in order
    fetched,        \* how many of them stdin has read from the pipe
    taken,          \* how many of those readline has returned
    closed,         \* the client has closed its end
    pc,             \* "loop", or how run_stdio ended
    out,            \* answers written, with what they were decided on (history)
    neo4j,          \* hashes in the local database
    clock           \* the last time read

serverVars == <<usedScope, usedCmd, out, neo4j>>
streamVars == <<wire, fetched, taken, closed>>
vars == <<graph, provisioned, serverVars, streamVars, pc, clock>>

Ended == {"eof", "blank", "shutdown", "crashed"}

Init ==
    /\ \E art \in Artifacts : graph = GraphFromSkcArtifact(art)
    /\ provisioned \in BOOLEAN
    /\ usedScope = {} /\ usedCmd = {} /\ out = <<>> /\ neo4j = {}
    /\ wire = <<>> /\ fetched = 0 /\ taken = 0 /\ closed = FALSE
    /\ pc = "loop" /\ clock = 0

-----------------------------------------------------------------------------
(* The tools.  An outcome is a code, the record served (None otherwise),   *)
(* and whether a scope or a command was accepted on the way, and with it   *)
(* its nonce spent.                                                        *)

Outcome(code, result, spent) == [code |-> code, result |-> result, spent |-> spent]
Refused(spent) == Outcome("-32000", None, spent)

(* verify_scope *)
VerifyScope(s, now) ==
    /\ s.graph_name = GraphName
    /\ s.nonce \notin usedScope
    /\ s.not_before <= now /\ now <= s.not_after
    /\ s.signer = OpKey

(* QueryExecutor.execute: the ids of the EvidenceRecord, which are also    *)
(* what deterministic_hash is taken of.                                    *)
Execute(g, op) ==
    LET in == {n \in DOMAIN g.ents : Holds(g, op, n)}
    IN  [included |-> in, excluded |-> DOMAIN g.ents \ in]

(* enforce_constraints *)
EnforceConstraints(op, s, rec) ==
    /\ s.capabilities # {} => KindsOf(op) \subseteq s.capabilities
    /\ s.max_results # None =>
          Cardinality(rec.included) + Cardinality(rec.excluded) <= s.max_results

(* Mutant of ToolRead: a refused size is answered before the nonce is      *)
(* spent.                                                                  *)
ToolReadSpendsLate(l) ==
    LET rec == Execute(graph, l.op)
    IN  IF l.op = None THEN Refused(FALSE)
        ELSE IF provisioned /\ (l.scope = None \/ ~VerifyScope(l.scope, clock'))
             THEN Refused(FALSE)
        ELSE IF graph.ents # <<>> /\ Fails(l.op) THEN Outcome("-32603", None, provisioned)
        ELSE IF provisioned /\ ~EnforceConstraints(l.op, l.scope, rec) THEN Refused(FALSE)
        ELSE Outcome("result", rec, provisioned)

(* _tool_read.  A plan or a scope that does not parse is None, as one that *)
(* is not there: both are refused alike.  The body hash of the scope is    *)
(* not looked at.                                                          *)
ToolRead(l) ==
    LET rec == Execute(graph, l.op)
    IN  IF l.op = None THEN Refused(FALSE)
        ELSE IF provisioned /\ (l.scope = None \/ ~VerifyScope(l.scope, clock'))
             THEN Refused(FALSE)
        ELSE IF graph.ents # <<>> /\ Fails(l.op) THEN Outcome("-32603", None, provisioned)
        ELSE IF provisioned /\ ~EnforceConstraints(l.op, l.scope, rec)
             THEN Refused(TRUE)
        ELSE Outcome("result", rec, provisioned)

(* Mutant of ToolReadWrite: the verb is not looked at. *)
ToolReadWriteAnyVerb(l) ==
    IF /\ l.cmd # None
       /\ VerifyCommand(l.cmd, l.change, Operators, usedCmd, clock', "harness")
    THEN Outcome("result", None, TRUE)
    ELSE Refused(FALSE)

(* _tool_read_write: the command is verified, then its verb is looked at,  *)
(* then its nonce is spent.                                                *)
ToolReadWrite(l) ==
    IF /\ l.cmd # None
       /\ VerifyCommand(l.cmd, l.change, Operators, usedCmd, clock', "harness")
       /\ l.cmd.verb = "harness_apply"
    THEN Outcome("result", None, TRUE)
    ELSE Refused(FALSE)

(* handle.  Arguments or parameters of another shape than the tool expects *)
(* are an internal error.                                                  *)
Handle(l) ==
    CASE l.method \in {"initialize", "tools/list"} -> Outcome("result", None, FALSE)
      [] l.method = "tools/call" /\ l.tool = "misshapen" -> Outcome("-32603", None, FALSE)
      [] l.method = "tools/call" /\ l.tool = "get_schema" ->
            Outcome("result", Schema(graph), FALSE)
      [] l.method = "tools/call" /\ l.tool = "read" -> ToolRead(l)
      [] l.method = "tools/call" /\ l.tool = "read_write" -> ToolReadWrite(l)
      [] OTHER -> Outcome("-32601", None, FALSE)

IsCall(l, tool) == l.frame = "request" /\ l.method = "tools/call" /\ l.tool = tool

(* _mirror_to_local_neo4j, the last thing a read does; the database may be *)
(* down.                                                                   *)
Mirror(l, r) ==
    IF Mirrored /\ IsCall(l, "read") /\ r.code = "result"
    THEN \E up \in BOOLEAN : neo4j' = IF up THEN neo4j \cup {r.result} ELSE neo4j
    ELSE neo4j' = neo4j

Answer(id) ==
    LET l == wire[id]
        r == Handle(l)
    IN  /\ out' = Append(out, [id |-> id, code |-> r.code, at |-> clock',
                               result |-> r.result])
        /\ usedScope' = usedScope \cup
              IF IsCall(l, "read") /\ r.spent THEN {l.scope.nonce} ELSE {}
        /\ usedCmd' = usedCmd \cup
              IF IsCall(l, "read_write") /\ r.spent THEN {l.cmd.nonce} ELSE {}
        /\ Mirror(l, r)

-----------------------------------------------------------------------------
(* run_stdio *)

(* The event is set when the loop comes back to its top. *)
Shutdown ==
    /\ pc = "loop" /\ pc' = "shutdown"
    /\ UNCHANGED <<graph, provisioned, serverVars, streamVars, clock>>

(* select looks at the pipe, not at the lines stdin has already read.  As  *)
(* long as it is not ready, the loop goes round every 0.2 s.               *)
Ready == fetched < Len(wire) \/ closed

(* A line that does not parse is dropped.  An empty line, and null, end    *)
(* the loop as the end of the file does; a value without get is an         *)
(* AttributeError that nobody catches.                                     *)
Dispatch(id) ==
    LET frame == wire[id].frame
    IN  /\ pc' = CASE frame \in {"blank", "null"} -> "blank"
                   [] frame = "array" -> "crashed"
                   [] OTHER -> "loop"
        /\ IF frame = "request" THEN Answer(id) ELSE UNCHANGED serverVars

(* Mutant of TakenAfter: what was read behind the line is dropped. *)
TakenAfterChunk(n) == n

(* readline returns one line of the n that stdin has read. *)
TakenAfter(n) == taken + 1

(* readline, and what becomes of the line; a chunk of the pipe is read     *)
(* when stdin holds no line.                                               *)
Serve ==
    /\ pc = "loop" /\ Ready /\ taken < Len(wire)
    /\ clock' \in clock .. MaxClock
    /\ \E n \in IF taken < fetched THEN {fetched} ELSE fetched + 1 .. Len(wire) :
          fetched' = n /\ taken' = TakenAfter(n)
    /\ Dispatch(taken + 1)
    /\ UNCHANGED <<graph, provisioned, wire, closed>>

(* Mutant of EndOfFile: it is taken for a line that does not parse. *)
EndOfFileDropped ==
    /\ pc = "loop" /\ Ready /\ taken = Len(wire)
    /\ UNCHANGED pc
    /\ UNCHANGED <<graph, provisioned, serverVars, streamVars, clock>>

EndOfFile ==
    /\ pc = "loop" /\ Ready /\ taken = Len(wire)
    /\ pc' = "eof"
    /\ UNCHANGED <<graph, provisioned, serverVars, streamVars, clock>>

Loop == Serve \/ EndOfFile

-----------------------------------------------------------------------------
(* The client, as long as the server runs. *)

Send(l) ==
    /\ pc = "loop" /\ ~closed /\ Len(wire) < MaxLines
    /\ wire' = Append(wire, l)
    /\ UNCHANGED <<graph, provisioned, serverVars, fetched, taken, closed, pc, clock>>

Close ==
    /\ pc = "loop" /\ ~closed /\ closed' = TRUE
    /\ UNCHANGED <<graph, provisioned, serverVars, wire, fetched, taken, pc, clock>>

Next == Loop \/ Shutdown \/ (\E l \in Lines : Send(l)) \/ Close

(* The loop is a thread of its own: it is scheduled, and its select comes  *)
(* back after 0.2 s at the latest.                                         *)
Spec == Init /\ [][Next]_vars /\ WF_vars(Loop)

-----------------------------------------------------------------------------
(* Every variable has the shape the server relies on, and stdin is never   *)
(* ahead of the pipe.  Part of AnsweredInOrder.                            *)
TypeOK ==
    /\ provisioned \in BOOLEAN /\ closed \in BOOLEAN
    /\ usedScope \subseteq Nat /\ usedCmd \subseteq Nat
    /\ wire \in Seq(Lines)
    /\ taken <= fetched /\ fetched <= Len(wire)
    /\ pc \in {"loop"} \cup Ended
    /\ \A i \in DOMAIN out : out[i].code \in {"result", "-32000", "-32601", "-32603"}

(* However the lines arrive in the pipe and in whatever chunks stdin reads *)
(* them, the requests readline returned, and they alone, are answered      *)
(* once, in the order in which they were written; and when the loop ends   *)
(* at the end of the file, no line was left behind.                        *)
AnsweredInOrder ==
    /\ TypeOK
    /\ {out[i].id : i \in DOMAIN out} = {n \in 1 .. taken : wire[n].frame = "request"}
    /\ \A i, j \in DOMAIN out : i < j => out[i].id < out[j].id
    /\ pc = "eof" => taken = Len(wire)

(* Once the client closes its end the loop ends, whatever the pipe and the *)
(* buffer of stdin hold at that time; and no line stays in the pipe while  *)
(* the server runs.  What can wait for ever is a line in stdin's buffer    *)
(* behind which nothing arrives, because select does not see it.           *)
InputIsRead ==
    /\ closed ~> pc \in Ended
    /\ \A n \in 1 .. MaxLines : Len(wire) >= n ~> (fetched >= n \/ pc \in Ended)

Reads == {i \in DOMAIN out : IsCall(wire[out[i].id], "read") /\ wire[out[i].id].op # None}
Writes == {i \in DOMAIN out : IsCall(wire[out[i].id], "read_write")}

(* The scope authorises reads on this graph at that time, used or not. *)
Genuine(s, at) ==
    /\ s # None /\ s.signer = OpKey /\ s.graph_name = GraphName
    /\ at \in s.not_before .. s.not_after

(* With an authority provisioned, a read is served only under a genuine    *)
(* scope, within its capabilities and its size, and a genuine scope that   *)
(* was presented once, whatever came of it (a refusal for its limits or an *)
(* error of the evaluation too), never gets a record afterwards; and the   *)
(* local database only ever holds records that a client was given.         *)
ScopeSpentOnSight ==
    /\ neo4j \subseteq {out[i].result : i \in {j \in Reads : out[j].code = "result"}}
    /\ provisioned =>
        \A i \in Reads :
            LET l == wire[out[i].id]
            IN  out[i].code = "result" =>
                    /\ Genuine(l.scope, out[i].at)
                    /\ l.scope.capabilities # {} => KindsOf(l.op) \subseteq l.scope.capabilities
                    /\ l.scope.max_results # None =>
                          Cardinality(DOMAIN graph.ents) <= l.scope.max_results
                    /\ \A j \in Reads :
                          j < i /\ Genuine(wire[out[j].id].scope, out[j].at) =>
                              wire[out[j].id].scope.nonce # l.scope.nonce

(* A write is applied exactly when its command is the first with its nonce *)
(* to authorise it: signed by an operator for harness_apply on this very   *)
(* change, in time.  A command for another verb does not use up the nonce. *)
WritesAreCommanded ==
    \A i \in Writes :
        LET l == wire[out[i].id]
        IN  out[i].code = "result" <=>
                /\ l.cmd # None /\ l.cmd.signer \in Operators
                /\ l.cmd.verb = "harness_apply" /\ l.cmd.scope = "harness"
                /\ l.cmd.body = l.change
                /\ out[i].at - l.cmd.stamp \in -MaxAge .. MaxAge
                /\ \A j \in Writes : j < i /\ out[j].code = "result" =>
                        wire[out[j].id].cmd.nonce # l.cmd.nonce

(* The last answer, when it is a record. *)
LastRecord == IF out = <<>> THEN {} ELSE {i \in Reads : i = Len(out) /\ out[i].code = "result"}

Subdomain(d) == IF Len(d) < 2 \/ d \in MultiLabelTlds THEN d ELSE <<"www">> \o d
Moved(g, n, d) == [g EXCEPT !.ents[n].source = d]

(* The purification layer, on any record that is served: an entity from a  *)
(* subdomain of another one's source gets the verdict it would get from    *)
(* that source itself, so one principal's subdomains count once; and a     *)
(* record is clean exactly when it rests on two origins, or on no source,  *)
(* and does not hold both sides of a contradiction.  The further diagnoses *)
(* decide nothing.                                                         *)
SybilsCountOnce ==
    \A i \in LastRecord :
        LET ids == out[i].result.included
            Verdict(g) == PoisonViolations(g, ids, 2, 9, 1)
        IN  /\ \A n, m \in ids :
                  Verdict(Moved(graph, n, graph.ents[m].source)) =
                  Verdict(Moved(graph, n, Subdomain(graph.ents[m].source)))
            /\ Verdict(graph) = {} <=>
                  /\ WithProvenance(graph, ids) # {} => Cardinality(Origins(graph, ids)) >= 2
                  /\ ~\E a, b \in ids : b \in graph.ents[a].contradicts
=============================================================================
