----------------------------- MODULE McpProofs -----------------------------
(***************************************************************************)
(* McpServer for any artifacts, any lines, any chunks of the pipe and any  *)
(* meaning of the plans: answers, scopes, commands and verdicts.           *)
(***************************************************************************)
EXTENDS McpServer, FiniteSetTheorems, SequenceTheorems, TLAPS

Codes == {"result", "-32000", "-32601", "-32603"}

Served(g) == {None, Schema(g)} \cup {Execute(g, l.op) : l \in Lines}

Answered(g) == [id: Nat, code: Codes, at: Nat, result: Served(g)]

(* The inductive invariant of the stream: AnsweredInOrder and the types    *)
(* behind it.                                                              *)
StreamInv ==
    /\ AnsweredInOrder
    /\ taken \in Nat /\ fetched \in Nat /\ clock \in Nat
    /\ out \in Seq(Answered(graph))

Line(i) == wire[out[i].id]

-----------------------------------------------------------------------------
(* What handle answers. *)

LEMMA OutcomeFields ==
    ASSUME NEW code, NEW result, NEW spent
    PROVE  /\ Outcome(code, result, spent).code = code
           /\ Outcome(code, result, spent).result = result
           /\ Outcome(code, result, spent).spent = spent
BY DEF Outcome

LEMMA ReadIsHandled ==
    ASSUME NEW l, IsCall(l, "read") PROVE Handle(l) = ToolRead(l)
BY DEF Handle, IsCall

LEMMA WriteIsHandled ==
    ASSUME NEW l, IsCall(l, "read_write") PROVE Handle(l) = ToolReadWrite(l)
BY DEF Handle, IsCall

(* A record is served only behind every check of _tool_read; a scope that  *)
(* passes verify_scope is spent, whatever comes after.                     *)
LEMMA ReadFacts ==
    ASSUME NEW l, IsCall(l, "read"), provisioned \in BOOLEAN
    PROVE  /\ Handle(l).code = "result" =>
                 /\ l.op # None /\ Handle(l).result = Execute(graph, l.op)
                 /\ provisioned => /\ l.scope # None /\ VerifyScope(l.scope, clock')
                                   /\ EnforceConstraints(l.op, l.scope, Execute(graph, l.op))
           /\ provisioned /\ l.op # None /\ l.scope # None /\ VerifyScope(l.scope, clock')
                 => Handle(l).spent
           /\ Handle(l).spent => l.scope # None
           /\ Handle(l).code \in {"result", "-32000", "-32603"}
           /\ Handle(l).result \in {None, Execute(graph, l.op)}
<1>1. Handle(l) = ToolRead(l)
  BY ReadIsHandled
<1>2. /\ Refused(FALSE).code = "-32000" /\ Refused(FALSE).result = None /\ ~Refused(FALSE).spent
      /\ Refused(TRUE).code = "-32000" /\ Refused(TRUE).result = None /\ Refused(TRUE).spent
  BY DEF Refused, Outcome
<1>3. CASE l.op = None
  BY <1>1, <1>2, <1>3 DEF ToolRead
<1>4. CASE l.op # None /\ provisioned /\ (l.scope = None \/ ~VerifyScope(l.scope, clock'))
  BY <1>1, <1>2, <1>4 DEF ToolRead
<1>5. CASE /\ l.op # None /\ ~(provisioned /\ (l.scope = None \/ ~VerifyScope(l.scope, clock')))
           /\ graph.ents # <<>> /\ Fails(l.op)
  <2>1. Handle(l) = Outcome("-32603", None, provisioned)
    BY <1>1, <1>5 DEF ToolRead
  <2> QED
    BY <1>5, <2>1, OutcomeFields
<1>6. CASE /\ l.op # None /\ ~(provisioned /\ (l.scope = None \/ ~VerifyScope(l.scope, clock')))
           /\ ~(graph.ents # <<>> /\ Fails(l.op))
           /\ provisioned /\ ~EnforceConstraints(l.op, l.scope, Execute(graph, l.op))
  <2>1. Handle(l) = Refused(TRUE)
    BY <1>1, <1>6 DEF ToolRead
  <2> QED
    BY <1>2, <1>6, <2>1
<1>7. CASE /\ l.op # None /\ ~(provisioned /\ (l.scope = None \/ ~VerifyScope(l.scope, clock')))
           /\ ~(graph.ents # <<>> /\ Fails(l.op))
           /\ ~(provisioned /\ ~EnforceConstraints(l.op, l.scope, Execute(graph, l.op)))
  <2>1. Handle(l) = Outcome("result", Execute(graph, l.op), provisioned)
    BY <1>1, <1>7 DEF ToolRead
  <2> QED
    BY <1>7, <2>1, OutcomeFields
<1> QED
  BY <1>3, <1>4, <1>5, <1>6, <1>7

(* A write is applied exactly when its command is accepted, and that is    *)
(* when the nonce is spent.                                                *)
LEMMA WriteFacts ==
    ASSUME NEW l, IsCall(l, "read_write")
    PROVE  /\ Handle(l).code = "result" <=>
                 /\ l.cmd # None
                 /\ VerifyCommand(l.cmd, l.change, Operators, usedCmd, clock', "harness")
                 /\ l.cmd.verb = "harness_apply"
           /\ Handle(l).spent <=> Handle(l).code = "result"
           /\ Handle(l).code \in {"result", "-32000"} /\ Handle(l).result = None
<1>1. Handle(l) = ToolReadWrite(l)
  BY WriteIsHandled
<1> DEFINE accepted == /\ l.cmd # None
                       /\ VerifyCommand(l.cmd, l.change, Operators, usedCmd, clock', "harness")
                       /\ l.cmd.verb = "harness_apply"
<1>2. CASE accepted
  <2>1. Handle(l) = Outcome("result", None, TRUE)
    BY <1>1, <1>2 DEF ToolReadWrite
  <2>2. Handle(l).code = "result" /\ Handle(l).result = None /\ Handle(l).spent
    BY <2>1 DEF Outcome
  <2> HIDE DEF accepted
  <2> QED
    BY <1>2, <2>2 DEF accepted
<1>3. CASE ~accepted
  <2>1. Handle(l) = Outcome("-32000", None, FALSE)
    BY <1>1, <1>3 DEF ToolReadWrite, Refused
  <2>2. Handle(l).code = "-32000" /\ Handle(l).result = None /\ ~Handle(l).spent
    BY <2>1 DEF Outcome
  <2> HIDE DEF accepted
  <2> QED
    BY <1>3, <2>2 DEF accepted
<1> QED
  BY <1>2, <1>3

LEMMA HandleType ==
    ASSUME NEW l \in Lines, l.frame = "request", provisioned \in BOOLEAN
    PROVE  Handle(l).code \in Codes /\ Handle(l).result \in Served(graph)
<1>1. CASE IsCall(l, "read")
  BY <1>1, ReadFacts DEF Codes, Served
<1>2. CASE IsCall(l, "read_write")
  BY <1>2, WriteFacts DEF Codes, Served
<1>3. CASE ~IsCall(l, "read") /\ ~IsCall(l, "read_write")
  <2>1. \/ Handle(l) = Outcome("result", None, FALSE)
        \/ Handle(l) = Outcome("-32603", None, FALSE)
        \/ Handle(l) = Outcome("result", Schema(graph), FALSE)
        \/ Handle(l) = Outcome("-32601", None, FALSE)
    BY <1>3 DEF Handle, IsCall
  <2>2. Handle(l).code \in Codes /\ Handle(l).result \in {None, Schema(graph)}
    BY <2>1 DEF Outcome, Codes
  <2> QED
    BY <2>2 DEF Served
<1> QED
  BY <1>1, <1>2, <1>3

-----------------------------------------------------------------------------
(* The stream. *)

(* A step that answers nothing leaves the server and the lines that were   *)
(* answered as they are; a step that answers, answers one request.         *)
Quiet ==
    /\ UNCHANGED <<graph, provisioned, usedScope, usedCmd, out, neo4j>>
    /\ \A i \in DOMAIN out : Line(i)' = Line(i)

Replies(id) ==
    /\ id \in 1 .. Len(wire) /\ wire[id].frame = "request" /\ Answer(id)
    /\ UNCHANGED <<graph, provisioned, wire>> /\ clock' \in Nat

LEMMA ServeShape ==
    ASSUME StreamInv, Serve
    PROVE  /\ pc = "loop" /\ pc' \in {"loop", "blank", "crashed"}
           /\ taken < Len(wire) /\ taken' = taken + 1
           /\ fetched' \in Nat /\ taken' <= fetched' /\ fetched' <= Len(wire)
           /\ clock' \in Nat
           /\ UNCHANGED <<graph, provisioned, wire, closed>>
           /\ wire[taken + 1].frame = "request" => Answer(taken + 1)
           /\ wire[taken + 1].frame # "request" => UNCHANGED serverVars
<1>1. /\ taken \in Nat /\ fetched \in Nat /\ clock \in Nat /\ wire \in Seq(Lines)
      /\ taken <= fetched /\ fetched <= Len(wire)
  BY DEF StreamInv, AnsweredInOrder, TypeOK
<1>2. Len(wire) \in Nat /\ MaxClock \in Nat
  BY <1>1, McpAssumption
<1>3. /\ pc = "loop" /\ taken < Len(wire) /\ clock' \in clock .. MaxClock
      /\ Dispatch(taken + 1) /\ UNCHANGED <<graph, provisioned, wire, closed>>
  BY DEF Serve
<1>4. PICK n \in IF taken < fetched THEN {fetched} ELSE fetched + 1 .. Len(wire) :
            fetched' = n /\ taken' = taken + 1
  BY DEF Serve, TakenAfter
<1>5. fetched' \in Nat /\ taken' <= fetched' /\ fetched' <= Len(wire)
  BY <1>1, <1>2, <1>4
<1>6. /\ pc' \in {"loop", "blank", "crashed"}
      /\ wire[taken + 1].frame = "request" => Answer(taken + 1)
      /\ wire[taken + 1].frame # "request" => UNCHANGED serverVars
  BY <1>3 DEF Dispatch
<1> QED
  BY <1>1, <1>2, <1>3, <1>4, <1>5, <1>6

LEMMA Appended ==
    ASSUME NEW S, NEW s \in Seq(S), NEW e \in S, NEW t, t = Append(s, e)
    PROVE  /\ t \in Seq(S) /\ Len(s) \in Nat
           /\ DOMAIN s = 1 .. Len(s) /\ DOMAIN t = 1 .. Len(s) + 1
           /\ Len(s) + 1 \in DOMAIN t /\ t[Len(s) + 1] = e
           /\ \A i \in DOMAIN s : i \in DOMAIN t /\ t[i] = s[i]
           /\ \A i \in DOMAIN t : i \in DOMAIN s \/ i = Len(s) + 1
OBVIOUS

(* The answer itself. *)
LEMMA ReplyShape ==
    ASSUME StreamInv, NEW id \in Nat, Replies(id), NEW e,
           e = [id |-> id, code |-> Handle(wire[id]).code, at |-> clock',
                result |-> Handle(wire[id]).result],
           NEW n, n = Len(out) + 1
    PROVE  /\ wire[id] \in Lines /\ e \in Answered(graph)
           /\ out' = Append(out, e) /\ out' \in Seq(Answered(graph))
           /\ DOMAIN out = 1 .. Len(out) /\ DOMAIN out' = 1 .. n /\ Len(out) \in Nat /\ n \in DOMAIN out'
           /\ out'[n] = e
           /\ \A i \in DOMAIN out : i \in DOMAIN out' /\ out'[i] = out[i] /\ Line(i)' = Line(i)
           /\ Line(n)' = wire[id]
           /\ \A i \in DOMAIN out' : i \in DOMAIN out \/ i = n
<1>1. wire \in Seq(Lines) /\ out \in Seq(Answered(graph)) /\ provisioned \in BOOLEAN
  BY DEF StreamInv, AnsweredInOrder, TypeOK
<1>2. wire[id] \in Lines /\ wire[id].frame = "request" /\ clock' \in Nat /\ wire' = wire
  BY <1>1 DEF Replies
<1>3. e \in Answered(graph)
  BY <1>1, <1>2, HandleType DEF Answered
<1>4. out' = Append(out, e)
  BY DEF Replies, Answer
<1>5. /\ out' \in Seq(Answered(graph))
      /\ DOMAIN out = 1 .. Len(out) /\ DOMAIN out' = 1 .. n /\ Len(out) \in Nat /\ n \in DOMAIN out'
      /\ out'[n] = e
      /\ \A i \in DOMAIN out : i \in DOMAIN out' /\ out'[i] = out[i]
      /\ \A i \in DOMAIN out' : i \in DOMAIN out \/ i = n
  BY <1>1, <1>3, <1>4, Appended
<1>6. \A i \in DOMAIN out : Line(i)' = Line(i)
  BY <1>2, <1>5 DEF Line
<1>7. Line(n)' = wire[id]
  <2>1. out'[n].id = id
    BY <1>5
  <2> QED
    BY <1>2, <2>1 DEF Line
<1> QED
  BY <1>2, <1>3, <1>4, <1>5, <1>6, <1>7

LEMMA SendShape ==
    ASSUME StreamInv, NEW l \in Lines, Send(l)
    PROVE  /\ wire' \in Seq(Lines) /\ Len(wire') = Len(wire) + 1 /\ Len(wire) \in Nat
           /\ \A n \in 1 .. Len(wire) : wire'[n] = wire[n]
           /\ pc = "loop"
           /\ UNCHANGED <<graph, provisioned, serverVars, fetched, taken, closed, pc, clock>>
<1>1. wire \in Seq(Lines)
  BY DEF StreamInv, AnsweredInOrder, TypeOK
<1> QED
  BY <1>1 DEF Send

(* An answer is about a line that was read. *)
LEMMA AnswersAreBehind ==
    ASSUME StreamInv, NEW i \in DOMAIN out
    PROVE  out[i].id \in 1 .. taken /\ out[i].id \in 1 .. Len(wire)
<1>1. out[i].id \in 1 .. taken
  BY DEF StreamInv, AnsweredInOrder
<1>2. taken \in Nat /\ Len(wire) \in Nat /\ taken <= Len(wire)
  BY DEF StreamInv, AnsweredInOrder, TypeOK
<1> QED
  BY <1>1, <1>2

LEMMA StepKinds ==
    ASSUME StreamInv, [Next]_vars
    PROVE  Quiet \/ Replies(taken + 1)
<1>1. CASE Serve
  <2>1. /\ taken < Len(wire) /\ clock' \in Nat /\ UNCHANGED <<graph, provisioned, wire>>
        /\ wire[taken + 1].frame = "request" => Answer(taken + 1)
        /\ wire[taken + 1].frame # "request" => UNCHANGED serverVars
    BY <1>1, ServeShape
  <2>2. taken + 1 \in 1 .. Len(wire)
    BY <2>1 DEF StreamInv, AnsweredInOrder, TypeOK
  <2>3. CASE wire[taken + 1].frame = "request"
    BY <2>1, <2>2, <2>3 DEF Replies
  <2>4. CASE wire[taken + 1].frame # "request"
    BY <2>1, <2>4 DEF Quiet, Line, serverVars
  <2> QED
    BY <2>3, <2>4
<1>2. ASSUME NEW l \in Lines, Send(l) PROVE Quiet
  <2>1. \A i \in DOMAIN out : wire'[out[i].id] = wire[out[i].id]
    BY <1>2, SendShape, AnswersAreBehind
  <2>2. UNCHANGED <<graph, provisioned, usedScope, usedCmd, out, neo4j>>
    BY <1>2 DEF Send, serverVars
  <2> QED
    BY <2>1, <2>2 DEF Quiet, Line
<1>3. CASE EndOfFile \/ Shutdown \/ Close
  BY <1>3 DEF EndOfFile, Shutdown, Close, Quiet, Line, serverVars, streamVars
<1>4. CASE UNCHANGED vars
  BY <1>4 DEF vars, Quiet, Line, serverVars, streamVars
<1> QED
  BY <1>1, <1>2, <1>3, <1>4 DEF Next, Loop

Numbered == {out[i].id : i \in DOMAIN out} = {n \in 1 .. taken : wire[n].frame = "request"}

Ascending == \A i, j \in DOMAIN out : i < j => out[i].id < out[j].id

(* Reading a line that is no request, or none at all, keeps the answers in *)
(* step with the lines.                                                    *)
LEMMA NumberedKept ==
    ASSUME StreamInv, UNCHANGED out, taken' \in {taken, taken + 1},
           taken' # taken => wire'[taken + 1].frame # "request",
           \A n \in 1 .. taken : wire'[n] = wire[n]
    PROVE  Numbered' /\ Ascending'
<1>1. Numbered /\ Ascending /\ taken \in Nat
  BY DEF StreamInv, AnsweredInOrder, Numbered, Ascending
<1>2. {n \in 1 .. taken' : wire'[n].frame = "request"}
         = {n \in 1 .. taken : wire[n].frame = "request"}
  BY <1>1
<1>3. {out'[i].id : i \in DOMAIN out'} = {out[i].id : i \in DOMAIN out}
  OBVIOUS
<1> QED
  BY <1>1, <1>2, <1>3 DEF Numbered, Ascending

(* A request that is read is the next to be answered. *)
LEMMA NumberedReplied ==
    ASSUME StreamInv, Replies(taken + 1), taken' = taken + 1
    PROVE  Numbered' /\ Ascending'
<1>1. Numbered /\ Ascending /\ taken \in Nat /\ taken + 1 \in Nat
  BY DEF StreamInv, AnsweredInOrder, Numbered, Ascending
<1> DEFINE l == wire[taken + 1]
           e == [id |-> taken + 1, code |-> Handle(l).code, at |-> clock',
                 result |-> Handle(l).result]
           k == Len(out) + 1
<1>2. /\ DOMAIN out = 1 .. Len(out) /\ Len(out) \in Nat /\ k \in DOMAIN out'
      /\ out'[k] = e
      /\ \A i \in DOMAIN out : i \in DOMAIN out' /\ out'[i] = out[i]
      /\ \A i \in DOMAIN out' : i \in DOMAIN out \/ i = k
  BY <1>1, ReplyShape
<1>3. out'[k].id = taken + 1 /\ l.frame = "request" /\ wire' = wire
  BY <1>2 DEF Replies
<1>4. \A i \in DOMAIN out : out[i].id \in 1 .. taken
  BY AnswersAreBehind
<1> HIDE DEF e, k, l
<1>5. Numbered'
  <2>1. \A i \in DOMAIN out' : out'[i].id \in {n \in 1 .. taken + 1 : wire[n].frame = "request"}
    <3> TAKE i \in DOMAIN out'
    <3>1. CASE i \in DOMAIN out
      <4>1. out[i].id \in {n \in 1 .. taken : wire[n].frame = "request"}
        BY <1>1, <3>1 DEF Numbered
      <4> QED
        BY <1>1, <1>2, <3>1, <4>1
    <3>2. CASE i = k
      BY <1>1, <1>3, <3>2 DEF l
    <3> QED
      BY <1>2, <3>1, <3>2
  <2>2. \A n \in 1 .. taken + 1 :
           wire[n].frame = "request" => \E i \in DOMAIN out' : out'[i].id = n
    <3> SUFFICES ASSUME NEW n \in 1 .. taken + 1, wire[n].frame = "request"
                 PROVE  \E i \in DOMAIN out' : out'[i].id = n
      OBVIOUS
    <3>1. CASE n = taken + 1
      BY <1>2, <1>3, <3>1
    <3>2. CASE n # taken + 1
      <4>1. n \in 1 .. taken
        BY <1>1, <3>2
      <4>2. PICK i \in DOMAIN out : out[i].id = n
        BY <1>1, <4>1 DEF Numbered
      <4> QED
        BY <1>2, <4>2
    <3> QED
      BY <3>1, <3>2
  <2> QED
    BY <1>3, <2>1, <2>2 DEF Numbered
<1>6. Ascending'
  <2> SUFFICES ASSUME NEW i \in DOMAIN out', NEW j \in DOMAIN out', i < j
               PROVE  out'[i].id < out'[j].id
    BY DEF Ascending
  <2>1. CASE j \in DOMAIN out
    <3>1. i \in DOMAIN out
      BY <1>2, <2>1 DEF k
    <3> QED
      BY <1>1, <1>2, <2>1, <3>1 DEF Ascending
  <2>2. CASE j = k
    <3>1. i \in DOMAIN out
      BY <1>2, <2>2 DEF k
    <3>2. out'[i].id \in 1 .. taken /\ out'[j].id = taken + 1
      BY <1>2, <1>3, <1>4, <2>2, <3>1
    <3> QED
      BY <1>1, <3>2
  <2> QED
    BY <1>2, <2>1, <2>2
<1> QED
  BY <1>5, <1>6

(* Nonces that are spent are numbers. *)
LEMMA SpentTypes ==
    ASSUME StreamInv, NEW id \in Nat, Replies(id)
    PROVE  usedScope' \subseteq Nat /\ usedCmd' \subseteq Nat
<1>1. /\ usedScope \subseteq Nat /\ usedCmd \subseteq Nat /\ provisioned \in BOOLEAN
      /\ wire \in Seq(Lines)
  BY DEF StreamInv, AnsweredInOrder, TypeOK
<1> DEFINE l == wire[id]
<1>2. l \in Lines
  BY <1>1 DEF Replies
<1>3. /\ usedScope' = usedScope \cup
            (IF IsCall(l, "read") /\ Handle(l).spent THEN {l.scope.nonce} ELSE {})
      /\ usedCmd' = usedCmd \cup
            (IF IsCall(l, "read_write") /\ Handle(l).spent THEN {l.cmd.nonce} ELSE {})
  BY DEF Replies, Answer
<1> HIDE DEF l
<1>4. IsCall(l, "read") /\ Handle(l).spent => l.scope.nonce \in Nat
  <2> SUFFICES ASSUME IsCall(l, "read"), Handle(l).spent PROVE l.scope.nonce \in Nat
    OBVIOUS
  <2>1. l.scope # None /\ l.tool = "read"
    BY <1>1, ReadFacts DEF IsCall
  <2> QED
    BY <1>2, <2>1, LineAssumption
<1>5. IsCall(l, "read_write") /\ Handle(l).spent => l.cmd.nonce \in Nat
  <2> SUFFICES ASSUME IsCall(l, "read_write"), Handle(l).spent PROVE l.cmd.nonce \in Nat
    OBVIOUS
  <2>1. l.cmd # None /\ l.tool = "read_write"
    BY WriteFacts DEF IsCall
  <2> QED
    BY <1>2, <2>1, LineAssumption
<1> QED
  BY <1>1, <1>3, <1>4, <1>5

LEMMA CodesTyped ==
    ASSUME NEW g, NEW s \in Seq(Answered(g))
    PROVE  \A i \in DOMAIN s : s[i].code \in {"result", "-32000", "-32601", "-32603"}
<1>1. \A i \in DOMAIN s : s[i] \in Answered(g)
  OBVIOUS
<1> QED
  BY <1>1 DEF Answered, Codes

LEMMA StreamStep == StreamInv /\ [Next]_vars => StreamInv'
<1> SUFFICES ASSUME StreamInv, [Next]_vars PROVE StreamInv'
  OBVIOUS
<1>0. /\ TypeOK /\ Numbered /\ Ascending /\ (pc = "eof" => taken = Len(wire))
      /\ taken \in Nat /\ fetched \in Nat /\ clock \in Nat
      /\ out \in Seq(Answered(graph)) /\ Len(wire) \in Nat
  BY DEF StreamInv, AnsweredInOrder, TypeOK, Numbered, Ascending
<1>q. ASSUME TypeOK', Numbered', Ascending', (pc = "eof" => taken = Len(wire))',
             taken' \in Nat, fetched' \in Nat, clock' \in Nat,
             out' \in Seq(Answered(graph'))
      PROVE  StreamInv'
  BY <1>q DEF StreamInv, AnsweredInOrder, Numbered, Ascending
<1>1. CASE Serve
  <2>1. /\ pc = "loop" /\ pc' \in {"loop", "blank", "crashed"}
        /\ taken < Len(wire) /\ taken' = taken + 1
        /\ fetched' \in Nat /\ taken' <= fetched' /\ fetched' <= Len(wire)
        /\ clock' \in Nat /\ UNCHANGED <<graph, provisioned, wire, closed>>
        /\ wire[taken + 1].frame # "request" => UNCHANGED serverVars
    BY <1>1, ServeShape
  <2>2. Quiet \/ Replies(taken + 1)
    BY StepKinds
  <2>3. out' \in Seq(Answered(graph)) /\ usedScope' \subseteq Nat /\ usedCmd' \subseteq Nat
    <3>1. CASE Quiet
      BY <1>0, <3>1 DEF Quiet, TypeOK
    <3>2. CASE Replies(taken + 1)
      <4>1. taken + 1 \in Nat
        BY <1>0
      <4>2. out' \in Seq(Answered(graph))
        BY <3>2, <4>1, ReplyShape
      <4> QED
        BY <3>2, <4>1, <4>2, SpentTypes
    <3> QED
      BY <2>2, <3>1, <3>2
  <2>4. Numbered' /\ Ascending'
    <3>1. CASE wire[taken + 1].frame # "request"
      BY <1>0, <2>1, <3>1, NumberedKept DEF serverVars
    <3>2. CASE wire[taken + 1].frame = "request"
      <4>1. Replies(taken + 1)
        BY <1>0, <1>1, <2>1, <3>2, ServeShape DEF Replies
      <4> QED
        BY <2>1, <4>1, NumberedReplied
    <3> QED
      BY <3>1, <3>2
  <2>5. TypeOK'
    BY <1>0, <2>1, <2>3, CodesTyped DEF TypeOK, Ended
  <2> QED
    BY <1>0, <1>q, <2>1, <2>3, <2>4, <2>5
<1>2. ASSUME NEW l \in Lines, Send(l) PROVE StreamInv'
  <2>1. /\ wire' \in Seq(Lines) /\ Len(wire') = Len(wire) + 1
        /\ \A n \in 1 .. Len(wire) : wire'[n] = wire[n]
        /\ pc = "loop"
        /\ UNCHANGED <<graph, provisioned, usedScope, usedCmd, out, fetched, taken, closed, pc,
                       clock>>
    BY <1>2, SendShape DEF serverVars
  <2>2. \A n \in 1 .. taken : wire'[n] = wire[n]
    BY <1>0, <2>1 DEF TypeOK
  <2>3. Numbered' /\ Ascending'
    BY <2>1, <2>2, NumberedKept
  <2>4. TypeOK'
    BY <1>0, <2>1 DEF TypeOK
  <2> QED
    BY <1>0, <1>q, <2>1, <2>3, <2>4
<1>3. CASE EndOfFile \/ Shutdown \/ Close \/ UNCHANGED vars
  <2>1. /\ UNCHANGED <<graph, provisioned, usedScope, usedCmd, out, wire, fetched, taken, clock>>
        /\ closed' \in {closed, TRUE} /\ pc' \in {pc, "eof", "shutdown"}
        /\ pc' = "eof" => taken = Len(wire)
    BY <1>0, <1>3
       DEF EndOfFile, Shutdown, Close, vars, serverVars, streamVars
  <2>2. Numbered' /\ Ascending'
    BY <2>1, NumberedKept
  <2>3. TypeOK'
    BY <1>0, <2>1 DEF TypeOK, Ended
  <2> QED
    BY <1>0, <1>q, <2>1, <2>2, <2>3
<1> QED
  BY <1>1, <1>2, <1>3 DEF Next, Loop

LEMMA StreamHolds == Spec => []StreamInv
<1>1. Init => StreamInv
  <2> SUFFICES ASSUME Init PROVE StreamInv
    OBVIOUS
  <2>1. /\ out = <<>> /\ wire = <<>> /\ taken = 0 /\ fetched = 0 /\ clock = 0 /\ pc = "loop"
        /\ usedScope = {} /\ usedCmd = {} /\ provisioned \in BOOLEAN /\ closed = FALSE
    BY DEF Init
  <2>2. TypeOK
    <3>1. wire \in Seq(Lines) /\ Len(wire) = 0 /\ DOMAIN out = {}
      BY <2>1
    <3>2. /\ provisioned \in BOOLEAN /\ closed \in BOOLEAN /\ pc \in {"loop"} \cup Ended
          /\ usedScope \subseteq Nat /\ usedCmd \subseteq Nat
      BY <2>1
    <3>3. taken <= fetched /\ fetched <= Len(wire)
      BY <2>1, <3>1
    <3> QED
      BY <3>1, <3>2, <3>3 DEF TypeOK
  <2>3. Numbered /\ Ascending
    <3>1. DOMAIN out = {} /\ 1 .. taken = {}
      BY <2>1
    <3> QED
      BY <3>1 DEF Numbered, Ascending
  <2> QED
    BY <2>1, <2>2, <2>3 DEF StreamInv, AnsweredInOrder, Numbered, Ascending
<1> QED
  BY <1>1, StreamStep, PTL DEF Spec

(* For any lines, in any chunks: requests are answered once each and in    *)
(* order, nothing else is, and no line is left at the end of the file.     *)
THEOREM RequestsAreAnsweredInOrder == Spec => []AnsweredInOrder
<1>1. StreamInv => AnsweredInOrder
  BY DEF StreamInv
<1> QED
  BY <1>1, StreamHolds, PTL

-----------------------------------------------------------------------------
(* The graph that was loaded. *)

IsEntity(e) ==
    /\ e = [type |-> e.type, source |-> e.source, text |-> e.text, score |-> e.score,
            timestamp |-> e.timestamp, neighbor_terms |-> e.neighbor_terms,
            contradicts |-> e.contradicts]
    /\ e.source \in Seq(STRING)

IsGraph(g) ==
    /\ g = [ents |-> g.ents, adj |-> g.adj]
    /\ g.ents = [n \in DOMAIN g.ents |-> g.ents[n]]
    /\ IsFiniteSet(DOMAIN g.ents)
    /\ \A n \in DOMAIN g.ents : IsEntity(g.ents[n])

LEMMA EntityIsEntity ==
    ASSUME NEW type, NEW source \in Seq(STRING), NEW text, NEW score
    PROVE  IsEntity(Entity(type, source, text, score))
BY DEF IsEntity, Entity

LEMMA OpponentsKept ==
    ASSUME NEW e, IsEntity(e), NEW c PROVE IsEntity([e EXCEPT !.contradicts = c])
BY DEF IsEntity

(* What one section of the artifact gives. *)
Section(f) == IsFiniteSet(DOMAIN f) /\ \A n \in DOMAIN f : IsEntity(f[n])

LEMMA SectionsMerge ==
    ASSUME NEW f, NEW g, Section(f), Section(g) PROVE Section(Added(f, g))
<1>1. /\ DOMAIN Added(f, g) = DOMAIN f \cup DOMAIN g
      /\ \A n \in DOMAIN f \cup DOMAIN g :
            Added(f, g)[n] = IF n \in DOMAIN g THEN g[n] ELSE f[n]
  BY DEF Added
<1>2. IsFiniteSet(DOMAIN f \cup DOMAIN g)
  BY FS_Union DEF Section
<1> QED
  BY <1>1, <1>2 DEF Section

LEMMA EdgeEnds ==
    ASSUME NEW edges, IsFiniteSet(edges)
    PROVE  IsFiniteSet(UNION {{e.source, e.target} : e \in edges})
<1> DEFINE sources == {e.source : e \in edges}
           targets == {e.target : e \in edges}
<1>1. IsFiniteSet(sources) /\ IsFiniteSet(targets)
  <2>1. /\ [e \in edges |-> e.source] \in Surjection(edges, sources)
        /\ [e \in edges |-> e.target] \in Surjection(edges, targets)
    BY DEF Surjection
  <2> HIDE DEF sources, targets
  <2> QED
    BY <2>1, FS_Surjection
<1>2. UNION {{e.source, e.target} : e \in edges} = sources \cup targets
  OBVIOUS
<1> HIDE DEF sources, targets
<1>3. IsFiniteSet(sources \cup targets)
  BY <1>1, FS_Union
<1> QED
  BY <1>2, <1>3, Zenon

LEMMA LoadedIsGraph ==
    ASSUME NEW art \in Artifacts PROVE IsGraph(GraphFromSkcArtifact(art))
<1>1. /\ IsFiniteSet(DOMAIN art.nodes) /\ IsFiniteSet(art.edges)
      /\ IsFiniteSet(DOMAIN art.documents) /\ IsFiniteSet(DOMAIN art.claims)
      /\ \A d \in DOMAIN art.documents : art.documents[d].domain \in Seq(STRING)
  BY ArtifactAssumption
<1>2. <<>> \in Seq(STRING)
  OBVIOUS
<1>3. Section(Concepts(art))
  <2> DEFINE nodes == [n \in DOMAIN art.nodes |->
                         Entity(art.nodes[n].type, <<>>, art.nodes[n].label, 0)]
             ends == [n \in UNION {{e.source, e.target} : e \in art.edges} |->
                         Entity("concept", <<>>, {n}, 0)]
  <2>1. Section(nodes)
    BY <1>1, <1>2, EntityIsEntity DEF Section
  <2>2. Section(ends)
    BY <1>1, <1>2, EdgeEnds, EntityIsEntity DEF Section
  <2>3. Concepts(art) = Added(ends, nodes)
    BY DEF Concepts
  <2> HIDE DEF nodes, ends
  <2> QED
    BY <2>1, <2>2, <2>3, SectionsMerge
<1>4. Section(Documents(art))
  BY <1>1, EntityIsEntity DEF Documents, Section
<1>5. Section(Claims(art))
  <2> DEFINE origin(c) == IF art.claims[c].doc \in DOMAIN art.documents
                          THEN art.documents[art.claims[c].doc].domain ELSE <<>>
  <2>1. \A c : origin(c) \in Seq(STRING)
    BY <1>1, <1>2
  <2>2. Claims(art) = [c \in DOMAIN art.claims |->
                         Entity("claim", origin(c), art.claims[c].text,
                                art.claims[c].confidence)]
    BY DEF Claims
  <2> HIDE DEF origin
  <2> QED
    BY <1>1, <2>1, <2>2, EntityIsEntity DEF Section
<1> DEFINE ents == Added(Added(Concepts(art), Documents(art)), Claims(art))
           judged == [n \in DOMAIN ents |->
                         [ents[n] EXCEPT !.contradicts = Opponents(ents, art, n)]]
<1>6. Section(ents)
  BY <1>3, <1>4, <1>5, SectionsMerge
<1>7. GraphFromSkcArtifact(art) = [ents |-> judged, adj |-> UNION {Link(e) : e \in art.edges}]
  BY DEF GraphFromSkcArtifact
<1> HIDE DEF ents
<1>8. DOMAIN judged = DOMAIN ents /\ \A n \in DOMAIN ents : IsEntity(judged[n])
  BY <1>6, OpponentsKept DEF Section
<1> QED
  BY <1>6, <1>7, <1>8 DEF IsGraph, Section

(* The record of any plan accounts for every entity of the graph once. *)
LEMMA ExecuteCounts ==
    ASSUME NEW g, IsGraph(g), NEW op
    PROVE  /\ Execute(g, op).included \subseteq DOMAIN g.ents
           /\ Cardinality(Execute(g, op).included) + Cardinality(Execute(g, op).excluded)
                = Cardinality(DOMAIN g.ents)
<1> DEFINE D == DOMAIN g.ents
           in == {n \in D : Holds(g, op, n)}
<1>1. Execute(g, op) = [included |-> in, excluded |-> D \ in]
  BY DEF Execute
<1>2. IsFiniteSet(D) /\ in \subseteq D
  BY DEF IsGraph
<1> HIDE DEF D, in
<1>3. D \cap in = in /\ IsFiniteSet(in)
  BY <1>2, FS_Subset
<1>4. Cardinality(D \ in) = Cardinality(D) - Cardinality(D \cap in)
  BY <1>2, FS_Difference
<1>5. Cardinality(D) \in Nat /\ Cardinality(in) \in Nat
  BY <1>2, <1>3, FS_CardinalityType
<1>6. Cardinality(D \ in) = Cardinality(D) - Cardinality(in)
  BY <1>3, <1>4
<1>7. Cardinality(in) + Cardinality(D \ in) = Cardinality(D)
  BY <1>5, <1>6
<1> QED
  BY <1>1, <1>2, <1>7 DEF D

-----------------------------------------------------------------------------
(* Scopes. *)

(* The invariant behind ScopeSpentOnSight: a genuine scope that was shown  *)
(* is in _used_scope_nonces, and what is served is what the plan retains.  *)
Shown == \A i \in Reads : Genuine(Line(i).scope, out[i].at) => Line(i).scope.nonce \in usedScope

ServedInv == \A i \in Reads : out[i].code = "result" => out[i].result = Execute(graph, Line(i).op)

GraphInv == \E art \in Artifacts : graph = GraphFromSkcArtifact(art)

Kept == neo4j \subseteq {out[i].result : i \in {j \in Reads : out[j].code = "result"}}

(* What a served read has to show for itself. *)
Rightful(i) ==
    LET s == Line(i).scope
    IN  /\ Genuine(s, out[i].at)
        /\ s.capabilities # {} => KindsOf(Line(i).op) \subseteq s.capabilities
        /\ s.max_results # None => Cardinality(DOMAIN graph.ents) <= s.max_results
        /\ \A j \in Reads : j < i /\ Genuine(Line(j).scope, out[j].at) =>
                                 Line(j).scope.nonce # s.nonce

AllRightful == \A i \in Reads : out[i].code = "result" => Rightful(i)

ScopeInv == GraphInv /\ ServedInv /\ Kept /\ (provisioned => Shown /\ AllRightful)

LEMMA ScopeInvSuffices == ASSUME ScopeInv PROVE ScopeSpentOnSight
BY DEF ScopeInv, ScopeSpentOnSight, Kept, AllRightful, Rightful, Line

LEMMA ReadsByLine ==
    Reads = {i \in DOMAIN out : IsCall(Line(i), "read") /\ Line(i).op # None}
BY DEF Reads, Line

LEMMA QuietKeepsScopes ==
    ASSUME ScopeInv, Quiet PROVE ScopeInv'
<1>1. /\ UNCHANGED <<graph, provisioned, usedScope, out, neo4j>>
      /\ \A i \in DOMAIN out : Line(i)' = Line(i)
  BY DEF Quiet
<1>2. Reads' = {i \in DOMAIN out' : IsCall(Line(i)', "read") /\ Line(i)'.op # None}
  BY DEF Reads, Line
<1>3. Reads' = Reads /\ Reads \subseteq DOMAIN out
  BY <1>1, <1>2, ReadsByLine
<1>4. GraphInv' /\ ServedInv' /\ Kept'
  BY <1>1, <1>3 DEF ScopeInv, GraphInv, ServedInv, Kept
<1>5. Shown => Shown'
  BY <1>1, <1>3 DEF Shown
<1>6. \A i \in Reads : Rightful(i) => Rightful(i)'
  BY <1>1, <1>3 DEF Rightful
<1>7. AllRightful => AllRightful'
  BY <1>1, <1>3, <1>6 DEF AllRightful
<1> QED
  BY <1>1, <1>4, <1>5, <1>7 DEF ScopeInv

(* verify_scope accepts a genuine scope that was not used, and no other. *)
LEMMA VerifyIsGenuine ==
    ASSUME NEW l \in Lines, IsCall(l, "read"), l.scope # None, clock' \in Nat
    PROVE  VerifyScope(l.scope, clock')
           <=> Genuine(l.scope, clock') /\ l.scope.nonce \notin usedScope
<1>1. l.scope.not_before \in Int /\ l.scope.not_after \in Int
  BY LineAssumption DEF IsCall
<1>2. clock' \in l.scope.not_before .. l.scope.not_after
      <=> l.scope.not_before <= clock' /\ clock' <= l.scope.not_after
  BY <1>1
<1> QED
  BY <1>2 DEF VerifyScope, Genuine

(* The read that is answered now. *)
LEMMA ReplyIsRightful ==
    ASSUME ScopeInv, provisioned, provisioned \in BOOLEAN, clock' \in Nat,
           NEW l \in Lines, IsCall(l, "read"), l.op # None
    PROVE  /\ Genuine(l.scope, clock') =>
                 l.scope.nonce \in usedScope \/ Handle(l).spent
           /\ Handle(l).code = "result" =>
                 /\ Genuine(l.scope, clock') /\ l.scope.nonce \notin usedScope
                 /\ l.scope.capabilities # {} => KindsOf(l.op) \subseteq l.scope.capabilities
                 /\ l.scope.max_results # None =>
                       Cardinality(DOMAIN graph.ents) <= l.scope.max_results
<1>1. IsGraph(graph)
  BY LoadedIsGraph DEF ScopeInv, GraphInv
<1>2. ASSUME Genuine(l.scope, clock'), l.scope.nonce \notin usedScope PROVE Handle(l).spent
  <2>1. l.scope # None
    BY <1>2 DEF Genuine
  <2>2. VerifyScope(l.scope, clock')
    BY <1>2, <2>1, VerifyIsGenuine
  <2> QED
    BY <2>1, <2>2, ReadFacts
<1>3. ASSUME Handle(l).code = "result"
      PROVE  /\ Genuine(l.scope, clock') /\ l.scope.nonce \notin usedScope
             /\ l.scope.capabilities # {} => KindsOf(l.op) \subseteq l.scope.capabilities
             /\ l.scope.max_results # None =>
                   Cardinality(DOMAIN graph.ents) <= l.scope.max_results
  <2>1. /\ l.scope # None /\ VerifyScope(l.scope, clock')
        /\ EnforceConstraints(l.op, l.scope, Execute(graph, l.op))
    BY <1>3, ReadFacts
  <2>2. Genuine(l.scope, clock') /\ l.scope.nonce \notin usedScope
    BY <2>1, VerifyIsGenuine
  <2>3. Cardinality(Execute(graph, l.op).included) + Cardinality(Execute(graph, l.op).excluded)
          = Cardinality(DOMAIN graph.ents)
    BY <1>1, ExecuteCounts
  <2> QED
    BY <2>1, <2>2, <2>3 DEF EnforceConstraints
<1> QED
  BY <1>2, <1>3

LEMMA ReplyKeepsScopes ==
    ASSUME StreamInv, ScopeInv, NEW id \in Nat, Replies(id)
    PROVE  ScopeInv'
<1>t. provisioned \in BOOLEAN /\ clock' \in Nat /\ UNCHANGED <<graph, provisioned, wire>>
  BY DEF StreamInv, AnsweredInOrder, TypeOK, Replies
<1> DEFINE l == wire[id]
           e == [id |-> id, code |-> Handle(l).code, at |-> clock', result |-> Handle(l).result]
           k == Len(out) + 1
<1>1. /\ l \in Lines
      /\ DOMAIN out = 1 .. Len(out) /\ Len(out) \in Nat /\ k \in DOMAIN out'
      /\ out'[k] = e
      /\ \A i \in DOMAIN out : i \in DOMAIN out' /\ out'[i] = out[i] /\ Line(i)' = Line(i)
      /\ \A n : n = k => Line(n)' = l
      /\ \A i \in DOMAIN out' : i \in DOMAIN out \/ i = k
  BY ReplyShape
<1>2. usedScope' = usedScope \cup
         (IF IsCall(l, "read") /\ Handle(l).spent THEN {l.scope.nonce} ELSE {})
  BY DEF Replies, Answer
<1>3. /\ neo4j' \subseteq neo4j \cup {Handle(l).result}
      /\ neo4j' = neo4j \/ (IsCall(l, "read") /\ Handle(l).code = "result")
  BY DEF Replies, Answer, Mirror
<1>4. out'[k].code = Handle(l).code /\ out'[k].at = clock' /\ out'[k].result = Handle(l).result
  BY <1>1
<1>5. \A i \in DOMAIN out : i < k /\ i # k /\ k \notin DOMAIN out
  BY <1>1
<1> HIDE DEF e, k, l
<1>6. Reads' = {i \in DOMAIN out' : IsCall(Line(i)', "read") /\ Line(i)'.op # None}
  BY DEF Reads, Line
<1>7. /\ Reads \subseteq DOMAIN out /\ Reads \subseteq Reads'
      /\ \A i \in Reads' : i \in Reads \/ (i = k /\ IsCall(l, "read") /\ l.op # None)
      /\ IsCall(l, "read") /\ l.op # None => k \in Reads'
  BY <1>1, <1>6, ReadsByLine
<1>8. GraphInv'
  BY <1>t DEF ScopeInv, GraphInv
<1>9. ServedInv'
  <2> SUFFICES ASSUME NEW i \in Reads', out'[i].code = "result"
               PROVE  out'[i].result = Execute(graph', Line(i)'.op)
    BY DEF ServedInv
  <2>1. CASE i \in Reads
    BY <1>t, <1>1, <1>7, <2>1 DEF ScopeInv, ServedInv
  <2>2. CASE i = k /\ IsCall(l, "read") /\ l.op # None
    <3>1. Handle(l).result = Execute(graph, l.op)
      BY <1>t, <1>4, <2>2, ReadFacts
    <3> QED
      BY <1>t, <1>1, <1>4, <2>2, <3>1
  <2> QED
    BY <1>7, <2>1, <2>2
<1>10. Kept'
  <2>1. ASSUME NEW h \in neo4j PROVE \E i \in Reads' : out'[i].code = "result" /\ out'[i].result = h
    <3>1. PICK i \in Reads : out[i].code = "result" /\ out[i].result = h
      BY <2>1 DEF ScopeInv, Kept
    <3> QED
      BY <1>1, <1>7, <3>1
  <2>2. ASSUME IsCall(l, "read"), Handle(l).code = "result"
        PROVE  \E i \in Reads' : out'[i].code = "result" /\ out'[i].result = Handle(l).result
    <3>1. l.op # None
      BY <1>t, <2>2, ReadFacts
    <3> QED
      BY <1>4, <1>7, <2>2, <3>1
  <2>3. \A h \in neo4j' : \E i \in Reads' : out'[i].code = "result" /\ out'[i].result = h
    BY <1>3, <2>1, <2>2
  <2> QED
    BY <2>3 DEF Kept
<1>11. ASSUME provisioned, Shown, AllRightful PROVE Shown' /\ AllRightful'
  <2>1. Shown'
    <3> SUFFICES ASSUME NEW i \in Reads', Genuine(Line(i)'.scope, out'[i].at)
                 PROVE  Line(i)'.scope.nonce \in usedScope'
      BY DEF Shown
    <3>1. CASE i \in Reads
      <4>1. Line(i).scope.nonce \in usedScope
        BY <1>1, <1>7, <1>11, <3>1 DEF Shown
      <4> QED
        BY <1>1, <1>2, <1>7, <3>1, <4>1
    <3>2. CASE i = k /\ IsCall(l, "read") /\ l.op # None
      <4>1. Line(i)' = l /\ out'[i].at = clock'
        BY <1>1, <1>4, <3>2
      <4>2. l.scope.nonce \in usedScope \/ Handle(l).spent
        BY <1>t, <1>1, <1>11, <3>2, <4>1, ReplyIsRightful
      <4> QED
        BY <1>2, <3>2, <4>1, <4>2
    <3> QED
      BY <1>7, <3>1, <3>2
  <2>2. AllRightful'
    <3> SUFFICES ASSUME NEW i \in Reads', out'[i].code = "result"
                 PROVE  Rightful(i)'
      BY DEF AllRightful
    <3>1. CASE i \in Reads
      <4>1. Rightful(i) /\ i \in DOMAIN out /\ i < k
        BY <1>1, <1>5, <1>7, <1>11, <3>1 DEF AllRightful
      <4>2. \A j \in Reads' : j < i => j \in Reads
        <5> SUFFICES ASSUME NEW j \in Reads', j < i, j = k PROVE FALSE
          BY <1>7
        <5> QED
          BY <1>1, <4>1
      <4>3. \A j \in Reads : Line(j)' = Line(j) /\ out'[j] = out[j]
        BY <1>1, <1>7
      <4> QED
        BY <1>t, <3>1, <4>1, <4>2, <4>3 DEF Rightful
    <3>2. CASE i = k /\ IsCall(l, "read") /\ l.op # None
      <4>1. Line(i)' = l /\ out'[i].at = clock' /\ Handle(l).code = "result"
        BY <1>1, <1>4, <3>2
      <4>2. /\ Genuine(l.scope, clock') /\ l.scope.nonce \notin usedScope
            /\ l.scope.capabilities # {} => KindsOf(l.op) \subseteq l.scope.capabilities
            /\ l.scope.max_results # None =>
                  Cardinality(DOMAIN graph.ents) <= l.scope.max_results
        BY <1>t, <1>1, <1>11, <3>2, <4>1, ReplyIsRightful
      <4>3. \A j \in Reads' : j < i => j \in Reads
        <5> SUFFICES ASSUME NEW j \in Reads', j < i, j = k PROVE FALSE
          BY <1>7
        <5> QED
          BY <1>1, <3>2 DEF k
      <4>4. \A j \in Reads : Line(j)' = Line(j) /\ out'[j] = out[j]
        BY <1>1, <1>7
      <4>5. \A j \in Reads' : j < i /\ Genuine(Line(j)'.scope, out'[j].at) =>
                 Line(j)'.scope.nonce # l.scope.nonce
        BY <1>11, <4>2, <4>3, <4>4 DEF Shown
      <4> QED
        BY <1>t, <4>1, <4>2, <4>5 DEF Rightful
    <3> QED
      BY <1>7, <3>1, <3>2
  <2> QED
    BY <2>1, <2>2
<1> QED
  BY <1>t, <1>8, <1>9, <1>10, <1>11 DEF ScopeInv

LEMMA ScopeHolds == Spec => []ScopeInv
<1>1. Init => ScopeInv
  <2> SUFFICES ASSUME Init PROVE ScopeInv
    OBVIOUS
  <2>1. GraphInv /\ neo4j = {} /\ Reads = {}
    BY DEF Init, GraphInv, Reads
  <2> QED
    BY <2>1 DEF ScopeInv, ServedInv, Kept, Shown, AllRightful
<1>2. StreamInv /\ ScopeInv /\ [Next]_vars => ScopeInv'
  <2> SUFFICES ASSUME StreamInv, ScopeInv, [Next]_vars PROVE ScopeInv'
    OBVIOUS
  <2>1. taken + 1 \in Nat
    BY DEF StreamInv
  <2> QED
    BY <2>1, StepKinds, QuietKeepsScopes, ReplyKeepsScopes
<1> QED
  BY <1>1, <1>2, StreamHolds, PTL DEF Spec

(* Whatever the plans mean and whatever they cost: a scope is spent when   *)
(* it is first shown, a record is served within the limits of its scope    *)
(* only, and the database mirrors only what was served.                    *)
THEOREM ScopesAreSpentOnSight == Spec => []ScopeSpentOnSight
<1>1. ScopeInv => ScopeSpentOnSight
  BY ScopeInvSuffices
<1> QED
  BY <1>1, ScopeHolds, PTL

-----------------------------------------------------------------------------
(* Commands. *)

(* The invariant behind WritesAreCommanded: _used_cmd_nonces holds the     *)
(* nonces of the writes that were applied, and no others.                  *)
Applied == {i \in Writes : out[i].code = "result"}

CmdInv == usedCmd = {Line(i).cmd.nonce : i \in Applied} /\ WritesAreCommanded

(* The command authorises this change at that time, used or not. *)
Authorises(l, at) ==
    /\ l.cmd # None /\ l.cmd.signer \in Operators
    /\ l.cmd.verb = "harness_apply" /\ l.cmd.scope = "harness"
    /\ l.cmd.body = l.change
    /\ at - l.cmd.stamp \in -MaxAge .. MaxAge

LEMMA WritesByLine == Writes = {i \in DOMAIN out : IsCall(Line(i), "read_write")}
BY DEF Writes, Line

LEMMA CommandedByLine ==
    WritesAreCommanded <=>
        \A i \in Writes :
            out[i].code = "result" <=>
                /\ Authorises(Line(i), out[i].at)
                /\ \A j \in Writes : j < i /\ out[j].code = "result" =>
                        Line(j).cmd.nonce # Line(i).cmd.nonce
BY Zenon DEF WritesAreCommanded, Authorises, Line

(* verify_command, behind the check of the verb. *)
LEMMA VerifyIsAuthority ==
    ASSUME NEW l \in Lines, IsCall(l, "read_write"), clock' \in Nat
    PROVE  Handle(l).code = "result" <=>
               Authorises(l, clock') /\ l.cmd.nonce \notin usedCmd
<1>1. CASE l.cmd = None
  BY <1>1, WriteFacts DEF Authorises
<1>2. CASE l.cmd # None
  <2>1. l.cmd.stamp \in Int /\ MaxAge \in Nat
    BY <1>2, LineAssumption, OperatorKeysAssumption DEF IsCall
  <2>2. clock' - l.cmd.stamp \in -MaxAge .. MaxAge
        <=> l.cmd.stamp <= clock' + MaxAge /\ clock' <= l.cmd.stamp + MaxAge
    BY <2>1
  <2>3. VerifyCommand(l.cmd, l.change, Operators, usedCmd, clock', "harness") <=>
          /\ l.cmd.scope = "harness" /\ l.cmd.body = l.change /\ l.cmd.nonce \notin usedCmd
          /\ clock' - l.cmd.stamp \in -MaxAge .. MaxAge
          /\ l.cmd.signer \in Operators
    BY <2>2, Zenon DEF VerifyCommand
  <2> QED
    BY <1>2, <2>3, WriteFacts, Zenon DEF Authorises
<1> QED
  BY <1>1, <1>2

LEMMA QuietKeepsCommands ==
    ASSUME CmdInv, Quiet PROVE CmdInv'
<1>1. UNCHANGED <<usedCmd, out>> /\ \A i \in DOMAIN out : Line(i)' = Line(i)
  BY DEF Quiet
<1>2. Writes' = {i \in DOMAIN out' : IsCall(Line(i)', "read_write")}
  BY DEF Writes, Line
<1>3. Writes' = Writes /\ Writes \subseteq DOMAIN out
  BY <1>1, <1>2, WritesByLine
<1>4. Applied' = Applied /\ Applied \subseteq DOMAIN out
  BY <1>1, <1>3 DEF Applied
<1>5. usedCmd' = {Line(i)'.cmd.nonce : i \in Applied'}
  BY <1>1, <1>4 DEF CmdInv
<1>6. \A i \in Writes' :
         out'[i].code = "result" <=>
             /\ Authorises(Line(i)', out'[i].at)
             /\ \A j \in Writes' : j < i /\ out'[j].code = "result" =>
                     Line(j)'.cmd.nonce # Line(i)'.cmd.nonce
  <2> TAKE i \in Writes'
  <2>1. \A j \in Writes : Line(j)' = Line(j) /\ out'[j] = out[j]
    BY <1>1, <1>3
  <2>2. out[i].code = "result" <=>
             /\ Authorises(Line(i), out[i].at)
             /\ \A j \in Writes : j < i /\ out[j].code = "result" =>
                     Line(j).cmd.nonce # Line(i).cmd.nonce
    BY <1>3, CommandedByLine DEF CmdInv
  <2> QED
    BY <1>3, <2>1, <2>2
<1>7. WritesAreCommanded'
  BY <1>6, Zenon DEF WritesAreCommanded, Authorises, Line
<1> QED
  BY <1>5, <1>7 DEF CmdInv

LEMMA ReplyKeepsCommands ==
    ASSUME StreamInv, CmdInv, NEW id \in Nat, Replies(id)
    PROVE  CmdInv'
<1>t. clock' \in Nat
  BY DEF Replies
<1> DEFINE l == wire[id]
           e == [id |-> id, code |-> Handle(l).code, at |-> clock', result |-> Handle(l).result]
           k == Len(out) + 1
<1>1. /\ l \in Lines
      /\ DOMAIN out = 1 .. Len(out) /\ Len(out) \in Nat /\ k \in DOMAIN out'
      /\ out'[k] = e
      /\ \A i \in DOMAIN out : i \in DOMAIN out' /\ out'[i] = out[i] /\ Line(i)' = Line(i)
      /\ \A n : n = k => Line(n)' = l
      /\ \A i \in DOMAIN out' : i \in DOMAIN out \/ i = k
  BY ReplyShape
<1>2. usedCmd' = usedCmd \cup
         (IF IsCall(l, "read_write") /\ Handle(l).spent THEN {l.cmd.nonce} ELSE {})
  BY DEF Replies, Answer
<1>3. out'[k].code = Handle(l).code /\ out'[k].at = clock'
  BY <1>1
<1>4. /\ \A i \in DOMAIN out : i < k /\ ~(k < i) /\ i # k
      /\ ~(k < k)
  BY <1>1
<1> HIDE DEF e, k, l
<1>5. Writes' = {i \in DOMAIN out' : IsCall(Line(i)', "read_write")}
  BY DEF Writes, Line
<1>6. /\ Writes \subseteq DOMAIN out /\ Writes \subseteq Writes'
      /\ \A i \in Writes' : i \in Writes \/ (i = k /\ IsCall(l, "read_write"))
      /\ IsCall(l, "read_write") => k \in Writes'
  BY <1>1, <1>5, WritesByLine
<1>7. \A j \in Writes : Line(j)' = Line(j) /\ out'[j] = out[j]
  BY <1>1, <1>6
<1>8. /\ \A i \in Applied : i \in Applied' /\ i \in Writes
      /\ \A i \in Applied' : i \in Applied \/ (i = k /\ IsCall(l, "read_write")
                                              /\ Handle(l).code = "result")
      /\ IsCall(l, "read_write") /\ Handle(l).code = "result" => k \in Applied'
  BY <1>3, <1>6, <1>7 DEF Applied
<1>9. usedCmd' = {Line(i)'.cmd.nonce : i \in Applied'}
  <2>1. IsCall(l, "read_write") => (Handle(l).spent <=> Handle(l).code = "result")
    BY WriteFacts
  <2>2. \A x \in usedCmd' : \E i \in Applied' : x = Line(i)'.cmd.nonce
    <3> TAKE x \in usedCmd'
    <3>1. CASE x \in usedCmd
      <4>1. PICK i \in Applied : x = Line(i).cmd.nonce
        BY <3>1 DEF CmdInv
      <4> QED
        BY <1>7, <1>8, <4>1
    <3>2. CASE x \notin usedCmd
      <4>1. IsCall(l, "read_write") /\ Handle(l).code = "result" /\ x = l.cmd.nonce
        BY <1>2, <2>1, <3>2
      <4> QED
        BY <1>1, <1>8, <4>1
    <3> QED
      BY <3>1, <3>2
  <2>3. \A i \in Applied' : Line(i)'.cmd.nonce \in usedCmd'
    <3> TAKE i \in Applied'
    <3>1. CASE i \in Applied
      BY <1>2, <1>7, <1>8, <3>1 DEF CmdInv
    <3>2. CASE i = k /\ IsCall(l, "read_write") /\ Handle(l).code = "result"
      BY <1>1, <1>2, <2>1, <3>2
    <3> QED
      BY <1>8, <3>1, <3>2
  <2> QED
    BY <2>2, <2>3
<1>10. \A i \in Writes' :
          out'[i].code = "result" <=>
              /\ Authorises(Line(i)', out'[i].at)
              /\ \A j \in Writes' : j < i /\ out'[j].code = "result" =>
                      Line(j)'.cmd.nonce # Line(i)'.cmd.nonce
  <2> TAKE i \in Writes'
  <2>1. CASE i \in Writes
    <3>1. out[i].code = "result" <=>
             /\ Authorises(Line(i), out[i].at)
             /\ \A j \in Writes : j < i /\ out[j].code = "result" =>
                     Line(j).cmd.nonce # Line(i).cmd.nonce
      BY <2>1, CommandedByLine DEF CmdInv
    <3>2. \A j \in Writes' : j < i => j \in Writes
      BY <1>4, <1>6, <2>1
    <3> QED
      BY <1>6, <1>7, <2>1, <3>1, <3>2
  <2>2. CASE i = k /\ IsCall(l, "read_write")
    <3>1. Line(i)' = l /\ out'[i].at = clock' /\ out'[i].code = Handle(l).code
      BY <1>1, <1>3, <2>2
    <3>2. Handle(l).code = "result" <=> Authorises(l, clock') /\ l.cmd.nonce \notin usedCmd
      BY <1>t, <1>1, <2>2, VerifyIsAuthority
    <3>3. l.cmd.nonce \notin usedCmd <=>
             \A j \in Writes : out[j].code = "result" => Line(j).cmd.nonce # l.cmd.nonce
      BY DEF CmdInv, Applied
    <3>4. (\A j \in Writes : out[j].code = "result" => Line(j).cmd.nonce # l.cmd.nonce)
          <=> (\A j \in Writes' : j < i /\ out'[j].code = "result" =>
                  Line(j)'.cmd.nonce # l.cmd.nonce)
      BY <1>4, <1>6, <1>7, <2>2
    <3> QED
      BY <3>1, <3>2, <3>3, <3>4, Zenon
  <2> QED
    BY <1>6, <2>1, <2>2
<1>11. WritesAreCommanded'
  BY <1>10, Zenon DEF WritesAreCommanded, Authorises, Line
<1> QED
  BY <1>9, <1>11 DEF CmdInv

(* A write is applied under an operator's signature on this very change,   *)
(* once a nonce, and never refused under one that is good: for any lines   *)
(* in any order.                                                           *)
THEOREM WritesFollowCommands == Spec => []WritesAreCommanded
<1>1. Init => CmdInv
  <2> SUFFICES ASSUME Init PROVE CmdInv
    OBVIOUS
  <2>1. usedCmd = {} /\ Writes = {}
    BY DEF Init, Writes
  <2> QED
    BY <2>1 DEF CmdInv, Applied, WritesAreCommanded
<1>2. StreamInv /\ CmdInv /\ [Next]_vars => CmdInv'
  <2> SUFFICES ASSUME StreamInv, CmdInv, [Next]_vars PROVE CmdInv'
    OBVIOUS
  <2>1. taken + 1 \in Nat
    BY DEF StreamInv
  <2> QED
    BY <2>1, StepKinds, QuietKeepsCommands, ReplyKeepsCommands
<1>3. CmdInv => WritesAreCommanded
  BY DEF CmdInv
<1> QED
  BY <1>1, <1>2, <1>3, StreamHolds, PTL DEF Spec

-----------------------------------------------------------------------------
(* Purification. *)

LEMMA OneLabel ==
    ASSUME NEW S, NEW x \in S
    PROVE  <<x>> \in Seq(S) /\ Len(<<x>>) = 1
<1>1. <<x>> = Append(<<>>, x)
  OBVIOUS
<1>2. <<>> \in Seq(S) /\ Len(<<>>) = 0
  BY EmptySeq
<1> QED
  BY <1>1, <1>2, AppendProperties

LEMMA LabelsBehind ==
    ASSUME NEW d \in Seq(STRING), NEW k \in 1 .. Len(d)
    PROVE  LastLabels(<<"www">> \o d, k) = LastLabels(d, k)
<1> DEFINE www == <<"www">>
           from == Len(d) - k + 1
           n == Len(d)
           L == STRING \cup {"www"}
<1>1. www \in Seq(L) /\ d \in Seq(L) /\ Len(www) = 1
  BY OneLabel, SeqMonotonic
<1> HIDE DEF www, L
<1>2. Len(www \o d) = n + 1 /\ n \in Nat
  <2>1. Len(www \o d) = Len(www) + Len(d) /\ n \in Nat
    BY <1>1, ConcatProperties, LenProperties
  <2> HIDE DEF n
  <2> QED
    BY <1>1, <2>1 DEF n
<1> HIDE DEF n
<1>3. /\ from \in Int /\ from \in 1 .. n /\ n \in 1 .. n
      /\ from + 1 \in 2 .. n + 1 /\ n + 1 \in 2 .. n + 1
      /\ (n + 1) - k + 1 = from + 1 /\ (from + 1) - 1 = from /\ (n + 1) - 1 = n
  BY <1>2 DEF n
<1> HIDE DEF from
<1>4. /\ from + 1 \in Len(www) + 1 .. Len(www) + Len(d)
      /\ n + 1 \in Len(www) + 1 .. Len(www) + Len(d)
  BY <1>1, <1>2, <1>3 DEF n
<1>5. SubSeq(www \o d, from + 1, n + 1) = SubSeq(d, (from + 1) - Len(www), (n + 1) - Len(www))
  BY <1>1, <1>4, SubSeqOfConcat2
<1>6. SubSeq(www \o d, from + 1, n + 1) = SubSeq(d, from, n)
  BY <1>1, <1>3, <1>5
<1>7. LastLabels(www \o d, k) = SubSeq(www \o d, from + 1, n + 1)
  BY <1>2, <1>3 DEF LastLabels
<1>8. LastLabels(d, k) = SubSeq(d, from, n)
  BY DEF LastLabels, from, n
<1> QED
  BY <1>6, <1>7, <1>8 DEF www

(* etld1 does not see the subdomain. *)
LEMMA SubdomainIsItsDomain ==
    ASSUME NEW d \in Seq(STRING)
    PROVE  /\ Etld1(Subdomain(d)) = Etld1(d)
           /\ Subdomain(d) = <<>> <=> d = <<>>
<1>1. CASE Len(d) < 2 \/ d \in MultiLabelTlds
  BY <1>1 DEF Subdomain
<1>2. CASE ~(Len(d) < 2 \/ d \in MultiLabelTlds)
  <2> DEFINE w == <<"www">> \o d
  <2>1. Subdomain(d) = w
    BY <1>2 DEF Subdomain
  <2>2. Len(d) \in Nat /\ Len(d) >= 2 /\ Len(w) = Len(d) + 1 /\ w # <<>> /\ d # <<>>
    BY <1>2
  <2>3. LastLabels(w, 2) = LastLabels(d, 2)
    BY <2>2, LabelsBehind
  <2>4. CASE Len(d) = 2
    <3>1. LastLabels(d, 2) = d
      BY <2>4 DEF LastLabels
    <3>2. LastLabels(w, 2) \notin MultiLabelTlds
      BY <1>2, <2>3, <3>1
    <3>3. Etld1(w) = LastLabels(w, 2)
      BY <2>2, <2>4, <3>2 DEF Etld1
    <3>4. Etld1(d) = d
      BY <2>4 DEF Etld1
    <3> QED
      BY <2>1, <2>2, <2>3, <3>1, <3>3, <3>4
  <2>5. CASE Len(d) # 2
    <3> DEFINE n == Len(d)
    <3> HIDE DEF w, n
    <3>1. n \in Nat /\ n >= 2 /\ n # 2 /\ Len(w) = n + 1
      BY <2>2, <2>5 DEF n
    <3>2. 3 \in 1 .. n /\ ~(Len(w) <= 2) /\ ~(n <= 2)
      BY <3>1
    <3>3. LastLabels(w, 3) = LastLabels(d, 3)
      BY <3>2, LabelsBehind DEF n, w
    <3>4. Etld1(w) = Etld1(d)
      BY <2>3, <3>2, <3>3 DEF Etld1, n
    <3> QED
      BY <2>1, <2>2, <3>4
  <2> QED
    BY <2>4, <2>5
<1> QED
  BY <1>1, <1>2

(* What the purification layer looks at of an entity. *)
Alike(e, f) ==
    /\ e.type = f.type /\ e.score = f.score /\ e.contradicts = f.contradicts
    /\ Etld1(e.source) = Etld1(f.source) /\ (e.source = <<>> <=> f.source = <<>>)

AlikeGraphs(g, h) ==
    DOMAIN g.ents = DOMAIN h.ents /\ \A n \in DOMAIN g.ents : Alike(g.ents[n], h.ents[n])

LEMMA AlikeOrigins ==
    ASSUME NEW g, NEW h, AlikeGraphs(g, h), NEW ids \in SUBSET DOMAIN g.ents
    PROVE  WithProvenance(g, ids) = WithProvenance(h, ids) /\ Origins(g, ids) = Origins(h, ids)
<1>1. \A n \in ids : Alike(g.ents[n], h.ents[n])
  BY DEF AlikeGraphs
<1>2. WithProvenance(g, ids) = WithProvenance(h, ids) /\ WithProvenance(g, ids) \subseteq ids
  BY <1>1 DEF WithProvenance, Alike
<1> DEFINE placed(k) == {x \in WithProvenance(k, ids) : k.ents[x].source # <<>>}
<1>3. placed(g) = placed(h) /\ placed(g) \subseteq ids
  BY <1>1, <1>2 DEF Alike
<1>4. Origins(g, ids) = {Etld1(g.ents[n].source) : n \in placed(g)}
  BY DEF Origins
<1>5. Origins(h, ids) = {Etld1(h.ents[n].source) : n \in placed(h)}
  BY DEF Origins
<1> HIDE DEF placed
<1>6. \A n \in placed(g) : Etld1(g.ents[n].source) = Etld1(h.ents[n].source)
  BY <1>1, <1>3 DEF Alike
<1>7. Origins(g, ids) = Origins(h, ids)
  BY <1>3, <1>4, <1>5, <1>6
<1> QED
  BY <1>2, <1>7

Poisons == {"insufficient_source_diversity", "internal_contradiction",
            "unearned_confidence", "total_graph_capture"}

(* The verdict, code by code. *)
LEMMA VerdictCodes ==
    ASSUME NEW g, NEW ids, NEW q, NEW c, NEW s
    PROVE  LET docs == WithProvenance(g, ids)
               all == WithProvenance(g, DOMAIN g.ents)
               few == Cardinality(Origins(g, ids)) < q
               V == PoisonViolations(g, ids, q, c, s)
           IN  /\ V \subseteq Poisons
               /\ "insufficient_source_diversity" \in V <=> docs # {} /\ few
               /\ "internal_contradiction" \in V <=>
                     \E n \in ids : g.ents[n].contradicts \cap ids # {}
               /\ "unearned_confidence" \in V <=>
                     few /\ \E n \in docs : g.ents[n].score >= s /\ g.ents[n].source # <<>>
               /\ "total_graph_capture" \in V <=>
                     few /\ all # {} /\ 10 * Cardinality(docs) >= c * Cardinality(all)
<1> DEFINE docs == WithProvenance(g, ids)
           all == WithProvenance(g, DOMAIN g.ents)
           few == Cardinality(Origins(g, ids)) < q
           diverse == docs # {} /\ few
           torn == \E n \in ids : g.ents[n].contradicts \cap ids # {}
           sure == few /\ \E n \in docs : g.ents[n].score >= s /\ g.ents[n].source # <<>>
           held == few /\ all # {} /\ 10 * Cardinality(docs) >= c * Cardinality(all)
           V == PoisonViolations(g, ids, q, c, s)
<1>1. V = {v \in Poisons :
             CASE v = "insufficient_source_diversity" -> diverse
               [] v = "internal_contradiction" -> torn
               [] v = "unearned_confidence" -> sure
               [] v = "total_graph_capture" -> held}
  BY DEF PoisonViolations, Poisons
<1> HIDE DEF diverse, torn, sure, held, V
<1>2. /\ V \subseteq Poisons
      /\ "insufficient_source_diversity" \in V <=> diverse
      /\ "internal_contradiction" \in V <=> torn
      /\ "unearned_confidence" \in V <=> sure
      /\ "total_graph_capture" \in V <=> held
  BY <1>1 DEF Poisons
<1> QED
  BY <1>2, Zenon DEF diverse, torn, sure, held, V

LEMMA AlikeVerdicts ==
    ASSUME NEW g, NEW h, AlikeGraphs(g, h), NEW ids \in SUBSET DOMAIN g.ents, NEW q, NEW c, NEW s
    PROVE  PoisonViolations(g, ids, q, c, s) = PoisonViolations(h, ids, q, c, s)
<1>1. /\ WithProvenance(g, ids) = WithProvenance(h, ids)
      /\ Origins(g, ids) = Origins(h, ids)
      /\ WithProvenance(g, DOMAIN g.ents) = WithProvenance(h, DOMAIN h.ents)
      /\ WithProvenance(g, ids) \subseteq ids
  BY AlikeOrigins DEF AlikeGraphs, WithProvenance
<1>2. \A n \in ids : Alike(g.ents[n], h.ents[n])
  BY DEF AlikeGraphs
<1> DEFINE V == PoisonViolations(g, ids, q, c, s)
           W == PoisonViolations(h, ids, q, c, s)
<1>3. V \subseteq Poisons /\ W \subseteq Poisons
  BY VerdictCodes
<1>4. "insufficient_source_diversity" \in V <=> "insufficient_source_diversity" \in W
  BY <1>1, VerdictCodes
<1>5. "internal_contradiction" \in V <=> "internal_contradiction" \in W
  <2>1. (\E n \in ids : g.ents[n].contradicts \cap ids # {})
        <=> (\E n \in ids : h.ents[n].contradicts \cap ids # {})
    BY <1>2 DEF Alike
  <2> QED
    BY <2>1, VerdictCodes
<1>6. "unearned_confidence" \in V <=> "unearned_confidence" \in W
  <2> DEFINE docs == WithProvenance(g, ids)
  <2>1. (\E n \in docs : g.ents[n].score >= s /\ g.ents[n].source # <<>>)
        <=> (\E n \in docs : h.ents[n].score >= s /\ h.ents[n].source # <<>>)
    BY <1>1, <1>2 DEF Alike
  <2> QED
    BY <1>1, <2>1, VerdictCodes
<1>7. "total_graph_capture" \in V <=> "total_graph_capture" \in W
  BY <1>1, VerdictCodes
<1> HIDE DEF V, W
<1>8. \A v \in Poisons : v \in V <=> v \in W
  BY <1>4, <1>5, <1>6, <1>7, Zenon DEF Poisons
<1>9. V = W
  BY <1>3, <1>8
<1> QED
  BY <1>9 DEF V, W

LEMMA MovedEntities ==
    ASSUME NEW g, IsGraph(g), NEW n \in DOMAIN g.ents, NEW d
    PROVE  /\ DOMAIN Moved(g, n, d).ents = DOMAIN g.ents
           /\ \A x \in DOMAIN g.ents :
                 Moved(g, n, d).ents[x] =
                     IF x = n THEN [g.ents[n] EXCEPT !.source = d] ELSE g.ents[x]
<1>1. g = [ents |-> g.ents, adj |-> g.adj] /\ g.ents = [x \in DOMAIN g.ents |-> g.ents[x]]
  BY DEF IsGraph
<1>2. Moved(g, n, d) = [g EXCEPT !.ents = [g.ents EXCEPT ![n] = [g.ents[n] EXCEPT !.source = d]]]
  BY DEF Moved
<1>3. Moved(g, n, d).ents = [g.ents EXCEPT ![n] = [g.ents[n] EXCEPT !.source = d]]
  BY <1>1, <1>2
<1> QED
  BY <1>1, <1>3

LEMMA MovedAlike ==
    ASSUME NEW g, IsGraph(g), NEW n \in DOMAIN g.ents, NEW d \in Seq(STRING)
    PROVE  /\ AlikeGraphs(Moved(g, n, d), Moved(g, n, Subdomain(d)))
           /\ DOMAIN Moved(g, n, d).ents = DOMAIN g.ents
<1> DEFINE D == DOMAIN g.ents
           a == Moved(g, n, d)
           b == Moved(g, n, Subdomain(d))
<1>1. /\ DOMAIN a.ents = D /\ DOMAIN b.ents = D
      /\ \A x \in D : a.ents[x] = IF x = n THEN [g.ents[n] EXCEPT !.source = d] ELSE g.ents[x]
      /\ \A x \in D : b.ents[x] =
            IF x = n THEN [g.ents[n] EXCEPT !.source = Subdomain(d)] ELSE g.ents[x]
  BY MovedEntities
<1>2. IsEntity(g.ents[n])
  BY DEF IsGraph
<1>3. Alike([g.ents[n] EXCEPT !.source = d], [g.ents[n] EXCEPT !.source = Subdomain(d)])
  <2> DEFINE e == g.ents[n]
             u == [e EXCEPT !.source = d]
             v == [e EXCEPT !.source = Subdomain(d)]
  <2>1. /\ u.type = v.type /\ u.score = v.score /\ u.contradicts = v.contradicts
        /\ u.source = d /\ v.source = Subdomain(d)
    BY <1>2 DEF IsEntity
  <2> HIDE DEF u, v
  <2>2. Alike(u, v)
    BY <2>1, SubdomainIsItsDomain DEF Alike
  <2> QED
    BY <2>2 DEF u, v
<1> HIDE DEF a, b
<1>4. \A x \in D : Alike(a.ents[x], b.ents[x])
  <2> TAKE x \in D
  <2>1. CASE x = n
    BY <1>1, <1>3, <2>1
  <2>2. CASE x # n
    BY <1>1, <2>2 DEF Alike
  <2> QED
    BY <2>1, <2>2
<1> QED
  BY <1>1, <1>4 DEF AlikeGraphs, a, b

(* The origins are no more than the entities they are read from. *)
LEMMA OriginsCounted ==
    ASSUME NEW g, IsGraph(g), NEW ids \in SUBSET DOMAIN g.ents
    PROVE  /\ Cardinality(Origins(g, ids)) \in Nat
           /\ Cardinality(WithProvenance(g, ids)) \in Nat
           /\ WithProvenance(g, ids) = {} => Cardinality(WithProvenance(g, ids)) = 0
           /\ WithProvenance(g, ids) # {} => Cardinality(WithProvenance(g, ids)) > 0
<1> DEFINE docs == WithProvenance(g, ids)
           placed == {x \in docs : g.ents[x].source # <<>>}
           from == [n \in placed |-> Etld1(g.ents[n].source)]
<1>1. docs \subseteq DOMAIN g.ents /\ IsFiniteSet(DOMAIN g.ents)
  BY DEF WithProvenance, IsGraph
<1>2. IsFiniteSet(docs)
  BY <1>1, FS_Subset
<1>3. IsFiniteSet(placed)
  BY <1>2, FS_Subset
<1>4. Origins(g, ids) = {Etld1(g.ents[n].source) : n \in placed}
  BY DEF Origins
<1>5. from \in Surjection(placed, Origins(g, ids))
  BY <1>4 DEF Surjection
<1> HIDE DEF docs, placed, from
<1>6. IsFiniteSet(Origins(g, ids))
  BY <1>3, <1>5, FS_Surjection
<1>7. Cardinality(Origins(g, ids)) \in Nat /\ Cardinality(docs) \in Nat
  BY <1>2, <1>6, FS_CardinalityType
<1>8. Cardinality(docs) = 0 <=> docs = {}
  BY <1>2, FS_EmptySet
<1> QED
  BY <1>7, <1>8 DEF docs

(* A record is clean when no code is in its verdict. *)
LEMMA CleanRecords ==
    ASSUME NEW g, IsGraph(g), NEW ids \in SUBSET DOMAIN g.ents
    PROVE  PoisonViolations(g, ids, 2, 9, 1) = {} <=>
              /\ WithProvenance(g, ids) # {} => Cardinality(Origins(g, ids)) >= 2
              /\ ~\E a, b \in ids : b \in g.ents[a].contradicts
<1> DEFINE V == PoisonViolations(g, ids, 2, 9, 1)
           docs == WithProvenance(g, ids)
           all == WithProvenance(g, DOMAIN g.ents)
           count == Cardinality(Origins(g, ids))
<1>1. /\ V \subseteq Poisons
      /\ "insufficient_source_diversity" \in V <=> docs # {} /\ count < 2
      /\ "internal_contradiction" \in V <=> \E n \in ids : g.ents[n].contradicts \cap ids # {}
      /\ "unearned_confidence" \in V => count < 2 /\ docs # {}
      /\ "total_graph_capture" \in V =>
            count < 2 /\ all # {} /\ 10 * Cardinality(docs) >= 9 * Cardinality(all)
  BY VerdictCodes
<1>2. /\ count \in Nat /\ Cardinality(docs) \in Nat /\ Cardinality(all) \in Nat
      /\ docs = {} => Cardinality(docs) = 0
      /\ all # {} => Cardinality(all) > 0
  BY OriginsCounted
<1>3. (\E n \in ids : g.ents[n].contradicts \cap ids # {})
      <=> \E a, b \in ids : b \in g.ents[a].contradicts
  OBVIOUS
<1> HIDE DEF V, docs, all, count
<1>4. "total_graph_capture" \in V => docs # {} /\ count < 2
  BY <1>1, <1>2
<1>5. V = {} <=> /\ "insufficient_source_diversity" \notin V /\ "internal_contradiction" \notin V
                 /\ "unearned_confidence" \notin V /\ "total_graph_capture" \notin V
  BY <1>1 DEF Poisons
<1>6. V = {} <=> /\ docs # {} => count >= 2
                 /\ ~\E n \in ids : g.ents[n].contradicts \cap ids # {}
  BY <1>1, <1>2, <1>4, <1>5
<1> QED
  BY <1>3, <1>6 DEF V, docs, count

(* On every record that is served, from any artifact and by any plan: the  *)
(* subdomains of a source count as that source, and the verdict is decided *)
(* by the origins and the contradictions alone.                            *)
THEOREM SubdomainsCountOnce == Spec => []SybilsCountOnce
<1>1. ASSUME ScopeInv PROVE SybilsCountOnce
  <2>1. IsGraph(graph)
    BY <1>1, LoadedIsGraph DEF ScopeInv, GraphInv
  <2> SUFFICES ASSUME NEW i \in LastRecord, NEW ids, ids = out[i].result.included
               PROVE  /\ \A n, m \in ids :
                           PoisonViolations(Moved(graph, n, graph.ents[m].source), ids, 2, 9, 1) =
                           PoisonViolations(Moved(graph, n, Subdomain(graph.ents[m].source)),
                                            ids, 2, 9, 1)
                      /\ PoisonViolations(graph, ids, 2, 9, 1) = {} <=>
                           /\ WithProvenance(graph, ids) # {} =>
                                 Cardinality(Origins(graph, ids)) >= 2
                           /\ ~\E a, b \in ids : b \in graph.ents[a].contradicts
    BY DEF SybilsCountOnce
  <2>2. i \in Reads /\ out[i].code = "result"
    BY DEF LastRecord
  <2>3. ids \in SUBSET DOMAIN graph.ents
    BY <1>1, <2>1, <2>2, ExecuteCounts DEF ScopeInv, ServedInv
  <2>4. ASSUME NEW n \in ids, NEW m \in ids
        PROVE  PoisonViolations(Moved(graph, n, graph.ents[m].source), ids, 2, 9, 1) =
               PoisonViolations(Moved(graph, n, Subdomain(graph.ents[m].source)), ids, 2, 9, 1)
    <3>1. graph.ents[m].source \in Seq(STRING)
      BY <2>1, <2>3 DEF IsGraph, IsEntity
    <3>2. n \in DOMAIN graph.ents
      BY <2>3
    <3> QED
      BY <2>1, <2>3, <3>1, <3>2, MovedAlike, AlikeVerdicts
  <2>5. PoisonViolations(graph, ids, 2, 9, 1) = {} <=>
           /\ WithProvenance(graph, ids) # {} => Cardinality(Origins(graph, ids)) >= 2
           /\ ~\E a, b \in ids : b \in graph.ents[a].contradicts
    BY <2>1, <2>3, CleanRecords
  <2> QED
    BY <2>4, <2>5
<1> QED
  BY <1>1, ScopeHolds, PTL
=============================================================================
