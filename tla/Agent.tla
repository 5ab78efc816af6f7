------------------------------- MODULE Agent -------------------------------
(***************************************************************************)
(* The agent server (src/src/sempkg_agent/sempkg_agent): the runs of one   *)
(* process over sempkg's tools, the conversations they share through the   *)
(* checkpointer, the verification of what they cite, and what the callers  *)
(* of its three kinds of transport get to see.                             *)
(*                                                                         *)
(* A run is one turn: agent.ask or agent.astream.  The loop of model and   *)
(* tools belongs to LangGraph; it is modelled from its use here: it starts *)
(* from the newest checkpoint of its thread, keeps its own messages and    *)
(* writes them as the newest checkpoint after each of its steps.  Two runs *)
(* of one thread therefore overwrite each other's checkpoints.             *)
(***************************************************************************)
EXTENDS Integers, Sequences, FiniteSets, SequencesExt

CONSTANTS
    Runs,       \* the turns that are asked for
    Sessions,   \* conversation ids: REST's session_id, A2A's contextId
    Requests,   \* what may be asked: a set of functions from runs to
                \* [wire, session, cap] and the sets of tools (`rounds`) their
                \* models may call at once
    Tools,      \* the tools the warm MCP session offers
    Lines,      \* significant lines of text
    Told,       \* [Tools -> SUBSET Lines]: which lines occur in its answer
    Citations,  \* sequences of snippets, each the Lines of a finding
    MaxRounds,  \* rounds of tool calls before the recursion limit
    Talks,      \* whether a message of the model has text: values it may take
    Claims,     \* what models write into `verified` of one finding after
                \* the other
    DefaultCap, \* settings.agent.max_findings
    MaxRestarts \* restarts of the server

Transports == {"ask", "stream", "a2a"}
MaxFindings == 50   \* ContextRequest: ge=1, le=50
Marks == {"unset", "true", "false"}     \* of Finding.verified

ASSUME RequestsAssumption ==
    \A asked \in Requests : \A r \in DOMAIN asked :
        /\ r \in Runs
        /\ asked[r].wire \in Transports /\ asked[r].session \in Sessions
        /\ asked[r].cap \in 0 .. MaxFindings + 1
        /\ asked[r].rounds \subseteq SUBSET Tools
ASSUME SessionsAssumption == Sessions # {}
ASSUME ToolsAssumption == IsFiniteSet(Tools) /\ Told \in [Tools -> SUBSET Lines]
ASSUME CitationsAssumption ==
    /\ Citations \subseteq Seq(Seq(Lines)) /\ Claims \subseteq Seq(Marks)
    /\ \A c \in Citations : \A claim \in Claims : Len(claim) >= Len(c)
ASSUME BoundsAssumption ==
    MaxRounds \in Nat /\ MaxRestarts \in Nat /\ DefaultCap \in Nat \ {0}

VARIABLES
    durable,    \* the checkpointer is the SQLite one
    checkpoint, \* [Sessions -> messages]: the newest checkpoint of a thread
    phase,      \* [Runs -> where its coroutine stands]
    wire,       \* [Runs -> the transport it came by]
    session,    \* [Runs -> its thread id]
    cap,        \* [Runs -> the cap of its findings, 0 for none given]
    choice,     \* [Runs -> the sets of tools its model may call at once]
    messages,   \* [Runs -> the messages LangGraph works on]
    calls,      \* [Runs -> state of the tool calls of this round]
    rounds,     \* [Runs -> rounds of tool calls so far]
    answer,     \* [Runs -> the structured answer or the error]
    queue,      \* [Runs -> events on their way to the caller]
    seen,       \* [Runs -> events the caller has received, while it stays]
    restarts,   \* restarts so far
    own,        \* history: [Runs -> lines its tools told it]
    shared,     \* history: [Runs -> another run of its session overlapped]
    emitted,    \* history: [Runs -> what the callbacks reported]
    checked     \* history: the runs whose citations were checked

server == <<durable, restarts>>
request == <<wire, session, cap, choice>>
history == <<own, shared, emitted, checked>>
vars == <<server, checkpoint, phase, request, messages, calls, rounds,
          answer, queue, seen, history>>

None == [kind |-> "none"]
Ended == {"replied", "gone", "crashed"}
Active(r) == phase[r] \notin {"idle"} \cup Ended

-----------------------------------------------------------------------------
(* Messages, evidence and the verdict on a citation                        *)

Message(kind, lines) == [kind |-> kind, lines |-> lines]
Event(type, about) == [type |-> type, about |-> about]
Done == Event("_STREAM_DONE", {})
Findings(snippets) ==
    {[i \in DOMAIN snippets |-> [lines |-> snippets[i], verified |-> claim[i]]] :
        claim \in Claims}
Answers == [kind : {"clarification", "context_result"},
            findings : UNION {Findings(c) : c \in Citations}]
Failure == [kind |-> "error"]

\* Mutant of Evidence: one result for each message of the model.
EvidenceFirst(history_) ==
    UNION {history_[i].lines : i \in {j \in DOMAIN history_ :
                /\ history_[j].kind = "result"
                /\ j > 1 => history_[j - 1].kind # "result"}}
(* What the tools of a thread's history have told, as one text.            *)
Evidence(history_) ==
    UNION {history_[i].lines : i \in {j \in DOMAIN history_ :
                                        history_[j].kind = "result"}}

\* A line matches where it occurs in the text; one that only occurs across
\* the seam of two answers is left out.
Matched(snippet, corpus) ==
    Cardinality({i \in DOMAIN snippet : snippet[i] \in corpus})
\* Mutant of Enough: a threshold of a half.
EnoughHalf(snippet, corpus) == 2 * Matched(snippet, corpus) >= Len(snippet)
(* At least the threshold of 0.6 of the snippet's significant lines.       *)
Enough(snippet, corpus) == 5 * Matched(snippet, corpus) >= 3 * Len(snippet)
(* No text at all: the message of a tool that failed is some.              *)
Silent(history_) ==
    /\ Evidence(history_) = {}
    /\ \A i \in DOMAIN history_ : history_[i].kind # "error"
Verdict(snippet, history_) ==
    IF Silent(history_) \/ snippet = <<>> THEN "unset"
    ELSE IF Enough(snippet, Evidence(history_)) THEN "true" ELSE "false"
VerifyFindings(findings, history_) ==
    [i \in DOMAIN findings |->
        [findings[i] EXCEPT !.verified = Verdict(findings[i].lines, history_)]]

Coerced(a) == [a EXCEPT !.kind = "context_result"]
Capped(r, findings) ==
    LET most == IF cap[r] = 0 THEN DefaultCap ELSE cap[r]   \* 0: not given
    IN  SubSeq(findings, 1, IF Len(findings) > most THEN most ELSE Len(findings))

-----------------------------------------------------------------------------
(* What a caller is sent at the end of its run                             *)

StreamClosing(a) ==
    <<Event(IF a.kind = "context_result" THEN "final" ELSE a.kind, a),
      Event("done", {})>>
TaskClosing(a) ==
    CASE a.kind = "error" -> <<Event("failed", a)>>
      [] a.kind = "clarification" ->
            <<Event("input_required", a), Event("artifact", a)>>
      [] OTHER -> <<Event("artifact", a), Event("completed", a)>>
ReplyClosing(a) == <<Event(IF a.kind = "error" THEN "502" ELSE "200", a)>>

\* Mutant of Close: no sentinel when the run fails.
CloseQuietly(r, a) ==
    /\ answer' = [answer EXCEPT ![r] = a]
    /\ messages' = [messages EXCEPT ![r] = <<>>]
    /\ calls' = [calls EXCEPT ![r] = <<>>]
    /\ phase' = [phase EXCEPT ![r] = IF wire[r] = "detached" THEN "gone" ELSE "closing"]
    /\ queue' = [queue EXCEPT ![r] =
                    CASE wire[r] = "detached" \/ a.kind = "error" -> <<>>
                      [] wire[r] = "stream" -> Append(@, Done)
                      [] wire[r] = "a2a" -> TaskClosing(a)
                      [] OTHER -> ReplyClosing(a)]
(* The coroutine of a run is over; nobody listens to a detached one.       *)
Close(r, a) ==
    /\ answer' = [answer EXCEPT ![r] = a]
    /\ messages' = [messages EXCEPT ![r] = <<>>]
    /\ calls' = [calls EXCEPT ![r] = <<>>]
    /\ phase' = [phase EXCEPT ![r] =
                    IF wire[r] = "detached" THEN "gone" ELSE "closing"]
    /\ queue' = [queue EXCEPT ![r] =
                    CASE wire[r] = "detached" -> <<>>
                      [] wire[r] = "stream" -> Append(@, Done)
                      [] wire[r] = "a2a" -> TaskClosing(a)
                      [] OTHER -> ReplyClosing(a)]

(* The callbacks of a stream put their events on its queue.                *)
Report(r, events) ==
    IF wire[r] = "stream"
    THEN /\ emitted' = [emitted EXCEPT ![r] = @ \o events]
         /\ queue' = [queue EXCEPT ![r] = @ \o events]
    ELSE UNCHANGED <<emitted, queue>>

(* LangGraph ends a step: the run's messages are the newest checkpoint.    *)
Save(r, new) ==
    /\ messages' = [messages EXCEPT ![r] = @ \o new]
    /\ checkpoint' = [checkpoint EXCEPT ![session[r]] = messages'[r]]

-----------------------------------------------------------------------------
Init ==
    /\ durable \in BOOLEAN
    /\ restarts = 0
    /\ checkpoint = [s \in Sessions |-> <<>>]
    /\ \E asked \in Requests :
          LET here == DOMAIN asked IN
          /\ phase = [r \in Runs |-> IF r \in here THEN "idle" ELSE "gone"]
          /\ wire = [r \in Runs |-> IF r \in here THEN asked[r].wire ELSE "detached"]
          /\ session = [r \in Runs |-> IF r \in here THEN asked[r].session
                                       ELSE CHOOSE s \in Sessions : TRUE]
          /\ cap = [r \in Runs |-> IF r \in here THEN asked[r].cap ELSE 0]
          /\ choice = [r \in Runs |-> IF r \in here THEN asked[r].rounds ELSE {}]
    /\ messages = [r \in Runs |-> <<>>]
    /\ calls = [r \in Runs |-> <<>>]
    /\ rounds = [r \in Runs |-> 0]
    /\ answer = [r \in Runs |-> None]
    /\ queue = [r \in Runs |-> <<>>]
    /\ seen = [r \in Runs |-> <<>>]
    /\ own = [r \in Runs |-> {}]
    /\ shared = [r \in Runs |-> FALSE]
    /\ emitted = [r \in Runs |-> <<>>]
    /\ checked = {}

Requested(r, w, first, next) ==
    /\ phase[r] = "idle" /\ wire[r] = w
    /\ phase' = [phase EXCEPT ![r] = next]
    /\ seen' = [seen EXCEPT ![r] = first]
    /\ UNCHANGED <<server, checkpoint, request, messages, calls, rounds,
                   answer, queue, history>>

(* POST /v1/ask and the MCP tool: no event before the reply.  A cap out of *)
(* range is refused by AskRequest.                                         *)
AskOnce(r) ==
    /\ cap[r] \in 0..MaxFindings
    /\ Requested(r, "ask", <<>>, "begun")

(* POST /v1/ask/stream: the status comes before the task of the run.       *)
AskStream(r) ==
    /\ cap[r] \in 0..MaxFindings
    /\ Requested(r, "stream", <<Event("status", {})>>, "opened")

(* A2A: a message without prompt and package is answered at once; the cap  *)
(* comes unchecked from the data part, and one that ContextRequest refuses *)
(* raises before the try: no further status.                               *)
AskTask(r) ==
    \/ Requested(r, "a2a", <<Event("working", {}), Event("input_required", {})>>,
                 "replied")
    \/ /\ cap[r] \in 0..MaxFindings
       /\ Requested(r, "a2a", <<Event("working", {})>>, "begun")
    \/ /\ cap[r] \notin 0..MaxFindings
       /\ Requested(r, "a2a", <<Event("working", {})>>, "crashed")

(* The reader of a stream has taken the status: the task is created.       *)
Resume(r) ==
    /\ phase[r] = "opened"
    /\ phase' = [phase EXCEPT ![r] = "begun"]
    /\ UNCHANGED <<server, checkpoint, request, messages, calls, rounds,
                   answer, queue, seen, history>>

Running(r) == phase[r] \in {"model", "tools", "synthesis", "finalize"}
Others(r) == {q \in Runs \ {r} : session[q] = session[r] /\ Running(q)}

\* Mutant of Begin: a turn starts from its prompt alone.
BeginAnew(r) ==
    /\ phase[r] = "begun"
    /\ phase' = [phase EXCEPT ![r] = "model"]
    /\ messages' = [messages EXCEPT ![r] = <<Message("human", {})>>]
    /\ checkpoint' = [checkpoint EXCEPT ![session[r]] = messages'[r]]
    /\ shared' = [q \in Runs |-> \/ shared[q]
                                 \/ q \in Others(r)
                                 \/ q = r /\ Others(r) # {}]
    /\ UNCHANGED <<server, request, calls, rounds, answer, queue, seen, own,
                   emitted, checked>>
(* graph.ainvoke: the thread's newest checkpoint and the prompt.           *)
Begin(r) ==
    /\ phase[r] = "begun"
    /\ phase' = [phase EXCEPT ![r] = "model"]
    /\ messages' = [messages EXCEPT ![r] =
                        Append(checkpoint[session[r]], Message("human", {}))]
    /\ checkpoint' = [checkpoint EXCEPT ![session[r]] = messages'[r]]
    /\ shared' = [q \in Runs |-> \/ shared[q]
                                 \/ q \in Others(r)
                                 \/ q = r /\ Others(r) # {}]
    /\ UNCHANGED <<server, request, calls, rounds, answer, queue, seen, own,
                   emitted, checked>>

(* on_llm_end: the text of a message, unless there is none or it is the    *)
(* structured answer.                                                      *)
Reasoning == {IF spoken THEN <<Event("reasoning", {})>> ELSE <<>> : spoken \in Talks}

(* The model asks for tools, one or several at once.                       *)
CallTools(r) ==
    /\ phase[r] = "model"
    /\ rounds[r] < MaxRounds
    /\ \E round \in choice[r] \ {{}} :
          calls' = [calls EXCEPT ![r] = [t \in round |-> "requested"]]
    /\ phase' = [phase EXCEPT ![r] = "tools"]
    /\ Save(r, <<Message("calls", {})>>)
    /\ \E text \in Reasoning : Report(r, text)
    /\ UNCHANGED <<server, request, rounds, answer, seen, own, shared, checked>>

ToolMoves(r, t, from, to, type) ==
    /\ phase[r] = "tools"
    /\ t \in DOMAIN calls[r]
    /\ calls[r][t] = from
    /\ calls' = [calls EXCEPT ![r][t] = to]
    /\ Report(r, <<Event(type, t)>>)
    /\ UNCHANGED <<server, checkpoint, phase, request, messages, rounds,
                   answer, seen, shared, checked>>

StartTool(r, t) ==
    /\ ToolMoves(r, t, "requested", "running", "tool_call")
    /\ UNCHANGED own
EndTool(r, t) ==
    /\ ToolMoves(r, t, "running", "told", "tool_result")
    /\ own' = [own EXCEPT ![r] = @ \cup Told[t]]
FailTool(r, t) ==
    /\ ToolMoves(r, t, "running", "failed", "tool_error")
    /\ UNCHANGED own

(* All calls of the round are back: their results are messages, in the     *)
(* order of the calls.                                                     *)
Results(r) ==
    LET order == SetToSeq(DOMAIN calls[r])
    IN  [i \in DOMAIN order |->
            IF calls[r][order[i]] = "told"
            THEN Message("result", Told[order[i]]) ELSE Message("error", {})]
Gather(r) ==
    /\ phase[r] = "tools"
    /\ \A t \in DOMAIN calls[r] : calls[r][t] \in {"told", "failed"}
    /\ Save(r, Results(r))
    /\ calls' = [calls EXCEPT ![r] = <<>>]
    /\ rounds' = [rounds EXCEPT ![r] = @ + 1]
    /\ phase' = [phase EXCEPT ![r] = "model"]
    /\ UNCHANGED <<server, request, answer, queue, seen, history>>

(* GraphRecursionError: the answer is to be forced from what is there.     *)
HitLimit(r) ==
    /\ phase[r] = "model"
    /\ rounds[r] = MaxRounds
    /\ phase' = [phase EXCEPT ![r] = "synthesis"]
    /\ UNCHANGED <<server, checkpoint, request, messages, calls, rounds,
                   answer, queue, seen, history>>

(* The model has answered in words and then in the structured form.        *)
Converge(r) ==
    /\ phase[r] = "model"
    /\ \E a \in Answers : answer' = [answer EXCEPT ![r] = a]
    /\ phase' = [phase EXCEPT ![r] = "finalize"]
    /\ Save(r, <<Message("reply", {})>>)
    /\ \E text \in Reasoning : Report(r, text)
    /\ UNCHANGED <<server, request, calls, rounds, seen, own, shared, checked>>

(* One structured answer over the evidence, outside the graph: the thread  *)
(* does not hear of it.                                                    *)
Synthesize(r) ==
    /\ phase[r] = "synthesis"
    /\ \E a \in Answers : answer' = [answer EXCEPT ![r] = Coerced(a)]
    /\ phase' = [phase EXCEPT ![r] = "finalize"]
    /\ UNCHANGED <<server, checkpoint, request, messages, calls, rounds,
                   queue, seen, history>>

(* Whatever raises in the run: the provider, a tool's error that is not    *)
(* handed to the model, an answer that is not structured.                  *)
Fail(r) ==
    /\ phase[r] \in {"model", "tools", "synthesis"}
    /\ Close(r, Failure)
    /\ UNCHANGED <<server, checkpoint, request, rounds, seen, history>>

(* Cap the findings and verify them against the newest checkpoint of the   *)
(* thread, read after an await; when that read fails, or checking is       *)
(* switched off, they go out as the model wrote them.                      *)
Finalize(r) ==
    /\ phase[r] = "finalize"
    /\ LET a == answer[r]
           findings == Capped(r, a.findings)
       IN  \/ /\ a.kind = "clarification"
              /\ Close(r, [a EXCEPT !.findings = <<>>])
              /\ UNCHANGED checked
           \/ /\ a.kind # "clarification"
              /\ Close(r, [a EXCEPT !.findings =
                              VerifyFindings(findings, checkpoint[session[r]])])
              /\ checked' = checked \cup {r}
           \/ /\ a.kind # "clarification"
              /\ findings # <<>>
              /\ Close(r, [a EXCEPT !.findings = findings])
              /\ UNCHANGED checked
    /\ UNCHANGED <<server, checkpoint, request, rounds, seen, own, shared,
                   emitted>>

(* One event reaches the caller.                                           *)
Deliver(r) ==
    /\ queue[r] # <<>>
    /\ Head(queue[r]) # Done
    /\ seen' = [seen EXCEPT ![r] = Append(@, Head(queue[r]))]
    /\ queue' = [queue EXCEPT ![r] = Tail(@)]
    /\ phase' = [phase EXCEPT ![r] =
                    IF @ = "closing" /\ Tail(queue[r]) = <<>> THEN "replied" ELSE @]
    /\ UNCHANGED <<server, checkpoint, request, messages, calls, rounds,
                   answer, history>>

\* Mutant of Join: the stream ends with the task, whatever is still queued.
JoinAtOnce(r) ==
    /\ \E i \in DOMAIN queue[r] : queue[r][i] = Done
    /\ queue' = [queue EXCEPT ![r] = StreamClosing(answer[r])]
    /\ UNCHANGED <<server, checkpoint, phase, request, messages, calls,
                   rounds, answer, seen, history>>
(* The sentinel: the stream waits for the task and sends the outcome.      *)
Join(r) ==
    /\ queue[r] # <<>>
    /\ Head(queue[r]) = Done
    /\ queue' = [queue EXCEPT ![r] = StreamClosing(answer[r])]
    /\ UNCHANGED <<server, checkpoint, phase, request, messages, calls,
                   rounds, answer, seen, history>>

(* The caller disconnects or cancels its task.  The coroutine may be       *)
(* cancelled with it; if not, it goes on and its events reach nobody.      *)
Leave(r) ==
    /\ Active(r) /\ wire[r] # "detached"
    /\ seen' = [seen EXCEPT ![r] =
                    IF wire[r] = "a2a" THEN <<Event("canceled", {})>> ELSE <<>>]
    /\ queue' = [queue EXCEPT ![r] = <<>>]
    /\ \/ /\ phase' = [phase EXCEPT ![r] = "gone"]
          /\ UNCHANGED wire
       \/ /\ Running(r) \/ phase[r] = "begun"
          /\ wire' = [wire EXCEPT ![r] = "detached"]
          /\ UNCHANGED phase
    /\ emitted' = [emitted EXCEPT ![r] = <<>>]
    /\ UNCHANGED <<server, checkpoint, session, cap, choice, messages, calls,
                   rounds, answer, own, shared, checked>>

(* The server restarts: every run is lost, and so are the conversations    *)
(* unless they are in the SQLite store.                                    *)
Restart ==
    /\ restarts < MaxRestarts
    /\ restarts' = restarts + 1
    /\ phase' = [r \in Runs |-> IF Active(r) THEN "gone" ELSE phase[r]]
    /\ queue' = [r \in Runs |-> <<>>]
    /\ messages' = [r \in Runs |-> <<>>]
    /\ calls' = [r \in Runs |-> <<>>]
    /\ seen' = [r \in Runs |-> IF Active(r) THEN <<>> ELSE seen[r]]
    /\ emitted' = [r \in Runs |-> IF Active(r) THEN <<>> ELSE emitted[r]]
    /\ checkpoint' = IF durable THEN checkpoint ELSE [s \in Sessions |-> <<>>]
    /\ UNCHANGED <<durable, request, rounds, answer, own, shared, checked>>

(* What the event loop, the model and the reader do for a run.             *)
Advance(r) ==
    \/ Resume(r) \/ Begin(r) \/ CallTools(r) \/ Gather(r) \/ HitLimit(r)
    \/ Converge(r) \/ Synthesize(r) \/ Finalize(r) \/ Deliver(r) \/ Join(r)
    \/ \E t \in Tools : StartTool(r, t)

(* Every step of a run and its reader but the caller's decisions.          *)
Step(r) ==
    \/ Advance(r) \/ Fail(r)
    \/ \E t \in Tools : EndTool(r, t) \/ FailTool(r, t)

(* Nobody asks any more.                                                   *)
Settled == (\A r \in Runs : phase[r] \in Ended) /\ UNCHANGED vars

Next ==
    \/ \E r \in Runs : AskOnce(r) \/ AskStream(r) \/ AskTask(r) \/ Step(r) \/ Leave(r)
    \/ Restart
    \/ Settled

(* The event loop serves every coroutine, a request to the model ends      *)
(* (llm.request_timeout) with an answer or as a failure, the rounds are    *)
(* limited, and a caller that stays reads.  No fairness makes a tool end:  *)
(* nothing in the code limits the time of a tool's call.                   *)
Spec == Init /\ [][Next]_vars /\ \A r \in Runs : WF_vars(Advance(r))

-----------------------------------------------------------------------------
(* Type invariant.                                                         *)
TypeOK ==
    /\ durable \in BOOLEAN /\ restarts \in 0..MaxRestarts
    /\ \A r \in Runs :
        /\ phase[r] \in Ended \cup {"idle", "opened", "begun", "model", "tools",
                                    "synthesis", "finalize", "closing"}
        /\ wire[r] \in Transports \cup {"detached"}
        /\ session[r] \in Sessions /\ cap[r] \in 0..MaxFindings + 1
        /\ rounds[r] \in 0..MaxRounds
        /\ DOMAIN calls[r] \subseteq Tools
        /\ answer[r].kind \in {"none", "error", "clarification", "context_result"}

ToldIn(s) == UNION {own[q] : q \in {p \in Runs : session[p] = s}}
Closed(r) == phase[r] \in {"closing", "replied"} /\ answer[r].kind # "none"

(* A stream that its reader stays with delivers all that the callbacks     *)
(* reported, each result after its call, between the status and one        *)
(* outcome, which is the run's, and `done` (agent.py astream).             *)
StreamIsWhole ==
    \A r \in Runs :
        wire[r] = "stream" /\ phase[r] = "replied" =>
            /\ seen[r] = <<Event("status", {})>> \o emitted[r]
                            \o StreamClosing(answer[r])
            /\ \A i \in DOMAIN seen[r] :
                  seen[r][i].type \in {"tool_result", "tool_error"} =>
                    \E j \in 1 .. i - 1 :
                        seen[r][j] = Event("tool_call", seen[r][i].about)

(* A citation that the check marks as verified has at least 60 % of its    *)
(* lines from what tools told in the session, whatever the model wrote     *)
(* into the mark, whoever ran at the same time, and also after a restart.  *)
(* The session: verify.py speaks of the evidence of the run, but the check *)
(* reads the thread, where earlier turns count as well.  A run without     *)
(* the check is the matter of CheckSetsVerified.                           *)
VerifiedIsGrounded ==
    \A r \in Runs :
        r \in checked /\ Closed(r) /\ answer[r].kind = "context_result" =>
            \A i \in DOMAIN answer[r].findings :
                LET f == answer[r].findings[i] IN
                f.verified = "true" =>
                    10 * Matched(f.lines, ToldIn(session[r])) >= 6 * Len(f.lines)

(* A citation made of lines that the run's own tools told is not flagged   *)
(* by the check as unconfirmed, whatever the model wrote into the mark,    *)
(* unless another run of the session was under way (verify.py).            *)
GroundedIsVerified ==
    \A r \in Runs :
        r \in checked /\ Closed(r) /\ ~shared[r] /\ answer[r].kind = "context_result" =>
            \A i \in DOMAIN answer[r].findings :
                ToSet(answer[r].findings[i].lines) \subseteq own[r] =>
                    answer[r].findings[i].verified # "false"

(* What schemas.py says of Finding.verified: it is set by the server's     *)
(* check and None without it, so a citation that goes out as verified has  *)
(* a line that a tool told.  The code lets a mark of the model out when    *)
(* checking is off or fails: no run lists this as holding.                 *)
CheckSetsVerified ==
    \A r \in Runs :
        Closed(r) /\ answer[r].kind = "context_result" =>
            \A i \in DOMAIN answer[r].findings :
                LET f == answer[r].findings[i] IN
                f.verified = "true" => Matched(f.lines, ToldIn(session[r])) > 0

(* A conversation only grows: a later turn, also one after a restart with  *)
(* the persistent store, adds to what earlier ones left.  Only runs that   *)
(* overlap in one session may cost each other their messages.              *)
ConversationGrows ==
    [][\A s \in Sessions :
          \/ IsPrefix(checkpoint[s], checkpoint'[s])
          \/ ~durable /\ restarts' # restarts
          \/ \E r \in Runs : session[r] = s /\ shared[r]]_vars

(* The cap is checked where the request is built, in A2A after the task's  *)
(* first status and outside the handler of errors.                         *)
CapRaises(r) == wire[r] = "a2a" /\ cap[r] \notin 0..MaxFindings
Waiting(r) == \E t \in DOMAIN calls[r] : calls[r][t] = "running"

(* Whoever asks, by whatever transport, and stays gets the end of the      *)
(* answer, whatever fails on the way: the reply, `done`, or a last status  *)
(* of the task.  There are two exceptions, which the code has: a task with *)
(* a cap that ContextRequest refuses gets none, and a run waits for ever   *)
(* for a tool that never ends.                                             *)
EveryRunReplies ==
    \A r \in Runs :
        phase[r] # "idle" /\ ~CapRaises(r)
            ~> (phase[r] \in {"replied", "gone"} \/ []Waiting(r))
=============================================================================
