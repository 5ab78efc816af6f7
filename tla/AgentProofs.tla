---------------------------- MODULE AgentProofs ----------------------------
(***************************************************************************)
(* The agent server for any number of runs, sessions, tools and findings.  *)
(*                                                                         *)
(* Sound is inductive: the types, what a run has at each place of its      *)
(* coroutine (Placed), and of each stream that what its reader has got and *)
(* what is still queued are together what the callbacks reported, with the *)
(* sentinel last (Streams).  Grounded adds what is known: no checkpoint    *)
(* holds more than the session's tools told (KnownIsTold); a run that is   *)
(* alone in its session works on the newest checkpoint (AloneInSession)    *)
(* and has, there or on the way, all that its own tools told it            *)
(* (ToldIsKept); so what is marked on the way out is right (SentOut).      *)
(***************************************************************************)
EXTENDS Agent, SequenceTheorems, FiniteSetTheorems, TLAPS

-----------------------------------------------------------------------------
(***************************************************************************)
(* The forms of a run's data.                                              *)
(***************************************************************************)
Phases == Ended \cup {"idle", "opened", "begun", "model", "tools", "synthesis",
                      "finalize", "closing"}
Wires == Transports \cup {"detached"}
CallStates == {"requested", "running", "told", "failed"}
Rounds == UNION {[S -> CallStates] : S \in SUBSET Tools}
MessageSet == [kind : {"human", "calls", "result", "error", "reply"}, lines : SUBSET Lines]
FindingSet == [lines : Seq(Lines), verified : Marks]
AnswerSet == [kind : {"clarification", "context_result"}, findings : Seq(FindingSet)]
Outcomes == AnswerSet \cup {Failure}
\* What the callbacks of a stream report, and all that is sent.
Reports == [type : {"reasoning", "tool_call", "tool_result", "tool_error"},
            about : Tools \cup {{}}]
EventTypes == {"status", "working", "canceled", "input_required", "reasoning",
               "tool_call", "tool_result", "tool_error", "final", "error",
               "clarification", "done", "_STREAM_DONE", "failed", "artifact",
               "completed", "502", "200"}
Events == [type : EventTypes, about : Tools \cup {{}} \cup Outcomes]

Types ==
  /\ durable \in BOOLEAN /\ restarts \in 0 .. MaxRestarts
  /\ checkpoint \in [Sessions -> Seq(MessageSet)]
  /\ phase \in [Runs -> Phases] /\ wire \in [Runs -> Wires]
  /\ session \in [Runs -> Sessions] /\ cap \in [Runs -> 0 .. MaxFindings + 1]
  /\ choice \in [Runs -> SUBSET SUBSET Tools]
  /\ messages \in [Runs -> Seq(MessageSet)]
  /\ calls \in [Runs -> Rounds] /\ rounds \in [Runs -> 0 .. MaxRounds]
  /\ answer \in [Runs -> Outcomes \cup {None}]
  /\ queue \in [Runs -> Seq(Events)] /\ seen \in [Runs -> Seq(Events)]
  /\ own \in [Runs -> SUBSET Lines] /\ shared \in [Runs -> BOOLEAN]
  /\ emitted \in [Runs -> Seq(Reports)]

\* What a run has at the places of its coroutine.
PlacedAt(r) ==
  /\ phase[r] = "finalize" => answer[r] \in AnswerSet
  /\ phase[r] = "closing" => answer[r] \in Outcomes
  /\ phase[r] \in {"idle", "opened", "begun"} => own[r] = {}
  /\ phase[r] = "tools" => rounds[r] < MaxRounds
  /\ phase[r] \in {"idle", "opened", "begun", "model", "synthesis", "finalize"} =>
       calls[r] = <<>>
Placed == \A r \in Runs : PlacedAt(r)

-----------------------------------------------------------------------------
(***************************************************************************)
(* What a caller has got and what is on its way to it.                     *)
(***************************************************************************)
Status == Event("status", {})
Live == {"opened", "begun", "model", "tools", "synthesis", "finalize"}
Called(em, t) == \E j \in DOMAIN em : em[j] = Event("tool_call", t)
CallsFirst(em) ==
  \A i \in DOMAIN em : em[i].type \in {"tool_result", "tool_error"} =>
    \E j \in 1 .. i - 1 : em[j] = Event("tool_call", em[i].about)

\* Of the place p, the transport w, the calls c, what was seen, queued and
\* emitted, and the answer of a run.
StreamOf(p, w, c, sn, qu, em, a) ==
  /\ p \in {"idle", "gone", "crashed", "replied"} => qu = <<>>
  /\ w # "stream" => \A i \in DOMAIN qu : qu[i] # Done
  /\ w = "stream" =>
      /\ p = "idle" => sn = <<>> /\ em = <<>>
      /\ p \in Live => sn \o qu = <<Status>> \o em
      /\ p = "closing" =>
           /\ qu # <<>>
           /\ \/ qu[Len(qu)] = Done /\ sn \o qu = (<<Status>> \o em) \o <<Done>>
              \/ sn \o qu = (<<Status>> \o em) \o StreamClosing(a)
      /\ p = "replied" => sn = (<<Status>> \o em) \o StreamClosing(a)
      /\ CallsFirst(em)
      /\ p = "tools" => \A t \in DOMAIN c : c[t] # "requested" => Called(em, t)
StreamAt(r) ==
  StreamOf(phase[r], wire[r], calls[r], seen[r], queue[r], emitted[r], answer[r])
Streams == \A r \in Runs : StreamAt(r)

-----------------------------------------------------------------------------
(***************************************************************************)
(* Lemmas about the model's operators.                                     *)
(***************************************************************************)
LEMMA NoCalls == <<>> \in Rounds /\ DOMAIN <<>> = {}
<1>1. DOMAIN <<>> = {}
    OBVIOUS
<1>2. <<>> \in [{} -> CallStates]
    BY <1>1
<1> QED BY <1>1, <1>2 DEF Rounds

LEMMA CallsTyped ==
    ASSUME NEW c \in Rounds
    PROVE  /\ DOMAIN c \subseteq Tools
           /\ \A t \in DOMAIN c : c[t] \in CallStates
           /\ \A t : \A v \in CallStates : [c EXCEPT ![t] = v] \in Rounds
<1>1. PICK S \in SUBSET Tools : c \in [S -> CallStates]
    BY DEF Rounds
<1>2. \A t : \A v \in CallStates : [c EXCEPT ![t] = v] \in [S -> CallStates]
    BY <1>1
<1> QED BY <1>1, <1>2 DEF Rounds

LEMMA EventKinds ==
    /\ Reports \subseteq Events /\ Done \in Events
    /\ \A a \in Outcomes :
         /\ StreamClosing(a) \in Seq(Events) /\ TaskClosing(a) \in Seq(Events)
         /\ ReplyClosing(a) \in Seq(Events)
<1>1. Reports \subseteq Events
    BY DEF Reports, Events, EventTypes
<1>2. Done \in Events
    BY DEF Done, Event, Events, EventTypes
<1>3. ASSUME NEW a \in Outcomes
      PROVE  /\ StreamClosing(a) \in Seq(Events) /\ TaskClosing(a) \in Seq(Events)
             /\ ReplyClosing(a) \in Seq(Events)
    <2>1. a.kind \in {"error", "clarification", "context_result"}
        BY DEF Outcomes, AnswerSet, Failure
    <2>2. \A t \in EventTypes : Event(t, a) \in Events /\ Event(t, {}) \in Events
        BY DEF Event, Events
    <2> HIDE DEF Outcomes
    <2>3. Event(IF a.kind = "context_result" THEN "final" ELSE a.kind, a) \in Events
        BY <2>1, <2>2 DEF EventTypes
    <2>4. StreamClosing(a) \in Seq(Events)
        BY <2>2, <2>3 DEF StreamClosing, EventTypes
    <2>5. TaskClosing(a) \in Seq(Events)
        BY <2>2 DEF TaskClosing, EventTypes
    <2>6. ReplyClosing(a) \in Seq(Events)
        BY <2>2 DEF ReplyClosing, EventTypes
    <2> QED BY <2>4, <2>5, <2>6
<1> QED BY <1>1, <1>2, <1>3

LEMMA AnswersTyped == Answers \subseteq AnswerSet
<1> SUFFICES ASSUME NEW a \in Answers PROVE a \in AnswerSet
    OBVIOUS
<1>1. PICK c \in Citations : a.findings \in Findings(c)
    BY DEF Answers
<1>2. c \in Seq(Seq(Lines))
    BY CitationsAssumption
<1>3. PICK claim \in Claims :
         a.findings = [i \in DOMAIN c |-> [lines |-> c[i], verified |-> claim[i]]]
    BY <1>1 DEF Findings
<1>4. \A i \in DOMAIN c : [lines |-> c[i], verified |-> claim[i]] \in FindingSet
    <2>1. claim \in Seq(Marks) /\ Len(claim) >= Len(c)
        BY CitationsAssumption
    <2>2. \A i \in DOMAIN c : c[i] \in Seq(Lines) /\ claim[i] \in Marks
        BY <1>2, <2>1
    <2> QED BY <2>2 DEF FindingSet
<1>5. DOMAIN c = 1 .. Len(c) /\ Len(c) \in Nat
    BY <1>2
<1>6. a.findings \in Seq(FindingSet)
    BY <1>3, <1>4, <1>5
<1> QED BY <1>6 DEF Answers, AnswerSet

LEMMA CoercedTyped ==
    ASSUME NEW a \in Answers
    PROVE  Coerced(a) \in Answers
BY DEF Coerced, Answers

LEMMA CappedFindings ==
    ASSUME Types, NEW r \in Runs, NEW findings \in Seq(FindingSet)
    PROVE  /\ Capped(r, findings) \in Seq(FindingSet)
           /\ \A i \in DOMAIN Capped(r, findings) :
                i \in DOMAIN findings /\ Capped(r, findings)[i] = findings[i]
<1> DEFINE most == IF cap[r] = 0 THEN DefaultCap ELSE cap[r]
           n == IF Len(findings) > most THEN most ELSE Len(findings)
<1>1. most \in Nat
    <2>1. cap[r] \in 0 .. 51
        BY DEF Types, MaxFindings
    <2>2. \A c \in 0 .. 51 : c \in Nat
        OBVIOUS
    <2>3. DefaultCap \in Nat
        BY BoundsAssumption
    <2> QED BY <2>1, <2>2, <2>3, Zenon
<1> HIDE DEF most
<1>2. n \in 0 .. Len(findings)
    BY <1>1
<1> HIDE DEF n
<1>3. Capped(r, findings) = SubSeq(findings, 1, n)
    BY DEF Capped, n, most
<1> QED BY <1>2, <1>3

LEMMA VerifiedTyped ==
    ASSUME NEW findings \in Seq(FindingSet), NEW h
    PROVE  /\ VerifyFindings(findings, h) \in Seq(FindingSet)
           /\ DOMAIN VerifyFindings(findings, h) = DOMAIN findings
           /\ \A i \in DOMAIN findings :
                /\ VerifyFindings(findings, h)[i].lines = findings[i].lines
                /\ VerifyFindings(findings, h)[i].verified =
                     Verdict(findings[i].lines, h)
<1>1. \A i \in DOMAIN findings : findings[i] \in FindingSet
    OBVIOUS
<1>2. \A i \in DOMAIN findings :
         Verdict(findings[i].lines, h) \in {"unset", "true", "false"}
    BY DEF Verdict
<1>3. \A i \in DOMAIN findings :
         LET f == [findings[i] EXCEPT !.verified = Verdict(findings[i].lines, h)]
         IN  /\ f \in FindingSet /\ f.lines = findings[i].lines
             /\ f.verified = Verdict(findings[i].lines, h)
    BY <1>1, <1>2 DEF FindingSet, Marks
<1>4. DOMAIN findings = 1 .. Len(findings) /\ Len(findings) \in Nat
    OBVIOUS
<1> DEFINE found(i) == [findings[i] EXCEPT !.verified = Verdict(findings[i].lines, h)]
<1>5. VerifyFindings(findings, h) = [i \in 1 .. Len(findings) |-> found(i)]
    BY <1>4 DEF VerifyFindings
<1>6. \A i \in 1 .. Len(findings) :
         /\ found(i) \in FindingSet /\ found(i).lines = findings[i].lines
         /\ found(i).verified = Verdict(findings[i].lines, h)
    BY <1>3, <1>4
<1> HIDE DEF found
<1> QED BY <1>4, <1>5, <1>6

-----------------------------------------------------------------------------
(***************************************************************************)
(* Types and places.                                                       *)
(***************************************************************************)
LEMMA SetTyped ==
    ASSUME NEW S, NEW T, NEW f \in [S -> T], NEW r, NEW v \in T
    PROVE  [f EXCEPT ![r] = v] \in [S -> T]
OBVIOUS

LEMMA Extended ==
    ASSUME NEW S, NEW s \in Seq(S), NEW t \in Seq(S)
    PROVE  s \o t \in Seq(S)
BY ConcatProperties

LEMMA InitTyped == Init => Types /\ Placed
<1> SUFFICES ASSUME Init PROVE Types /\ Placed
    OBVIOUS
<1>1. PICK asked \in Requests :
         LET here == DOMAIN asked IN
          /\ phase = [r \in Runs |-> IF r \in here THEN "idle" ELSE "gone"]
          /\ wire = [r \in Runs |-> IF r \in here THEN asked[r].wire ELSE "detached"]
          /\ session = [r \in Runs |-> IF r \in here THEN asked[r].session
                                       ELSE CHOOSE s \in Sessions : TRUE]
          /\ cap = [r \in Runs |-> IF r \in here THEN asked[r].cap ELSE 0]
          /\ choice = [r \in Runs |-> IF r \in here THEN asked[r].rounds ELSE {}]
    BY DEF Init
<1>2. \A r \in DOMAIN asked :
         /\ asked[r].wire \in Transports /\ asked[r].session \in Sessions
         /\ asked[r].cap \in 0 .. MaxFindings + 1
         /\ asked[r].rounds \in SUBSET SUBSET Tools
    BY RequestsAssumption
<1>3. (CHOOSE s \in Sessions : TRUE) \in Sessions /\ 0 \in 0 .. MaxFindings + 1
    BY SessionsAssumption DEF MaxFindings
<1>4. /\ phase \in [Runs -> Phases] /\ wire \in [Runs -> Wires]
      /\ session \in [Runs -> Sessions] /\ cap \in [Runs -> 0 .. MaxFindings + 1]
      /\ choice \in [Runs -> SUBSET SUBSET Tools]
    BY <1>1, <1>2, <1>3, Zenon DEF Phases, Ended, Wires
<1>5. checkpoint \in [Sessions -> Seq(MessageSet)] /\ messages \in [Runs -> Seq(MessageSet)]
    BY EmptySeq, Zenon DEF Init
<1>6. calls \in [Runs -> Rounds] /\ answer \in [Runs -> Outcomes \cup {None}]
    BY NoCalls DEF Init
<1>7. /\ queue \in [Runs -> Seq(Events)] /\ seen \in [Runs -> Seq(Events)]
      /\ emitted \in [Runs -> Seq(Reports)]
    BY EmptySeq, Zenon DEF Init
<1>8. /\ durable \in BOOLEAN /\ restarts \in 0 .. MaxRestarts
      /\ rounds \in [Runs -> 0 .. MaxRounds]
    BY BoundsAssumption DEF Init
<1>9. own \in [Runs -> SUBSET Lines] /\ shared \in [Runs -> BOOLEAN]
    BY DEF Init
<1>10. Types
    BY <1>4, <1>5, <1>6, <1>7, <1>8, <1>9, Zenon DEF Types
<1>11. \A r \in Runs : phase[r] \in {"idle", "gone"} /\ own[r] = {} /\ calls[r] = <<>>
    BY <1>1 DEF Init
<1>12. Placed
    BY <1>11 DEF Placed, PlacedAt
<1> QED BY <1>10, <1>12

\* A step of one run leaves the places of the others.
LEMMA PlacedOne ==
    ASSUME Placed, NEW r \in Runs, PlacedAt(r)',
           \A q \in Runs \ {r} : /\ phase'[q] = phase[q] /\ answer'[q] = answer[q]
                                 /\ own'[q] = own[q] /\ calls'[q] = calls[q]
                                 /\ rounds'[q] = rounds[q]
    PROVE  Placed'
BY DEF Placed, PlacedAt

LEMMA ReportTyped ==
    ASSUME Types, NEW r \in Runs, NEW events \in Seq(Reports), Report(r, events)
    PROVE  queue' \in [Runs -> Seq(Events)] /\ emitted' \in [Runs -> Seq(Reports)]
<1>1. queue \in [Runs -> Seq(Events)] /\ emitted \in [Runs -> Seq(Reports)]
    BY DEF Types
<1>2. events \in Seq(Events)
    BY EventKinds, SeqMonotonic
<1>3. queue[r] \o events \in Seq(Events) /\ emitted[r] \o events \in Seq(Reports)
    BY <1>1, <1>2, Extended
<1>4. /\ [queue EXCEPT ![r] = @ \o events] \in [Runs -> Seq(Events)]
      /\ [emitted EXCEPT ![r] = @ \o events] \in [Runs -> Seq(Reports)]
    BY <1>1, <1>3, SetTyped
<1> QED BY <1>1, <1>4 DEF Report

LEMMA SaveTyped ==
    ASSUME Types, NEW r \in Runs, NEW new \in Seq(MessageSet), Save(r, new)
    PROVE  /\ messages' \in [Runs -> Seq(MessageSet)]
           /\ checkpoint' \in [Sessions -> Seq(MessageSet)]
           /\ messages'[r] = messages[r] \o new /\ checkpoint'[session[r]] = messages'[r]
           /\ \A q \in Runs \ {r} : messages'[q] = messages[q]
           /\ \A s \in Sessions \ {session[r]} : checkpoint'[s] = checkpoint[s]
<1>1. messages \in [Runs -> Seq(MessageSet)] /\ session[r] \in Sessions
    BY DEF Types
<1>2. messages[r] \o new \in Seq(MessageSet)
    BY <1>1, Extended
<1>3. /\ messages' \in [Runs -> Seq(MessageSet)] /\ messages'[r] = messages[r] \o new
      /\ \A q \in Runs \ {r} : messages'[q] = messages[q]
    BY <1>1, <1>2 DEF Save
<1>4. checkpoint \in [Sessions -> Seq(MessageSet)]
    BY DEF Types
<1>5. checkpoint' = [checkpoint EXCEPT ![session[r]] = messages'[r]]
    BY DEF Save
<1>6. messages'[r] \in Seq(MessageSet)
    BY <1>2, <1>3
<1> QED BY <1>1, <1>3, <1>4, <1>5, <1>6

LEMMA CloseTyped ==
    ASSUME Types, NEW r \in Runs, NEW a \in Outcomes, Close(r, a)
    PROVE  /\ answer' \in [Runs -> Outcomes \cup {None}] /\ answer'[r] = a
           /\ messages' \in [Runs -> Seq(MessageSet)] /\ messages'[r] = <<>>
           /\ calls' \in [Runs -> Rounds] /\ phase' \in [Runs -> Phases]
           /\ phase'[r] = IF wire[r] = "detached" THEN "gone" ELSE "closing"
           /\ queue' \in [Runs -> Seq(Events)]
           /\ \A q \in Runs \ {r} :
                /\ phase'[q] = phase[q] /\ answer'[q] = answer[q] /\ calls'[q] = calls[q]
                /\ messages'[q] = messages[q] /\ queue'[q] = queue[q]
<1>1. /\ answer \in [Runs -> Outcomes \cup {None}] /\ messages \in [Runs -> Seq(MessageSet)]
      /\ calls \in [Runs -> Rounds] /\ phase \in [Runs -> Phases]
      /\ queue \in [Runs -> Seq(Events)]
    BY DEF Types
<1>2. answer' = [answer EXCEPT ![r] = a]
    BY DEF Close
<1>3. messages' = [messages EXCEPT ![r] = <<>>] /\ <<>> \in Seq(MessageSet)
    BY DEF Close
<1>4. calls' = [calls EXCEPT ![r] = <<>>] /\ <<>> \in Rounds
    BY NoCalls DEF Close
<1> DEFINE to == IF wire[r] = "detached" THEN "gone" ELSE "closing"
           sent == CASE wire[r] = "detached" -> <<>>
                     [] wire[r] = "stream" -> Append(queue[r], Done)
                     [] wire[r] = "a2a" -> TaskClosing(a)
                     [] OTHER -> ReplyClosing(a)
<1>5. phase' = [phase EXCEPT ![r] = to] /\ to \in Phases
    BY DEF Close, Phases, Ended
<1>6. queue' = [queue EXCEPT ![r] = sent]
    BY DEF Close
<1>7. sent \in Seq(Events)
    <2>1. Append(queue[r], Done) \in Seq(Events)
        BY <1>1, EventKinds
    <2>2. <<>> \in Seq(Events) /\ TaskClosing(a) \in Seq(Events) /\ ReplyClosing(a) \in Seq(Events)
        BY EventKinds
    <2> QED BY <2>1, <2>2
<1> HIDE DEF sent
<1>8. /\ answer' \in [Runs -> Outcomes \cup {None}] /\ answer'[r] = a
      /\ messages' \in [Runs -> Seq(MessageSet)] /\ messages'[r] = <<>>
      /\ calls' \in [Runs -> Rounds]
    BY <1>1, <1>2, <1>3, <1>4
<1>9. phase' \in [Runs -> Phases] /\ phase'[r] = to /\ queue' \in [Runs -> Seq(Events)]
    BY <1>1, <1>5, <1>6, <1>7
<1>10. \A q \in Runs \ {r} :
         /\ phase'[q] = phase[q] /\ answer'[q] = answer[q] /\ calls'[q] = calls[q]
         /\ messages'[q] = messages[q] /\ queue'[q] = queue[q]
    BY <1>1, <1>2, <1>3, <1>4, <1>5, <1>6
<1> QED BY <1>8, <1>9, <1>10

\* SetToSeq lists a finite set.
LEMMA ListsAll ==
    ASSUME NEW S, IsFiniteSet(S)
    PROVE  /\ SetToSeq(S) \in Seq(S)
           /\ \A x \in S : \E i \in DOMAIN SetToSeq(S) : SetToSeq(S)[i] = x
<1> DEFINE n == Cardinality(S)
<1>1. n \in Nat /\ ExistsBijection(1 .. n, S)
    BY FS_CardinalityType
<1>2. \E f \in [1 .. n -> S] : IsInjective(f)
    BY <1>1 DEF ExistsBijection, Bijection, Injection
<1>3. SetToSeq(S) \in [1 .. n -> S] /\ IsInjective(SetToSeq(S))
    BY <1>2 DEF SetToSeq
<1>4. SetToSeq(S) \in Injection(1 .. n, S)
    BY <1>3 DEF Injection
<1>5. Cardinality(1 .. n) = n
    BY <1>1, FS_Interval
<1> HIDE DEF n
<1>6. SetToSeq(S) \in Surjection(1 .. n, S)
    <2>1. Cardinality(1 .. n) = Cardinality(S)
        BY <1>5 DEF n
    <2> QED BY <1>4, <2>1, FS_Injection
<1>7. SetToSeq(S) \in Seq(S)
    BY <1>1, <1>3
<1>8. \A x \in S : \E i \in DOMAIN SetToSeq(S) : SetToSeq(S)[i] = x
    BY <1>3, <1>6 DEF Surjection
<1> QED BY <1>7, <1>8

LEMMA ResultsTyped ==
    ASSUME Types, NEW r \in Runs
    PROVE  /\ Results(r) \in Seq(MessageSet)
           /\ \A i \in DOMAIN Results(r) :
                \/ Results(r)[i].lines = {}
                \/ \E t \in DOMAIN calls[r] :
                     calls[r][t] = "told" /\ Results(r)[i].lines = Told[t]
           /\ \A t \in DOMAIN calls[r] : calls[r][t] = "told" =>
                \E i \in DOMAIN Results(r) :
                  Results(r)[i].kind = "result" /\ Results(r)[i].lines = Told[t]
<1> DEFINE D == DOMAIN calls[r]
           order == SetToSeq(D)
           kind(i) == IF calls[r][order[i]] = "told" THEN "result" ELSE "error"
           line(i) == IF calls[r][order[i]] = "told" THEN Told[order[i]] ELSE {}
<1>1. calls[r] \in Rounds
    BY DEF Types
<1>2. D \subseteq Tools /\ IsFiniteSet(D)
    BY <1>1, CallsTyped, ToolsAssumption, FS_Subset
<1>3. order \in Seq(D) /\ \A x \in D : \E i \in DOMAIN order : order[i] = x
    BY <1>2, ListsAll
<1> HIDE DEF D, order
<1>4. \A i \in DOMAIN order : order[i] \in D /\ line(i) \in SUBSET Lines
    <2>1. \A i \in DOMAIN order : order[i] \in D
        BY <1>3
    <2> QED BY <2>1, <1>2, ToolsAssumption
<1>5. Results(r) = [i \in DOMAIN order |-> [kind |-> kind(i), lines |-> line(i)]]
    BY DEF Results, Message, order, D
<1>6. DOMAIN order = 1 .. Len(order) /\ Len(order) \in Nat
    BY <1>3
<1>7. Results(r) \in Seq(MessageSet)
    <2>1. \A i \in DOMAIN order : [kind |-> kind(i), lines |-> line(i)] \in MessageSet
        BY <1>4 DEF MessageSet
    <2> HIDE DEF line, kind
    <2> QED BY <2>1, <1>5, <1>6
<1>8. \A i \in DOMAIN Results(r) :
         \/ Results(r)[i].lines = {}
         \/ \E t \in D : calls[r][t] = "told" /\ Results(r)[i].lines = Told[t]
    BY <1>4, <1>5
<1>9. ASSUME NEW t \in D, calls[r][t] = "told"
      PROVE  \E i \in DOMAIN Results(r) :
                Results(r)[i].kind = "result" /\ Results(r)[i].lines = Told[t]
    <2>1. PICK i \in DOMAIN order : order[i] = t
        BY <1>3
    <2> QED BY <2>1, <1>5, <1>9
<1> QED BY <1>7, <1>8, <1>9 DEF D

\* The values that a step gives to the variables.
LEMMA TypesFrom ==
    ASSUME Types, UNCHANGED <<durable, session, cap, choice>>,
           restarts' \in 0 .. MaxRestarts,
           checkpoint' \in [Sessions -> Seq(MessageSet)],
           phase' \in [Runs -> Phases], wire' \in [Runs -> Wires],
           messages' \in [Runs -> Seq(MessageSet)], calls' \in [Runs -> Rounds],
           rounds' \in [Runs -> 0 .. MaxRounds],
           answer' \in [Runs -> Outcomes \cup {None}],
           queue' \in [Runs -> Seq(Events)], seen' \in [Runs -> Seq(Events)],
           own' \in [Runs -> SUBSET Lines], shared' \in [Runs -> BOOLEAN],
           emitted' \in [Runs -> Seq(Reports)]
    PROVE  Types'
BY Zenon DEF Types

LEMMA TypesHave ==
    ASSUME Types
    PROVE  /\ restarts \in 0 .. MaxRestarts
           /\ checkpoint \in [Sessions -> Seq(MessageSet)]
           /\ phase \in [Runs -> Phases] /\ wire \in [Runs -> Wires]
           /\ session \in [Runs -> Sessions]
           /\ messages \in [Runs -> Seq(MessageSet)] /\ calls \in [Runs -> Rounds]
           /\ rounds \in [Runs -> 0 .. MaxRounds]
           /\ answer \in [Runs -> Outcomes \cup {None}]
           /\ queue \in [Runs -> Seq(Events)] /\ seen \in [Runs -> Seq(Events)]
           /\ own \in [Runs -> SUBSET Lines] /\ shared \in [Runs -> BOOLEAN]
           /\ emitted \in [Runs -> Seq(Reports)]
BY Zenon DEF Types

LEMMA RequestedTyped ==
    ASSUME Types, Placed, NEW r \in Runs, NEW w, NEW first \in Seq(Events),
           NEW next \in {"begun", "opened", "replied", "crashed"},
           Requested(r, w, first, next)
    PROVE  Types' /\ Placed'
<1>1. next \in Phases
    BY DEF Phases, Ended
<1>2. phase' \in [Runs -> Phases] /\ seen' \in [Runs -> Seq(Events)] /\ phase'[r] = next
    BY <1>1, TypesHave, SetTyped DEF Requested
<1>3. Types'
    BY <1>2, TypesHave, TypesFrom, Zenon DEF Requested, server, request, history
<1>4. own[r] = {} /\ calls[r] = <<>>
    BY DEF Requested, Placed, PlacedAt
<1>5. PlacedAt(r)'
    BY <1>2, <1>4 DEF Requested, PlacedAt, history
<1>6. \A q \in Runs \ {r} : phase'[q] = phase[q]
    BY TypesHave DEF Requested
<1> QED BY <1>3, <1>5, <1>6, PlacedOne DEF Requested, history

LEMMA AskTyped ==
    ASSUME Types, Placed, NEW r \in Runs, AskOnce(r) \/ AskStream(r) \/ AskTask(r)
    PROVE  Types' /\ Placed'
<1>1. /\ <<>> \in Seq(Events) /\ <<Event("status", {})>> \in Seq(Events)
      /\ <<Event("working", {})>> \in Seq(Events)
      /\ <<Event("working", {}), Event("input_required", {})>> \in Seq(Events)
    BY DEF Events, Event, EventTypes
<1>2. CASE AskOnce(r)
    BY <1>1, <1>2, RequestedTyped DEF AskOnce
<1>3. CASE AskStream(r)
    BY <1>1, <1>3, RequestedTyped DEF AskStream
<1>4. CASE AskTask(r)
    BY <1>1, <1>4, RequestedTyped DEF AskTask
<1> QED BY <1>2, <1>3, <1>4

LEMMA ResumeTyped ==
    ASSUME Types, Placed, NEW r \in Runs, Resume(r)
    PROVE  Types' /\ Placed'
<1>1. phase' \in [Runs -> Phases] /\ phase'[r] = "begun"
    BY TypesHave DEF Resume, Phases
<1>2. Types'
    BY <1>1, TypesHave, TypesFrom, Zenon DEF Resume, server, request, history
<1>3. PlacedAt(r)'
    BY <1>1 DEF Resume, Placed, PlacedAt, history
<1>4. \A q \in Runs \ {r} : phase'[q] = phase[q]
    BY TypesHave DEF Resume
<1> QED BY <1>2, <1>3, <1>4, PlacedOne DEF Resume, history

\* The start of a turn: what the thread has and the prompt.
LEMMA BeginStarts ==
    ASSUME Types, NEW r \in Runs, Begin(r)
    PROVE  /\ messages' \in [Runs -> Seq(MessageSet)]
           /\ checkpoint' \in [Sessions -> Seq(MessageSet)]
           /\ messages'[r] = Append(checkpoint[session[r]], Message("human", {}))
           /\ checkpoint'[session[r]] = messages'[r]
           /\ \A q \in Runs \ {r} : messages'[q] = messages[q]
           /\ \A s \in Sessions \ {session[r]} : checkpoint'[s] = checkpoint[s]
<1>1. Message("human", {}) \in MessageSet
    BY DEF Message, MessageSet
<1>2. session[r] \in Sessions /\ checkpoint[session[r]] \in Seq(MessageSet)
    BY TypesHave
<1>3. Append(checkpoint[session[r]], Message("human", {})) \in Seq(MessageSet)
    BY <1>1, <1>2
<1>4. messages' = [messages EXCEPT ![r] = Append(checkpoint[session[r]], Message("human", {}))]
    BY DEF Begin
<1>5. checkpoint' = [checkpoint EXCEPT ![session[r]] = messages'[r]]
    BY DEF Begin
<1>6. /\ messages' \in [Runs -> Seq(MessageSet)]
      /\ messages'[r] = Append(checkpoint[session[r]], Message("human", {}))
      /\ \A q \in Runs \ {r} : messages'[q] = messages[q]
    BY <1>3, <1>4, TypesHave
<1>7. messages'[r] \in Seq(MessageSet)
    BY <1>3, <1>6
<1> QED BY <1>2, <1>5, <1>6, <1>7, TypesHave

LEMMA BeginTyped ==
    ASSUME Types, Placed, NEW r \in Runs, Begin(r)
    PROVE  Types' /\ Placed'
<1>1. phase' \in [Runs -> Phases] /\ phase'[r] = "model"
    BY TypesHave DEF Begin, Phases
<1>2. shared' \in [Runs -> BOOLEAN]
    BY TypesHave DEF Begin
<1>3. Types'
    BY <1>1, <1>2, BeginStarts, TypesHave, TypesFrom, Zenon DEF Begin, server, request
<1>4. PlacedAt(r)'
    BY <1>1 DEF Begin, Placed, PlacedAt
<1>5. \A q \in Runs \ {r} : phase'[q] = phase[q]
    BY TypesHave DEF Begin
<1> QED BY <1>3, <1>4, <1>5, PlacedOne DEF Begin

LEMMA ReasoningTyped ==
    ASSUME NEW text \in Reasoning
    PROVE  /\ text \in Seq(Reports)
           /\ \A i \in DOMAIN text : text[i] = Event("reasoning", {})
<1>1. text = <<>> \/ text = <<Event("reasoning", {})>>
    BY DEF Reasoning
<1>2. Event("reasoning", {}) \in Reports
    BY DEF Event, Reports
<1>3. \A e : <<e>>[1] = e /\ DOMAIN <<e>> = {1}
    OBVIOUS
<1>4. CASE text = <<>>
    BY <1>4
<1>5. CASE text = <<Event("reasoning", {})>>
    <2>1. text \in Seq(Reports)
        BY <1>2, <1>5
    <2> QED BY <2>1, <1>3, <1>5
<1> QED BY <1>1, <1>4, <1>5

LEMMA CallToolsTyped ==
    ASSUME Types, Placed, NEW r \in Runs, CallTools(r)
    PROVE  Types' /\ Placed'
<1>1. phase' \in [Runs -> Phases] /\ phase'[r] = "tools"
    BY TypesHave DEF CallTools, Phases
<1>2. calls' \in [Runs -> Rounds] /\ \A q \in Runs \ {r} : calls'[q] = calls[q]
    <2>1. PICK round \in choice[r] \ {{}} :
            calls' = [calls EXCEPT ![r] = [t \in round |-> "requested"]]
        BY DEF CallTools
    <2>2. round \in SUBSET Tools
        BY DEF Types
    <2>3. [t \in round |-> "requested"] \in Rounds
        BY <2>2 DEF Rounds, CallStates
    <2> QED BY <2>1, <2>3, TypesHave
<1>3. <<Message("calls", {})>> \in Seq(MessageSet)
    BY DEF Message, MessageSet
<1>4. messages' \in [Runs -> Seq(MessageSet)] /\ checkpoint' \in [Sessions -> Seq(MessageSet)]
    BY <1>3, SaveTyped DEF CallTools
<1>5. queue' \in [Runs -> Seq(Events)] /\ emitted' \in [Runs -> Seq(Reports)]
    BY ReasoningTyped, ReportTyped DEF CallTools
<1>6. Types'
    BY <1>1, <1>2, <1>4, <1>5, TypesHave, TypesFrom, Zenon DEF CallTools, server, request
<1>7. PlacedAt(r)'
    BY <1>1 DEF PlacedAt, CallTools
<1>8. \A q \in Runs \ {r} : phase'[q] = phase[q]
    BY TypesHave DEF CallTools
<1> QED BY <1>2, <1>6, <1>7, <1>8, PlacedOne DEF CallTools

LEMMA ToolMovesTyped ==
    ASSUME Types, Placed, NEW r \in Runs, NEW t, NEW from, NEW to \in CallStates,
           NEW type \in {"tool_call", "tool_result", "tool_error"},
           ToolMoves(r, t, from, to, type), own' \in [Runs -> SUBSET Lines],
           \A q \in Runs \ {r} : own'[q] = own[q]
    PROVE  Types' /\ Placed' /\ t \in Tools
<1>1. calls[r] \in Rounds /\ t \in DOMAIN calls[r] /\ t \in Tools
    BY TypesHave, CallsTyped DEF ToolMoves
<1>2. [calls[r] EXCEPT ![t] = to] \in Rounds
    BY <1>1, CallsTyped
<1>3. calls' = [calls EXCEPT ![r] = [calls[r] EXCEPT ![t] = to]]
    BY TypesHave DEF ToolMoves
<1>4. calls' \in [Runs -> Rounds] /\ \A q \in Runs \ {r} : calls'[q] = calls[q]
    BY <1>2, <1>3, TypesHave
<1>5. Event(type, t) \in Reports
    BY <1>1 DEF Event, Reports
<1>6. <<Event(type, t)>> \in Seq(Reports)
    BY <1>5
<1>7. queue' \in [Runs -> Seq(Events)] /\ emitted' \in [Runs -> Seq(Reports)]
    BY <1>6, ReportTyped DEF ToolMoves
<1>8. Types'
    BY <1>4, <1>7, TypesHave, TypesFrom, Zenon DEF ToolMoves, server, request
<1>9. PlacedAt(r)'
    BY DEF ToolMoves, Placed, PlacedAt
<1>10. Placed'
    BY <1>4, <1>9, PlacedOne DEF ToolMoves
<1> QED BY <1>1, <1>8, <1>10

LEMMA ToolsTyped ==
    ASSUME Types, Placed, NEW r \in Runs, NEW t \in Tools,
           StartTool(r, t) \/ EndTool(r, t) \/ FailTool(r, t)
    PROVE  Types' /\ Placed'
<1>1. CASE StartTool(r, t)
    BY <1>1, ToolMovesTyped, TypesHave DEF StartTool, CallStates
<1>2. CASE EndTool(r, t)
    <2>1. Told[t] \in SUBSET Lines /\ own[r] \in SUBSET Lines
        BY TypesHave, ToolsAssumption
    <2>2. own' = [own EXCEPT ![r] = own[r] \cup Told[t]]
        BY <1>2, TypesHave DEF EndTool
    <2>3. own' \in [Runs -> SUBSET Lines] /\ \A q \in Runs \ {r} : own'[q] = own[q]
        BY <2>1, <2>2, TypesHave
    <2>4. ToolMoves(r, t, "running", "told", "tool_result")
        BY <1>2 DEF EndTool
    <2> QED BY <2>3, <2>4, ToolMovesTyped DEF CallStates
<1>3. CASE FailTool(r, t)
    BY <1>3, ToolMovesTyped, TypesHave DEF FailTool, CallStates
<1> QED BY <1>1, <1>2, <1>3

LEMMA GatherTyped ==
    ASSUME Types, Placed, NEW r \in Runs, Gather(r)
    PROVE  Types' /\ Placed'
<1>1. phase' \in [Runs -> Phases] /\ phase'[r] = "model"
    BY TypesHave DEF Gather, Phases
<1>2. calls' \in [Runs -> Rounds] /\ calls'[r] = <<>> /\ \A q \in Runs \ {r} : calls'[q] = calls[q]
    BY TypesHave, NoCalls DEF Gather
<1>3. messages' \in [Runs -> Seq(MessageSet)] /\ checkpoint' \in [Sessions -> Seq(MessageSet)]
    BY ResultsTyped, SaveTyped DEF Gather
<1>4. rounds' \in [Runs -> 0 .. MaxRounds]
    <2>1. rounds[r] \in Nat /\ MaxRounds \in Nat /\ rounds[r] < MaxRounds
        BY TypesHave, BoundsAssumption DEF Gather, Placed, PlacedAt
    <2>2. rounds[r] + 1 \in 0 .. MaxRounds
        BY <2>1
    <2>3. rounds' = [rounds EXCEPT ![r] = rounds[r] + 1]
        BY TypesHave DEF Gather
    <2> QED BY <2>2, <2>3, TypesHave
<1>5. Types'
    BY <1>1, <1>2, <1>3, <1>4, TypesHave, TypesFrom, Zenon DEF Gather, server, request, history
<1>6. PlacedAt(r)'
    BY <1>1, <1>2 DEF PlacedAt
<1>7. \A q \in Runs \ {r} : phase'[q] = phase[q] /\ rounds'[q] = rounds[q]
    BY TypesHave DEF Gather
<1> QED BY <1>2, <1>5, <1>6, <1>7, PlacedOne DEF Gather, history

LEMMA HitLimitTyped ==
    ASSUME Types, Placed, NEW r \in Runs, HitLimit(r)
    PROVE  Types' /\ Placed'
<1>1. phase' \in [Runs -> Phases] /\ phase'[r] = "synthesis"
    BY TypesHave DEF HitLimit, Phases
<1>2. Types'
    BY <1>1, TypesHave, TypesFrom, Zenon DEF HitLimit, server, request, history
<1>3. PlacedAt(r)'
    BY <1>1 DEF HitLimit, Placed, PlacedAt, history
<1>4. \A q \in Runs \ {r} : phase'[q] = phase[q]
    BY TypesHave DEF HitLimit
<1> QED BY <1>2, <1>3, <1>4, PlacedOne DEF HitLimit, history

LEMMA AnswerTyped ==
    ASSUME Types, NEW r \in Runs, NEW a \in AnswerSet, answer' = [answer EXCEPT ![r] = a]
    PROVE  /\ answer' \in [Runs -> Outcomes \cup {None}] /\ answer'[r] = a
           /\ \A q \in Runs \ {r} : answer'[q] = answer[q]
BY TypesHave DEF Outcomes

LEMMA ConvergeTyped ==
    ASSUME Types, Placed, NEW r \in Runs, Converge(r)
    PROVE  Types' /\ Placed'
<1>1. phase' \in [Runs -> Phases] /\ phase'[r] = "finalize"
    BY TypesHave DEF Converge, Phases
<1>2. /\ answer' \in [Runs -> Outcomes \cup {None}] /\ answer'[r] \in AnswerSet
      /\ \A q \in Runs \ {r} : answer'[q] = answer[q]
    BY AnswersTyped, AnswerTyped DEF Converge
<1>3. <<Message("reply", {})>> \in Seq(MessageSet)
    BY DEF Message, MessageSet
<1>4. messages' \in [Runs -> Seq(MessageSet)] /\ checkpoint' \in [Sessions -> Seq(MessageSet)]
    BY <1>3, SaveTyped DEF Converge
<1>5. queue' \in [Runs -> Seq(Events)] /\ emitted' \in [Runs -> Seq(Reports)]
    BY ReasoningTyped, ReportTyped DEF Converge
<1>6. Types'
    BY <1>1, <1>2, <1>4, <1>5, TypesHave, TypesFrom, Zenon DEF Converge, server, request
<1>7. PlacedAt(r)'
    BY <1>1, <1>2 DEF Converge, Placed, PlacedAt
<1>8. \A q \in Runs \ {r} : phase'[q] = phase[q]
    BY TypesHave DEF Converge
<1> QED BY <1>2, <1>6, <1>7, <1>8, PlacedOne DEF Converge

LEMMA SynthesizeTyped ==
    ASSUME Types, Placed, NEW r \in Runs, Synthesize(r)
    PROVE  Types' /\ Placed'
<1>1. phase' \in [Runs -> Phases] /\ phase'[r] = "finalize"
    BY TypesHave DEF Synthesize, Phases
<1>2. /\ answer' \in [Runs -> Outcomes \cup {None}] /\ answer'[r] \in AnswerSet
      /\ \A q \in Runs \ {r} : answer'[q] = answer[q]
    BY AnswersTyped, CoercedTyped, AnswerTyped DEF Synthesize
<1>3. Types'
    BY <1>1, <1>2, TypesHave, TypesFrom, Zenon DEF Synthesize, server, request, history
<1>4. PlacedAt(r)'
    BY <1>1, <1>2 DEF Synthesize, Placed, PlacedAt
<1>5. \A q \in Runs \ {r} : phase'[q] = phase[q]
    BY TypesHave DEF Synthesize
<1> QED BY <1>2, <1>3, <1>4, <1>5, PlacedOne DEF Synthesize, history

LEMMA FailTyped ==
    ASSUME Types, Placed, NEW r \in Runs, Fail(r)
    PROVE  Types' /\ Placed'
<1>1. Close(r, Failure) /\ Failure \in Outcomes
    BY DEF Fail, Outcomes
<1>2. Types'
    BY <1>1, CloseTyped, TypesHave, TypesFrom, Zenon DEF Fail, server, request, history
<1>3. PlacedAt(r)'
    BY <1>1, CloseTyped DEF PlacedAt
<1> QED BY <1>1, <1>2, <1>3, CloseTyped, PlacedOne DEF Fail, history

\* What goes out at the end of a run that has an answer.
LEMMA FinalOutcome ==
    ASSUME Types, Placed, NEW r \in Runs, Finalize(r)
    PROVE  /\ answer[r] \in AnswerSet
           /\ \E a \in AnswerSet : Close(r, a)
<1>1. answer[r] \in AnswerSet
    BY DEF Finalize, Placed, PlacedAt
<1>2. answer[r].findings \in Seq(FindingSet)
    BY <1>1 DEF AnswerSet
<1> DEFINE capped == Capped(r, answer[r].findings)
<1>3. capped \in Seq(FindingSet)
    BY <1>2, CappedFindings
<1>4. VerifyFindings(capped, checkpoint[session[r]]) \in Seq(FindingSet)
    BY <1>3, VerifiedTyped
<1>5. \A f \in Seq(FindingSet) : [answer[r] EXCEPT !.findings = f] \in AnswerSet
    BY <1>1 DEF AnswerSet
<1>6. <<>> \in Seq(FindingSet)
    OBVIOUS
<1> QED BY <1>1, <1>3, <1>4, <1>5, <1>6 DEF Finalize

LEMMA FinalizeTyped ==
    ASSUME Types, Placed, NEW r \in Runs, Finalize(r)
    PROVE  Types' /\ Placed'
<1>1. PICK a \in Outcomes : Close(r, a)
    BY FinalOutcome DEF Outcomes
<1>2. Types'
    BY <1>1, CloseTyped, TypesHave, TypesFrom, Zenon DEF Finalize, server, request, history
<1>3. PlacedAt(r)'
    BY <1>1, CloseTyped DEF PlacedAt
<1> QED BY <1>1, <1>2, <1>3, CloseTyped, PlacedOne DEF Finalize, history

LEMMA DeliverTyped ==
    ASSUME Types, Placed, NEW r \in Runs, Deliver(r)
    PROVE  Types' /\ Placed'
<1>1. queue[r] \in Seq(Events) /\ seen[r] \in Seq(Events) /\ queue[r] # <<>>
    BY TypesHave DEF Deliver
<1>2. Append(seen[r], Head(queue[r])) \in Seq(Events) /\ Tail(queue[r]) \in Seq(Events)
    BY <1>1
<1>3. seen' \in [Runs -> Seq(Events)] /\ queue' \in [Runs -> Seq(Events)]
    <2>1. seen' = [seen EXCEPT ![r] = Append(seen[r], Head(queue[r]))]
        BY TypesHave DEF Deliver
    <2>2. queue' = [queue EXCEPT ![r] = Tail(queue[r])]
        BY TypesHave DEF Deliver
    <2> QED BY <1>2, <2>1, <2>2, TypesHave, SetTyped
<1>4. /\ phase' \in [Runs -> Phases] /\ phase'[r] \in {phase[r], "replied"}
      /\ \A q \in Runs \ {r} : phase'[q] = phase[q]
    BY TypesHave DEF Deliver, Phases, Ended
<1>5. Types'
    BY <1>3, <1>4, TypesHave, TypesFrom, Zenon DEF Deliver, server, request, history
<1>6. PlacedAt(r)'
    BY <1>4 DEF Deliver, Placed, PlacedAt, history
<1> QED BY <1>4, <1>5, <1>6, PlacedOne DEF Deliver, history

LEMMA JoinTyped ==
    ASSUME Types, Placed, NEW r \in Runs, Join(r), answer[r] \in Outcomes
    PROVE  Types' /\ Placed'
<1>1. queue' = [queue EXCEPT ![r] = StreamClosing(answer[r])]
    BY DEF Join
<1>2. queue' \in [Runs -> Seq(Events)]
    BY <1>1, EventKinds, TypesHave, SetTyped
<1>3. Types'
    BY <1>2, TypesHave, TypesFrom, Zenon DEF Join, server, request, history
<1>4. Placed'
    BY DEF Join, Placed, PlacedAt, history
<1> QED BY <1>3, <1>4

LEMMA LeaveTyped ==
    ASSUME Types, Placed, NEW r \in Runs, Leave(r)
    PROVE  Types' /\ Placed'
<1>1. /\ phase' \in [Runs -> Phases] /\ wire' \in [Runs -> Wires]
      /\ phase'[r] \in {phase[r], "gone"}
      /\ \A q \in Runs \ {r} : phase'[q] = phase[q]
    <2>1. phase \in [Runs -> Phases] /\ wire \in [Runs -> Wires]
        BY TypesHave
    <2>2. "gone" \in Phases /\ "detached" \in Wires
        BY DEF Phases, Ended, Wires
    <2>3. /\ phase' = [phase EXCEPT ![r] = "gone"] \/ phase' = phase
          /\ wire' = [wire EXCEPT ![r] = "detached"] \/ wire' = wire
        BY DEF Leave
    <2> QED BY <2>1, <2>2, <2>3
<1>2. /\ <<Event("canceled", {})>> \in Seq(Events) /\ <<>> \in Seq(Events)
      /\ <<>> \in Seq(Reports)
    BY DEF Event, Events, EventTypes
<1>3. seen' \in [Runs -> Seq(Events)]
    <2>1. seen' = [seen EXCEPT ![r] = IF wire[r] = "a2a" THEN <<Event("canceled", {})>>
                                      ELSE <<>>]
        BY DEF Leave
    <2>2. (IF wire[r] = "a2a" THEN <<Event("canceled", {})>> ELSE <<>>) \in Seq(Events)
        BY <1>2
    <2> QED BY <2>1, <2>2, TypesHave, SetTyped
<1>4. queue' \in [Runs -> Seq(Events)] /\ emitted' \in [Runs -> Seq(Reports)]
    BY <1>2, TypesHave, SetTyped DEF Leave
<1>5. Types'
    BY <1>1, <1>3, <1>4, TypesHave, TypesFrom, Zenon DEF Leave, server
<1>6. PlacedAt(r)'
    BY <1>1 DEF Leave, Placed, PlacedAt
<1> QED BY <1>1, <1>5, <1>6, PlacedOne DEF Leave

LEMMA RestartTyped ==
    ASSUME Types, Placed, Restart
    PROVE  Types' /\ Placed'
<1>1. /\ phase' \in [Runs -> Phases]
      /\ \A r \in Runs : phase'[r] = phase[r] \/ phase'[r] = "gone"
    BY TypesHave DEF Restart, Phases, Ended
<1>2. calls' \in [Runs -> Rounds] /\ \A r \in Runs : calls'[r] = <<>>
    BY NoCalls DEF Restart
<1>3. /\ messages' \in [Runs -> Seq(MessageSet)] /\ queue' \in [Runs -> Seq(Events)]
      /\ seen' \in [Runs -> Seq(Events)] /\ emitted' \in [Runs -> Seq(Reports)]
    BY EmptySeq, TypesHave DEF Restart
<1>4. checkpoint' \in [Sessions -> Seq(MessageSet)]
    BY EmptySeq, TypesHave DEF Restart
<1>5. restarts' \in 0 .. MaxRestarts
    BY TypesHave, BoundsAssumption DEF Restart
<1>6. Types'
    BY <1>1, <1>2, <1>3, <1>4, <1>5, TypesHave, TypesFrom, Zenon DEF Restart, request
<1>7. Placed'
    BY <1>1, <1>2 DEF Restart, Placed, PlacedAt
<1> QED BY <1>6, <1>7

-----------------------------------------------------------------------------
(***************************************************************************)
(* Streams.                                                                *)
(***************************************************************************)
LEMMA SequenceAt ==
    ASSUME NEW S, NEW s \in Seq(S), NEW t \in Seq(S)
    PROVE  /\ s \o t \in Seq(S) /\ Len(s \o t) = Len(s) + Len(t)
           /\ Len(s) \in Nat /\ Len(t) \in Nat
           /\ DOMAIN s = 1 .. Len(s) /\ DOMAIN t = 1 .. Len(t)
           /\ DOMAIN (s \o t) = 1 .. Len(s) + Len(t)
           /\ \A i \in 1 .. Len(s) : (s \o t)[i] = s[i]
           /\ \A i \in 1 .. Len(t) : (s \o t)[Len(s) + i] = t[i]
<1>1. /\ s \o t \in Seq(S) /\ Len(s \o t) = Len(s) + Len(t)
      /\ \A i \in 1 .. Len(s) + Len(t) : (s \o t)[i] =
                     IF i <= Len(s) THEN s[i] ELSE t[i - Len(s)]
    BY ConcatProperties
<1>2. /\ Len(s) \in Nat /\ Len(t) \in Nat
      /\ DOMAIN s = 1 .. Len(s) /\ DOMAIN t = 1 .. Len(t)
    BY LenProperties
<1>3. DOMAIN (s \o t) = 1 .. Len(s) + Len(t)
    BY <1>1, LenProperties
<1>4. \A i \in 1 .. Len(s) : (s \o t)[i] = s[i]
    BY <1>1, <1>2
<1>5. ASSUME NEW i \in 1 .. Len(t) PROVE (s \o t)[Len(s) + i] = t[i]
    <2>1. /\ Len(s) + i \in 1 .. Len(s) + Len(t) /\ ~(Len(s) + i <= Len(s))
          /\ (Len(s) + i) - Len(s) = i
        BY <1>2
    <2> QED BY <1>1, <2>1
<1> QED BY <1>1, <1>2, <1>3, <1>4, <1>5

LEMMA OneEvent ==
    ASSUME NEW S, NEW e \in S
    PROVE  <<e>> \in Seq(S) /\ Len(<<e>>) = 1 /\ <<e>>[1] = e /\ DOMAIN <<e>> = {1}
OBVIOUS

LEMMA StatusTyped == Status \in Events /\ Status # Done /\ <<Status>> \in Seq(Events)
<1>1. Status \in Events /\ Status # Done
    BY DEF Status, Done, Event, Events, EventTypes
<1> QED BY <1>1

\* A result is reported after its call.
LEMMA Reported ==
    ASSUME NEW em \in Seq(Reports), NEW e \in Reports, CallsFirst(em),
           e.type \in {"tool_result", "tool_error"} => Called(em, e.about)
    PROVE  /\ CallsFirst(em \o <<e>>)
           /\ \A t : Called(em, t) \/ e = Event("tool_call", t) => Called(em \o <<e>>, t)
<1>1. /\ em \o <<e>> \in Seq(Reports) /\ Len(em) \in Nat
      /\ DOMAIN em = 1 .. Len(em) /\ DOMAIN (em \o <<e>>) = 1 .. Len(em) + 1
      /\ \A i \in 1 .. Len(em) : (em \o <<e>>)[i] = em[i]
      /\ (em \o <<e>>)[Len(em) + 1] = e
    BY OneEvent, SequenceAt
<1> DEFINE new == em \o <<e>>
<1> HIDE DEF new
<1>2. ASSUME NEW i \in DOMAIN new, new[i].type \in {"tool_result", "tool_error"}
      PROVE  \E j \in 1 .. i - 1 : new[j] = Event("tool_call", new[i].about)
    <2>1. CASE i \in 1 .. Len(em)
        <3>1. new[i] = em[i]
            BY <1>1, <2>1 DEF new
        <3>2. PICK j \in 1 .. i - 1 : em[j] = Event("tool_call", em[i].about)
            BY <1>1, <1>2, <2>1, <3>1 DEF CallsFirst
        <3>3. j \in 1 .. Len(em)
            BY <1>1, <2>1
        <3> QED BY <1>1, <3>1, <3>2, <3>3 DEF new
    <2>2. CASE i = Len(em) + 1
        <3>1. new[i] = e
            BY <1>1, <2>2 DEF new
        <3>2. PICK j \in DOMAIN em : em[j] = Event("tool_call", e.about)
            BY <1>2, <3>1 DEF Called
        <3>3. j \in 1 .. i - 1 /\ new[j] = em[j]
            BY <1>1, <2>2, <3>2 DEF new
        <3> QED BY <3>1, <3>2, <3>3
    <2>3. i \in 1 .. Len(em) \/ i = Len(em) + 1
        BY <1>1 DEF new
    <2> QED BY <2>1, <2>2, <2>3
<1>3. ASSUME NEW t, Called(em, t) PROVE Called(new, t)
    <2>1. PICK j \in DOMAIN em : em[j] = Event("tool_call", t)
        BY <1>3 DEF Called
    <2>2. j \in DOMAIN new /\ new[j] = em[j]
        BY <1>1 DEF new
    <2> QED BY <2>1, <2>2 DEF Called
<1>4. ASSUME NEW t, e = Event("tool_call", t) PROVE Called(new, t)
    <2>1. Len(em) + 1 \in DOMAIN new /\ new[Len(em) + 1] = e
        BY <1>1 DEF new
    <2> QED BY <1>4, <2>1 DEF Called
<1> QED BY <1>2, <1>3, <1>4 DEF CallsFirst, new

LEMMA Together ==
    ASSUME NEW s \in Seq(Events), NEW t \in Seq(Events), NEW u \in Seq(Events)
    PROVE  s \o (t \o u) = (s \o t) \o u
BY ConcatAssociative

\* What is reported is on its way.
LEMMA OnItsWay ==
    ASSUME NEW em \in Seq(Reports), NEW sn \in Seq(Events), NEW qu \in Seq(Events),
           NEW ev \in Seq(Reports), sn \o qu = <<Status>> \o em
    PROVE  sn \o (qu \o ev) = <<Status>> \o (em \o ev)
<1>1. em \in Seq(Events) /\ ev \in Seq(Events) /\ <<Status>> \in Seq(Events)
    BY EventKinds, SeqMonotonic, StatusTyped
<1>2. sn \o (qu \o ev) = (sn \o qu) \o ev
    BY <1>1, Together
<1>3. <<Status>> \o (em \o ev) = (<<Status>> \o em) \o ev
    BY <1>1, Together
<1> QED BY <1>2, <1>3

\* Nothing of what is reported is the sentinel.
LEMMA NoSentinel ==
    ASSUME NEW em \in Seq(Reports)
    PROVE  /\ <<Status>> \o em \in Seq(Events) /\ Len(<<Status>> \o em) = 1 + Len(em)
           /\ \A i \in 1 .. 1 + Len(em) : (<<Status>> \o em)[i] # Done
<1>1. em \in Seq(Events) /\ <<Status>> \in Seq(Events)
    BY EventKinds, SeqMonotonic, StatusTyped
<1>2. \A e \in Reports : e # Done
    BY DEF Reports, Done, Event
<1>3. /\ <<Status>> \o em \in Seq(Events) /\ Len(<<Status>> \o em) = 1 + Len(em)
      /\ Len(em) \in Nat
      /\ (<<Status>> \o em)[1] = Status
      /\ \A i \in 1 .. Len(em) : (<<Status>> \o em)[1 + i] = em[i]
    BY <1>1, StatusTyped, OneEvent, SequenceAt
<1>4. ASSUME NEW i \in 1 .. 1 + Len(em) PROVE (<<Status>> \o em)[i] # Done
    <2>1. CASE i = 1
        BY <1>3, <2>1, StatusTyped
    <2>2. CASE i # 1
        <3>1. i - 1 \in 1 .. Len(em) /\ 1 + (i - 1) = i
            BY <1>3, <2>2
        <3>2. (<<Status>> \o em)[i] = em[i - 1] /\ em[i - 1] \in Reports
            BY <1>3, <3>1, ElementOfSeq
        <3> QED BY <1>2, <3>2
    <2> QED BY <2>1, <2>2
<1> QED BY <1>3, <1>4

\* A step of one run leaves the streams of the others.
LEMMA StreamsOne ==
    ASSUME Streams, NEW r \in Runs, StreamAt(r)',
           \A q \in Runs \ {r} :
             /\ phase'[q] = phase[q] /\ wire'[q] = wire[q] /\ calls'[q] = calls[q]
             /\ seen'[q] = seen[q] /\ queue'[q] = queue[q]
             /\ emitted'[q] = emitted[q] /\ answer'[q] = answer[q]
    PROVE  Streams'
<1>1. ASSUME NEW q \in Runs \ {r} PROVE StreamAt(q)'
    <2>1. StreamAt(q)
        BY DEF Streams
    <2> QED BY <1>1, <2>1 DEF StreamAt
<1> QED BY <1>1 DEF Streams

\* What is not a stream has only to be without the sentinel.
LEMMA NoStream ==
    ASSUME NEW p, NEW w, w # "stream", NEW c, NEW sn, NEW qu, NEW em, NEW a,
           p \in {"idle", "gone", "crashed", "replied"} => qu = <<>>,
           \A i \in DOMAIN qu : qu[i] # Done
    PROVE  StreamOf(p, w, c, sn, qu, em, a)
BY DEF StreamOf

\* A step that tells the caller nothing.
LEMMA SilentStream ==
    ASSUME NEW p \in Live, NEW to \in Live \ {"tools"}, NEW w, NEW c, NEW d,
           NEW sn, NEW qu, NEW em, NEW a, NEW b, StreamOf(p, w, c, sn, qu, em, a)
    PROVE  StreamOf(to, w, d, sn, qu, em, b)
BY DEF StreamOf, Live

LEMMA SilentStep ==
    ASSUME Types, Streams, NEW r \in Runs, phase[r] \in Live,
           phase'[r] \in Live \ {"tools"},
           UNCHANGED <<wire, seen, queue, emitted>>,
           \A q \in Runs \ {r} : /\ phase'[q] = phase[q] /\ calls'[q] = calls[q]
                                 /\ answer'[q] = answer[q]
    PROVE  Streams'
<1>1. StreamAt(r)
    BY DEF Streams
<1>2. StreamAt(r)'
    BY <1>1, SilentStream DEF StreamAt
<1> QED BY <1>2, StreamsOne

LEMMA SilentSteps ==
    ASSUME Types, Streams, NEW r \in Runs,
           Resume(r) \/ Begin(r) \/ Gather(r) \/ HitLimit(r) \/ Synthesize(r)
    PROVE  Streams'
<1>1. CASE Resume(r)
    <2>1. phase[r] \in Live /\ phase'[r] \in Live \ {"tools"}
        BY <1>1, TypesHave DEF Resume, Live
    <2> QED BY <1>1, <2>1, SilentStep, TypesHave DEF Resume, request, history
<1>2. CASE Begin(r)
    <2>1. phase[r] \in Live /\ phase'[r] \in Live \ {"tools"}
        BY <1>2, TypesHave DEF Begin, Live
    <2> QED BY <1>2, <2>1, SilentStep, TypesHave DEF Begin, request
<1>3. CASE Gather(r)
    <2>1. phase[r] \in Live /\ phase'[r] \in Live \ {"tools"}
        BY <1>3, TypesHave DEF Gather, Live
    <2> QED BY <1>3, <2>1, SilentStep, TypesHave DEF Gather, request, history
<1>4. CASE HitLimit(r)
    <2>1. phase[r] \in Live /\ phase'[r] \in Live \ {"tools"}
        BY <1>4, TypesHave DEF HitLimit, Live
    <2> QED BY <1>4, <2>1, SilentStep, TypesHave DEF HitLimit, request, history
<1>5. CASE Synthesize(r)
    <2>1. phase[r] \in Live /\ phase'[r] \in Live \ {"tools"}
        BY <1>5, TypesHave DEF Synthesize, Live
    <2>2. \A q \in Runs \ {r} : phase'[q] = phase[q] /\ answer'[q] = answer[q]
        BY <1>5, TypesHave DEF Synthesize
    <2> QED BY <1>5, <2>1, <2>2, SilentStep DEF Synthesize, request, history
<1> QED BY <1>1, <1>2, <1>3, <1>4, <1>5

LEMMA AskStreams ==
    ASSUME Types, Streams, NEW r \in Runs, AskOnce(r) \/ AskStream(r) \/ AskTask(r)
    PROVE  Streams'
<1>1. PICK w \in Transports, first \in Seq(Events),
           next \in {"begun", "opened", "replied", "crashed"} :
         /\ Requested(r, w, first, next)
         /\ w = "stream" => first = <<Status>> /\ next = "opened"
    <2>1. /\ <<>> \in Seq(Events) /\ <<Status>> \in Seq(Events)
          /\ <<Event("working", {})>> \in Seq(Events)
          /\ <<Event("working", {}), Event("input_required", {})>> \in Seq(Events)
        BY StatusTyped DEF Events, Event, EventTypes
    <2>2. CASE AskOnce(r)
        BY <2>1, <2>2 DEF AskOnce, Transports
    <2>3. CASE AskStream(r)
        <3>1. Requested(r, "stream", <<Status>>, "opened")
            BY <2>3 DEF AskStream, Status
        <3> QED BY <2>1, <3>1 DEF Transports
    <2>4. CASE AskTask(r)
        BY <2>1, <2>4 DEF AskTask, Transports
    <2> QED BY <2>2, <2>3, <2>4
<1>2. /\ phase[r] = "idle" /\ wire[r] = w /\ phase'[r] = next /\ seen'[r] = first
      /\ UNCHANGED <<wire, calls, queue, emitted, answer>>
    BY <1>1, TypesHave DEF Requested, request, history
<1>3. StreamAt(r)
    BY DEF Streams
<1>4. queue[r] = <<>> /\ (w = "stream" => emitted[r] = <<>>)
    BY <1>2, <1>3 DEF StreamAt, StreamOf
<1>5. <<Status>> \o <<>> = <<Status>>
    BY StatusTyped, ConcatEmptySeq
<1>6. CallsFirst(<<>>)
    BY DEF CallsFirst
<1>7. StreamOf(next, w, calls[r], first, <<>>, emitted[r], answer[r])
    <2>1. CASE w = "stream"
        <3>1. StreamOf("opened", "stream", calls[r], <<Status>>, <<>>, <<>>, answer[r])
            BY <1>5, <1>6 DEF StreamOf, Live
        <3> QED BY <1>1, <1>4, <2>1, <3>1
    <2>2. CASE w # "stream"
        BY <2>2, NoCalls DEF StreamOf
    <2> QED BY <2>1, <2>2
<1>8. StreamAt(r)'
    BY <1>2, <1>4, <1>7 DEF StreamAt
<1>9. \A q \in Runs \ {r} : phase'[q] = phase[q] /\ seen'[q] = seen[q]
    BY <1>1, TypesHave DEF Requested
<1> QED BY <1>2, <1>8, <1>9, StreamsOne

\* What Report does to the run's stream.
LEMMA ReportSends ==
    ASSUME Types, NEW r \in Runs, NEW ev \in Seq(Reports), Report(r, ev)
    PROVE  /\ wire[r] = "stream" => /\ queue'[r] = queue[r] \o ev
                                    /\ emitted'[r] = emitted[r] \o ev
           /\ wire[r] # "stream" => queue'[r] = queue[r] /\ emitted'[r] = emitted[r]
           /\ \A q \in Runs \ {r} : queue'[q] = queue[q] /\ emitted'[q] = emitted[q]
BY TypesHave DEF Report

\* A step that reports.
LEMMA ReportedStream ==
    ASSUME Types, Streams, NEW r \in Runs, NEW ev \in Seq(Reports), Report(r, ev),
           phase[r] \in Live, phase'[r] \in Live, wire'[r] = wire[r], seen'[r] = seen[r],
           wire[r] = "stream" =>
             /\ CallsFirst(emitted[r] \o ev)
             /\ phase'[r] = "tools" => \A t \in DOMAIN calls'[r] :
                  calls'[r][t] # "requested" => Called(emitted[r] \o ev, t)
    PROVE  StreamAt(r)'
<1>1. StreamAt(r)
    BY DEF Streams
<1>2. CASE wire[r] # "stream"
    <2>1. queue'[r] = queue[r]
        BY <1>2, ReportSends
    <2>2. \A i \in DOMAIN queue'[r] : queue'[r][i] # Done
        BY <1>1, <1>2, <2>1 DEF StreamAt, StreamOf
    <2> QED BY <1>2, <2>2 DEF StreamAt, StreamOf, Live
<1>3. CASE wire[r] = "stream"
    <2>1. queue'[r] = queue[r] \o ev /\ emitted'[r] = emitted[r] \o ev
        BY <1>3, ReportSends
    <2>2. seen[r] \o queue[r] = <<Status>> \o emitted[r]
        BY <1>1, <1>3 DEF StreamAt, StreamOf
    <2>3. seen[r] \o (queue[r] \o ev) = <<Status>> \o (emitted[r] \o ev)
        <3>1. /\ emitted[r] \in Seq(Reports) /\ seen[r] \in Seq(Events)
              /\ queue[r] \in Seq(Events)
            BY TypesHave
        <3> DEFINE em == emitted[r]
                   sn == seen[r]
                   qu == queue[r]
        <3>2. em \in Seq(Reports) /\ sn \in Seq(Events) /\ qu \in Seq(Events)
              /\ sn \o qu = <<Status>> \o em
            BY <2>2, <3>1
        <3> HIDE DEF em, sn, qu
        <3>3. sn \o (qu \o ev) = <<Status>> \o (em \o ev)
            BY <3>2, OnItsWay, Zenon
        <3> QED BY <3>3 DEF em, sn, qu
    <2>4. seen'[r] \o queue'[r] = <<Status>> \o emitted'[r]
        BY <2>1, <2>3
    <2> QED BY <1>3, <2>1, <2>4 DEF StreamAt, StreamOf, Live
<1> QED BY <1>2, <1>3

LEMMA SpeakingStream ==
    ASSUME NEW em \in Seq(Reports), NEW text \in Reasoning, CallsFirst(em)
    PROVE  CallsFirst(em \o text)
<1>1. text = <<>> \/ text = <<Event("reasoning", {})>>
    BY DEF Reasoning
<1>2. Event("reasoning", {}) \in Reports
        /\ Event("reasoning", {}).type \notin {"tool_result", "tool_error"}
    BY DEF Event, Reports
<1>3. CASE text = <<>>
    BY <1>3, ConcatEmptySeq
<1>4. CASE text = <<Event("reasoning", {})>>
    BY <1>2, <1>4, Reported
<1> QED BY <1>1, <1>3, <1>4

LEMMA SpeakingSteps ==
    ASSUME Types, Streams, NEW r \in Runs, CallTools(r) \/ Converge(r)
    PROVE  Streams'
<1>1. /\ phase[r] = "model" /\ phase' = [phase EXCEPT ![r] = phase'[r]]
      /\ phase'[r] \in Live
      /\ \A t \in DOMAIN calls'[r] : phase'[r] = "tools" => calls'[r][t] = "requested"
      /\ \A q \in Runs \ {r} : calls'[q] = calls[q] /\ answer'[q] = answer[q]
      /\ UNCHANGED <<wire, seen>>
    <2>1. CASE CallTools(r)
        <3>1. PICK round \in choice[r] \ {{}} :
                calls' = [calls EXCEPT ![r] = [t \in round |-> "requested"]]
            BY <2>1 DEF CallTools
        <3>2. calls'[r] = [t \in round |-> "requested"]
            BY <3>1, TypesHave
        <3>3. phase[r] = "model" /\ phase' = [phase EXCEPT ![r] = "tools"] /\ phase'[r] = "tools"
            BY <2>1, TypesHave DEF CallTools
        <3>4. \A q \in Runs \ {r} : calls'[q] = calls[q]
            BY <3>1, TypesHave
        <3> QED BY <2>1, <3>2, <3>3, <3>4 DEF CallTools, Live, request
    <2>2. CASE Converge(r)
        <3>1. /\ phase[r] = "model" /\ phase' = [phase EXCEPT ![r] = "finalize"]
              /\ phase'[r] = "finalize"
            BY <2>2, TypesHave DEF Converge
        <3>2. \A q \in Runs \ {r} : answer'[q] = answer[q]
            BY <2>2, TypesHave DEF Converge
        <3> QED BY <2>2, <3>1, <3>2 DEF Converge, Live, request
    <2> QED BY <2>1, <2>2
<1>2. PICK text \in Reasoning : Report(r, text)
    BY DEF CallTools, Converge
<1>3. text \in Seq(Reports)
    BY ReasoningTyped
<1>4. wire[r] = "stream" => CallsFirst(emitted[r] \o text)
    <2>1. StreamAt(r)
        BY DEF Streams
    <2>2. wire[r] = "stream" => CallsFirst(emitted[r])
        BY <2>1 DEF StreamAt, StreamOf
    <2> QED BY <2>2, TypesHave, SpeakingStream
<1>5. phase[r] \in Live /\ wire'[r] = wire[r] /\ seen'[r] = seen[r]
    BY <1>1 DEF Live
<1>6. phase'[r] = "tools" => \A t \in DOMAIN calls'[r] :
         calls'[r][t] # "requested" => Called(emitted[r] \o text, t)
    BY <1>1
<1>7. \A q \in Runs \ {r} : queue'[q] = queue[q] /\ emitted'[q] = emitted[q]
    BY <1>2, <1>3, ReportSends
<1>8. StreamAt(r)'
    BY <1>1, <1>2, <1>3, <1>4, <1>5, <1>6, ReportedStream
<1>9. \A q \in Runs \ {r} : phase'[q] = phase[q]
    BY <1>1, TypesHave
<1> QED BY <1>1, <1>7, <1>8, <1>9, StreamsOne

\* A tool's call, result or error.
LEMMA ToolStreams ==
    ASSUME Types, Streams, NEW r \in Runs, NEW t \in Tools,
           StartTool(r, t) \/ EndTool(r, t) \/ FailTool(r, t)
    PROVE  Streams'
<1>1. PICK from \in CallStates, to \in CallStates,
           type \in {"tool_call", "tool_result", "tool_error"} :
         /\ ToolMoves(r, t, from, to, type)
         /\ from = "requested" => type = "tool_call"
    BY DEF StartTool, EndTool, FailTool, CallStates
<1> DEFINE e == Event(type, t)
<1>2. e \in Reports /\ e.about = t /\ <<e>> \in Seq(Reports)
    BY DEF Event, Reports
<1>3. /\ phase[r] = "tools" /\ t \in DOMAIN calls[r] /\ calls[r][t] = from
      /\ calls' = [calls EXCEPT ![r][t] = to] /\ Report(r, <<e>>)
      /\ UNCHANGED <<phase, wire, seen, answer>>
    BY <1>1 DEF ToolMoves, request
<1>4. /\ DOMAIN calls'[r] = DOMAIN calls[r]
      /\ \A u \in DOMAIN calls[r] : u # t => calls'[r][u] = calls[r][u]
      /\ \A q \in Runs \ {r} : calls'[q] = calls[q]
    BY <1>3, TypesHave
<1>5. StreamAt(r)
    BY DEF Streams
<1>6. wire[r] = "stream" =>
         /\ CallsFirst(emitted[r])
         /\ \A u \in DOMAIN calls[r] : calls[r][u] # "requested" => Called(emitted[r], u)
    BY <1>3, <1>5 DEF StreamAt, StreamOf
<1>7. emitted[r] \in Seq(Reports)
    BY TypesHave
<1>8. ASSUME wire[r] = "stream"
      PROVE  /\ CallsFirst(emitted[r] \o <<e>>)
             /\ \A u \in DOMAIN calls'[r] : calls'[r][u] # "requested" =>
                  Called(emitted[r] \o <<e>>, u)
    <2>1. e.type \in {"tool_result", "tool_error"} => Called(emitted[r], e.about)
        <3>1. e.type = type
            BY DEF Event
        <3> QED BY <1>1, <1>2, <1>3, <1>6, <1>8, <3>1
    <2>2. /\ CallsFirst(emitted[r] \o <<e>>)
          /\ \A u : Called(emitted[r], u) \/ e = Event("tool_call", u) =>
                      Called(emitted[r] \o <<e>>, u)
        BY <1>2, <1>6, <1>7, <1>8, <2>1, Reported
    <2>3. Called(emitted[r] \o <<e>>, t)
        <3>1. from = "requested" => e = Event("tool_call", t)
            BY <1>1
        <3> HIDE DEF e
        <3> QED BY <1>3, <1>6, <1>8, <2>2, <3>1
    <2> HIDE DEF e
    <2> QED BY <1>4, <1>6, <1>8, <2>2, <2>3
<1> HIDE DEF e
<1>9. StreamAt(r)'
    <2>1. phase[r] \in Live /\ phase'[r] \in Live /\ wire'[r] = wire[r] /\ seen'[r] = seen[r]
        BY <1>3 DEF Live
    <2> QED BY <1>2, <1>3, <1>8, <2>1, ReportedStream
<1>10. \A q \in Runs \ {r} : queue'[q] = queue[q] /\ emitted'[q] = emitted[q]
    BY <1>2, <1>3, ReportSends
<1> QED BY <1>3, <1>4, <1>9, <1>10, StreamsOne

\* The stream of a run that is over.
LEMMA ClosingStream ==
    ASSUME NEW c, NEW sn, NEW qu, NEW em, NEW a, qu # <<>>, CallsFirst(em),
           \/ qu[Len(qu)] = Done /\ sn \o qu = (<<Status>> \o em) \o <<Done>>
           \/ sn \o qu = (<<Status>> \o em) \o StreamClosing(a)
    PROVE  StreamOf("closing", "stream", c, sn, qu, em, a)
BY DEF StreamOf, Live

\* The end of a run: the sentinel follows what was reported.
LEMMA CloseStreams ==
    ASSUME Types, Streams, NEW r \in Runs, phase[r] \in Live, NEW a \in Outcomes,
           Close(r, a), UNCHANGED <<wire, seen, emitted>>
    PROVE  Streams'
<1>1. StreamAt(r)
    BY DEF Streams
<1>2. /\ phase'[r] = IF wire[r] = "detached" THEN "gone" ELSE "closing"
      /\ \A q \in Runs \ {r} :
           /\ phase'[q] = phase[q] /\ answer'[q] = answer[q] /\ calls'[q] = calls[q]
           /\ queue'[q] = queue[q]
    BY CloseTyped
<1>3. /\ wire[r] = "detached" => queue'[r] = <<>>
      /\ wire[r] = "stream" => queue'[r] = Append(queue[r], Done)
      /\ wire[r] \notin {"detached", "stream"} => queue'[r] \in {TaskClosing(a), ReplyClosing(a)}
    BY TypesHave DEF Close
<1> SUFFICES StreamAt(r)'
    BY <1>2, StreamsOne
<1>4. CASE wire[r] = "detached"
    <2>1. wire'[r] # "stream" /\ queue'[r] = <<>> /\ DOMAIN queue'[r] = {}
        BY <1>3, <1>4, NoCalls
    <2> QED BY <2>1, NoStream, Zenon DEF StreamAt
<1>5. CASE wire[r] \notin {"detached", "stream"}
    <2>1. \A b : \A ty \in {"failed", "input_required", "artifact", "completed", "502", "200"} :
            Event(ty, b) # Done
        BY DEF Event, Done
    <2>2. \A i \in DOMAIN TaskClosing(a) : TaskClosing(a)[i] # Done
        <3>1. \A x, y : /\ DOMAIN <<x>> = {1} /\ <<x>>[1] = x
                        /\ DOMAIN <<x, y>> = {1, 2} /\ <<x, y>>[1] = x /\ <<x, y>>[2] = y
            OBVIOUS
        <3> QED BY <2>1, <3>1 DEF TaskClosing
    <2>3. \A i \in DOMAIN ReplyClosing(a) : ReplyClosing(a)[i] # Done
        <3>1. \A x : DOMAIN <<x>> = {1} /\ <<x>>[1] = x
            OBVIOUS
        <3> QED BY <2>1, <3>1 DEF ReplyClosing
    <2>4. /\ wire'[r] # "stream" /\ phase'[r] = "closing"
          /\ \A i \in DOMAIN queue'[r] : queue'[r][i] # Done
        BY <1>2, <1>3, <1>5, <2>2, <2>3
    <2> QED BY <2>4, NoStream DEF StreamAt
<1>6. CASE wire[r] = "stream"
    <2>1. seen[r] \o queue[r] = <<Status>> \o emitted[r] /\ CallsFirst(emitted[r])
        BY <1>1, <1>6 DEF StreamAt, StreamOf
    <2>2. queue[r] \in Seq(Events) /\ seen[r] \in Seq(Events) /\ <<Done>> \in Seq(Events)
        BY TypesHave, EventKinds, OneEvent
    <2>3. queue'[r] = queue[r] \o <<Done>> /\ queue'[r] \in Seq(Events) /\ queue'[r] # <<>>
          /\ queue'[r][Len(queue'[r])] = Done
        <3>1. queue'[r] = Append(queue[r], Done) /\ Done \in Events
            BY <1>3, <1>6, EventKinds
        <3>2. Append(queue[r], Done) = queue[r] \o <<Done>>
            BY <2>2, <3>1, AppendIsConcat
        <3>3. /\ queue'[r] \in Seq(Events) /\ queue'[r] # <<>>
              /\ queue'[r][Len(queue'[r])] = Done
            BY <2>2, <3>1
        <3> QED BY <3>1, <3>2, <3>3
    <2>4. seen[r] \o queue'[r] = (<<Status>> \o emitted[r]) \o <<Done>>
        <3>1. seen[r] \o (queue[r] \o <<Done>>) = (seen[r] \o queue[r]) \o <<Done>>
            BY <2>2, Together, Zenon
        <3> QED BY <2>1, <2>3, <3>1, Zenon
    <2>5. phase'[r] = "closing"
        BY <1>2, <1>6
    <2>6. seen'[r] = seen[r] /\ emitted'[r] = emitted[r] /\ wire'[r] = "stream"
        BY <1>6
    <2>7. seen'[r] \o queue'[r] = (<<Status>> \o emitted'[r]) \o <<Done>>
        BY <2>4, <2>6, Zenon
    <2>8. CallsFirst(emitted'[r])
        BY <2>1, <2>6
    <2> QED BY <2>3, <2>5, <2>6, <2>7, <2>8, ClosingStream DEF StreamAt
<1> QED BY <1>4, <1>5, <1>6

LEMMA EndStreams ==
    ASSUME Types, Placed, Streams, NEW r \in Runs, Fail(r) \/ Finalize(r)
    PROVE  Streams'
<1>1. /\ phase[r] \in Live /\ UNCHANGED <<wire, seen, emitted>>
      /\ \E a \in Outcomes : Close(r, a)
    <2>1. CASE Fail(r)
        BY <2>1 DEF Fail, Outcomes, Live, request, history
    <2>2. CASE Finalize(r)
        <3>1. \E a \in Outcomes : Close(r, a)
            BY <2>2, FinalOutcome DEF Outcomes
        <3> QED BY <2>2, <3>1 DEF Finalize, Live, request, history
    <2> QED BY <2>1, <2>2
<1> QED BY <1>1, CloseStreams

\* One event of a queue is taken.
LEMMA Taken ==
    ASSUME NEW sn \in Seq(Events), NEW qu \in Seq(Events), qu # <<>>
    PROVE  /\ Tail(qu) \in Seq(Events) /\ Len(Tail(qu)) = Len(qu) - 1 /\ Len(qu) \in Nat \ {0}
           /\ Head(qu) = qu[1] /\ \A i \in 1 .. Len(qu) - 1 : Tail(qu)[i] = qu[i + 1]
           /\ Append(sn, Head(qu)) \in Seq(Events)
           /\ Append(sn, Head(qu)) \o Tail(qu) = sn \o qu
<1>1. /\ Tail(qu) \in Seq(Events) /\ Len(Tail(qu)) = Len(qu) - 1 /\ Len(qu) \in Nat \ {0}
      /\ Head(qu) = qu[1] /\ \A i \in 1 .. Len(qu) - 1 : Tail(qu)[i] = qu[i + 1]
      /\ Head(qu) \in Events
    OBVIOUS
<1>2. <<Head(qu)>> \in Seq(Events) /\ Append(sn, Head(qu)) \in Seq(Events)
    BY <1>1
<1>3. Append(sn, Head(qu)) = sn \o <<Head(qu)>>
    BY <1>1, AppendIsConcat
<1>4. <<Head(qu)>> \o Tail(qu) = qu
    <2>1. /\ <<Head(qu)>> \o Tail(qu) \in Seq(Events)
          /\ Len(<<Head(qu)>> \o Tail(qu)) = Len(qu)
        BY <1>1, <1>2, SequenceAt, OneEvent
    <2>2. ASSUME NEW i \in 1 .. Len(qu) PROVE (<<Head(qu)>> \o Tail(qu))[i] = qu[i]
        <3>1. Len(<<Head(qu)>>) = 1 /\ <<Head(qu)>>[1] = Head(qu)
            OBVIOUS
        <3>2. (<<Head(qu)>> \o Tail(qu))[i] = IF i <= 1 THEN <<Head(qu)>>[i] ELSE Tail(qu)[i - 1]
            BY <1>1, <1>2, <3>1, ConcatProperties
        <3>3. CASE i = 1
            BY <1>1, <3>1, <3>2, <3>3
        <3>4. CASE i # 1
            <4>1. i - 1 \in 1 .. Len(qu) - 1 /\ (i - 1) + 1 = i /\ ~(i <= 1)
                BY <1>1, <3>4
            <4> QED BY <1>1, <3>2, <4>1
        <3> QED BY <3>3, <3>4
    <2> QED BY <2>1, <2>2, SeqEqual
<1>5. sn \o (<<Head(qu)>> \o Tail(qu)) = (sn \o <<Head(qu)>>) \o Tail(qu)
    BY <1>1, <1>2, Together
<1> QED BY <1>1, <1>2, <1>3, <1>4, <1>5

LEMMA RepliedStream ==
    ASSUME NEW c, NEW sn, NEW em, NEW a, CallsFirst(em),
           sn = (<<Status>> \o em) \o StreamClosing(a)
    PROVE  StreamOf("replied", "stream", c, sn, <<>>, em, a)
BY DEF StreamOf, Live

LEMMA DeliveredStream ==
    ASSUME NEW p \in Phases, NEW w, NEW c, NEW sn \in Seq(Events), NEW qu \in Seq(Events),
           NEW em, NEW a, StreamOf(p, w, c, sn, qu, em, a), qu # <<>>, Head(qu) # Done
    PROVE  StreamOf(IF p = "closing" /\ Tail(qu) = <<>> THEN "replied" ELSE p, w, c,
                    Append(sn, Head(qu)), Tail(qu), em, a)
<1> DEFINE to == IF p = "closing" /\ Tail(qu) = <<>> THEN "replied" ELSE p
<1>1. /\ Tail(qu) \in Seq(Events) /\ Len(Tail(qu)) = Len(qu) - 1 /\ Len(qu) \in Nat \ {0}
      /\ Head(qu) = qu[1] /\ \A i \in 1 .. Len(qu) - 1 : Tail(qu)[i] = qu[i + 1]
      /\ Append(sn, Head(qu)) \in Seq(Events)
      /\ Append(sn, Head(qu)) \o Tail(qu) = sn \o qu
    BY Taken
<1>2. p \in Live \cup {"closing"}
    BY DEF StreamOf, Phases, Ended, Live
<1>3. to \in {"idle", "gone", "crashed", "replied"} => Tail(qu) = <<>>
    BY <1>2 DEF Live
<1>4. CASE w # "stream"
    <2>1. \A i \in 1 .. Len(qu) : qu[i] # Done
        BY <1>4 DEF StreamOf
    <2>2. DOMAIN Tail(qu) = 1 .. Len(qu) - 1
        BY <1>1
    <2>3. \A i \in 1 .. Len(qu) - 1 : i + 1 \in 1 .. Len(qu)
        BY <1>1
    <2>4. \A i \in DOMAIN Tail(qu) : Tail(qu)[i] # Done
        BY <1>1, <2>1, <2>2, <2>3
    <2> QED BY <1>3, <1>4, <2>4 DEF StreamOf
<1>5. CASE w = "stream" /\ p \in Live
    <2>1. sn \o qu = <<Status>> \o em
        BY <1>5 DEF StreamOf
    <2>2. Append(sn, Head(qu)) \o Tail(qu) = <<Status>> \o em /\ to = p
        BY <1>1, <1>5, <2>1 DEF Live
    <2> HIDE DEF to
    <2> QED BY <1>5, <2>2 DEF StreamOf, Live, to
<1>6. CASE w = "stream" /\ p = "closing"
    <2>1. CallsFirst(em)
        BY <1>6 DEF StreamOf
    <2>2. CASE qu[Len(qu)] = Done /\ sn \o qu = (<<Status>> \o em) \o <<Done>>
        <3>1. Len(qu) # 1
            BY <1>1, <2>2
        <3>2. Len(qu) - 1 \in 1 .. Len(qu) - 1 /\ (Len(qu) - 1) + 1 = Len(qu)
            BY <1>1, <3>1
        <3>3. Tail(qu)[Len(Tail(qu))] = Done /\ Tail(qu) # <<>>
            <4>1. Tail(qu)[Len(Tail(qu))] = Done
                BY <1>1, <2>2, <3>2
            <4>2. Len(Tail(qu)) # 0
                BY <1>1, <3>1
            <4>3. Len(<<>>) = 0
                OBVIOUS
            <4>4. Tail(qu) # <<>>
                BY <4>2, <4>3, Zenon
            <4> QED BY <4>1, <4>4
        <3>4. Append(sn, Head(qu)) \o Tail(qu) = (<<Status>> \o em) \o <<Done>>
            BY <1>1, <2>2
        <3> QED BY <1>6, <2>1, <3>3, <3>4, ClosingStream
    <2>3. CASE sn \o qu = (<<Status>> \o em) \o StreamClosing(a)
        <3>1. Append(sn, Head(qu)) \o Tail(qu) = (<<Status>> \o em) \o StreamClosing(a)
            BY <1>1, <2>3
        <3>2. CASE Tail(qu) = <<>>
            <4>1. Append(sn, Head(qu)) = (<<Status>> \o em) \o StreamClosing(a)
                BY <1>1, <3>1, <3>2, ConcatEmptySeq
            <4>2. to = "replied"
                BY <1>6, <3>2
            <4> HIDE DEF to
            <4> QED BY <1>6, <2>1, <3>2, <4>1, <4>2, RepliedStream DEF to
        <3>3. CASE Tail(qu) # <<>>
            <4>1. to = "closing"
                BY <1>6, <3>3
            <4> QED BY <1>6, <2>1, <3>1, <3>3, <4>1, ClosingStream
        <3> QED BY <3>2, <3>3
    <2> QED BY <1>6, <2>2, <2>3 DEF StreamOf
<1> QED BY <1>2, <1>4, <1>5, <1>6

LEMMA DeliverStreams ==
    ASSUME Types, Streams, NEW r \in Runs, Deliver(r)
    PROVE  Streams'
<1>1. /\ phase[r] \in Phases /\ seen[r] \in Seq(Events) /\ queue[r] \in Seq(Events)
      /\ queue[r] # <<>> /\ Head(queue[r]) # Done
    BY TypesHave DEF Deliver
<1>2. /\ seen'[r] = Append(seen[r], Head(queue[r])) /\ queue'[r] = Tail(queue[r])
      /\ phase'[r] = IF phase[r] = "closing" /\ Tail(queue[r]) = <<>> THEN "replied"
                     ELSE phase[r]
      /\ UNCHANGED <<wire, calls, answer, emitted>>
    BY TypesHave DEF Deliver, request, history
<1>3. StreamOf(phase[r], wire[r], calls[r], seen[r], queue[r], emitted[r], answer[r])
    BY DEF Streams, StreamAt
<1>4. StreamOf(phase'[r], wire[r], calls[r], seen'[r], queue'[r], emitted[r], answer[r])
    <2>1. StreamOf(IF phase[r] = "closing" /\ Tail(queue[r]) = <<>> THEN "replied"
                   ELSE phase[r], wire[r], calls[r], Append(seen[r], Head(queue[r])),
                   Tail(queue[r]), emitted[r], answer[r])
        BY <1>1, <1>3, DeliveredStream, Zenon
    <2> QED BY <1>2, <2>1, Zenon
<1>5. StreamAt(r)'
    BY <1>2, <1>4 DEF StreamAt
<1>6. \A q \in Runs \ {r} :
         phase'[q] = phase[q] /\ seen'[q] = seen[q] /\ queue'[q] = queue[q]
    BY TypesHave DEF Deliver
<1> QED BY <1>2, <1>5, <1>6, StreamsOne

LEMMA JoinStreams ==
    ASSUME Types, Placed, Streams, NEW r \in Runs, Join(r)
    PROVE  answer[r] \in Outcomes /\ Streams'
<1> DEFINE sn == seen[r]
           qu == queue[r]
           said == <<Status>> \o emitted[r]
<1>1. /\ phase[r] \in Phases /\ sn \in Seq(Events) /\ qu \in Seq(Events)
      /\ emitted[r] \in Seq(Reports) /\ qu # <<>> /\ qu[1] = Done
    BY TypesHave DEF Join
<1>2. StreamOf(phase[r], wire[r], calls[r], sn, qu, emitted[r], answer[r])
    BY DEF Streams, StreamAt
<1>3. /\ said \in Seq(Events) /\ Len(said) = 1 + Len(emitted[r])
      /\ \A i \in 1 .. Len(said) : said[i] # Done
    BY <1>1, NoSentinel
<1> HIDE DEF sn, qu
<1>4. /\ Len(qu) \in Nat \ {0} /\ Len(sn) \in Nat /\ DOMAIN qu = 1 .. Len(qu)
      /\ sn \o qu \in Seq(Events) /\ Len(sn \o qu) = Len(sn) + Len(qu)
      /\ \A i \in 1 .. Len(sn) : (sn \o qu)[i] = sn[i]
      /\ (sn \o qu)[Len(sn) + 1] = Done
    BY <1>1, SequenceAt
<1> HIDE DEF said
<1>5. wire[r] = "stream"
    BY <1>1, <1>2, <1>4 DEF StreamOf
<1>6. phase[r] \in Live \cup {"closing"}
    BY <1>1, <1>2 DEF StreamOf, Phases, Ended, Live
<1>7. sn \o qu # said
    <2>1. SUFFICES ASSUME sn \o qu = said PROVE FALSE
        OBVIOUS
    <2>2. Len(sn) + 1 \in 1 .. Len(said)
        BY <1>4, <2>1
    <2> QED BY <1>3, <1>4, <2>1, <2>2
<1>8. phase[r] = "closing"
    BY <1>2, <1>5, <1>6, <1>7 DEF StreamOf, said
<1>9. answer[r] \in Outcomes
    BY <1>8 DEF Placed, PlacedAt
<1>10. sn \o qu # said \o StreamClosing(answer[r])
    <2> DEFINE cl == StreamClosing(answer[r])
    <2>1. cl \in Seq(Events) /\ Len(cl) = 2 /\ \A i \in 1 .. 2 : cl[i] # Done
        <3>1. cl \in Seq(Events)
            BY <1>9, EventKinds
        <3>2. answer[r].kind \in {"error", "clarification", "context_result"}
            BY <1>9 DEF Outcomes, AnswerSet, Failure
        <3>3. \A b : \A ty \in {"final", "error", "clarification", "done"} : Event(ty, b) # Done
            BY DEF Event, Done
        <3>4. \A x, y : Len(<<x, y>>) = 2 /\ <<x, y>>[1] = x /\ <<x, y>>[2] = y
            OBVIOUS
        <3> QED BY <3>1, <3>2, <3>3, <3>4 DEF StreamClosing
    <2> HIDE DEF cl
    <2>2. /\ Len(said \o cl) = Len(said) + 2 /\ Len(said) \in Nat
          /\ \A i \in 1 .. Len(said) : (said \o cl)[i] = said[i]
          /\ \A i \in 1 .. 2 : (said \o cl)[Len(said) + i] = cl[i]
        <3>1. /\ Len(said \o cl) = Len(said) + Len(cl) /\ Len(said) \in Nat
              /\ \A i \in 1 .. Len(said) : (said \o cl)[i] = said[i]
              /\ \A i \in 1 .. Len(cl) : (said \o cl)[Len(said) + i] = cl[i]
            <4>1. said \in Seq(Events) /\ cl \in Seq(Events)
                BY <1>3, <2>1
            <4> QED BY <4>1, SequenceAt
        <3>2. Len(cl) = 2
            BY <2>1
        <3> QED BY <3>1, <3>2, Zenon
    <2>3. SUFFICES ASSUME sn \o qu = said \o cl PROVE FALSE
        BY DEF cl
    <2>4. Len(sn) + 1 \in 1 .. Len(said) + 2
        BY <1>4, <2>2, <2>3
    <2>5. CASE Len(sn) + 1 \in 1 .. Len(said)
        BY <1>3, <1>4, <2>2, <2>3, <2>5
    <2>6. CASE Len(sn) + 1 = Len(said) + 1
        BY <1>4, <2>1, <2>2, <2>3, <2>6
    <2>7. CASE Len(sn) + 1 = Len(said) + 2
        BY <1>4, <2>1, <2>2, <2>3, <2>7
    <2> QED BY <1>4, <2>2, <2>4, <2>5, <2>6, <2>7
<1>11. sn \o qu = said \o <<Done>> /\ CallsFirst(emitted[r])
    BY <1>2, <1>5, <1>8, <1>10 DEF StreamOf, said
\* The sentinel is the last that is queued: the reader has had all before it.
<1>12. sn = said
    <2>1. <<Done>> \in Seq(Events) /\ Len(<<Done>>) = 1
        BY EventKinds, OneEvent
    <2>2. /\ Len(said \o <<Done>>) = Len(said) + 1 /\ Len(said) \in Nat
          /\ \A i \in 1 .. Len(said) : (said \o <<Done>>)[i] = said[i]
        BY <1>3, <2>1, SequenceAt
    <2>3. Len(sn) = Len(said)
        <3>1. Len(sn) + 1 \notin 1 .. Len(said)
            BY <1>3, <1>4, <1>11, <2>2
        <3>2. Len(sn) + Len(qu) = Len(said) + 1
            BY <1>4, <1>11, <2>2
        <3> QED BY <1>4, <2>2, <3>1, <3>2
    <2>4. \A i \in 1 .. Len(sn) : sn[i] = said[i]
        BY <1>4, <1>11, <2>2, <2>3
    <2> QED BY <1>1, <1>3, <2>3, <2>4, SeqEqual
<1>13. /\ queue'[r] = StreamClosing(answer[r])
       /\ \A q \in Runs \ {r} : queue'[q] = queue[q]
       /\ UNCHANGED <<phase, wire, calls, seen, emitted, answer>>
    BY TypesHave DEF Join, request, history
<1>14. StreamAt(r)'
    <2>1. StreamClosing(answer[r]) # <<>>
        BY DEF StreamClosing
    <2>2. seen[r] \o StreamClosing(answer[r]) =
            (<<Status>> \o emitted[r]) \o StreamClosing(answer[r])
        BY <1>12 DEF sn, said
    <2>3. StreamOf("closing", "stream", calls[r], seen[r], StreamClosing(answer[r]),
                   emitted[r], answer[r])
        BY <1>11, <2>1, <2>2, ClosingStream
    <2> QED BY <1>5, <1>8, <1>13, <2>3 DEF StreamAt
<1> QED BY <1>9, <1>13, <1>14, StreamsOne

LEMMA LeaveStreams ==
    ASSUME Types, Streams, NEW r \in Runs, Leave(r)
    PROVE  Streams'
<1>1. /\ queue'[r] = <<>> /\ emitted'[r] = <<>>
      /\ phase'[r] = "gone" \/ wire'[r] = "detached"
      /\ \A q \in Runs \ {r} : /\ phase'[q] = phase[q] /\ wire'[q] = wire[q]
                               /\ seen'[q] = seen[q] /\ queue'[q] = queue[q]
                               /\ emitted'[q] = emitted[q]
      /\ UNCHANGED <<calls, answer>>
    BY TypesHave DEF Leave
<1>2. DOMAIN <<>> = {} /\ CallsFirst(<<>>)
    BY NoCalls DEF CallsFirst
<1>3. StreamAt(r)'
    <2>1. CASE phase'[r] = "gone"
        BY <1>1, <1>2, <2>1 DEF StreamAt, StreamOf, Live
    <2>2. CASE wire'[r] = "detached"
        BY <1>1, <1>2, <2>2 DEF StreamAt, StreamOf
    <2> QED BY <1>1, <2>1, <2>2
<1> QED BY <1>1, <1>3, StreamsOne

LEMMA RestartStreams ==
    ASSUME Types, Streams, Restart
    PROVE  Streams'
<1> SUFFICES ASSUME NEW r \in Runs PROVE StreamAt(r)'
    BY DEF Streams
<1>1. /\ queue'[r] = <<>> /\ calls'[r] = <<>>
      /\ UNCHANGED <<wire, answer>>
      /\ phase'[r] = IF Active(r) THEN "gone" ELSE phase[r]
      /\ seen'[r] = IF Active(r) THEN <<>> ELSE seen[r]
      /\ emitted'[r] = IF Active(r) THEN <<>> ELSE emitted[r]
    BY DEF Restart, request
<1>2. DOMAIN <<>> = {} /\ CallsFirst(<<>>)
    BY NoCalls DEF CallsFirst
<1>3. CASE Active(r)
    BY <1>1, <1>2, <1>3 DEF StreamAt, StreamOf, Live
<1>4. CASE ~Active(r)
    <2>1. phase[r] \in {"idle", "gone", "crashed", "replied"}
        BY <1>4 DEF Active, Ended
    <2>2. StreamAt(r)
        BY DEF Streams
    <2> QED BY <1>1, <1>2, <1>4, <2>1, <2>2 DEF StreamAt, StreamOf, Live
<1> QED BY <1>3, <1>4

LEMMA InitStreams == Init => Streams
<1> SUFFICES ASSUME Init, NEW r \in Runs PROVE StreamAt(r)
    BY DEF Streams
<1>1. queue[r] = <<>> /\ seen[r] = <<>> /\ emitted[r] = <<>>
    BY DEF Init
<1>2. phase[r] \in {"idle", "gone"}
    BY DEF Init
<1>3. DOMAIN <<>> = {} /\ CallsFirst(<<>>)
    BY NoCalls DEF CallsFirst
<1> QED BY <1>1, <1>2, <1>3 DEF StreamAt, StreamOf, Live

-----------------------------------------------------------------------------
(***************************************************************************)
(* The types, the places and the streams together: Join sends the outcome  *)
(* of a run that is over, which its stream tells.                          *)
(***************************************************************************)
Sound == Types /\ Placed /\ Streams

LEMMA SoundKept ==
    ASSUME Sound, [Next]_vars
    PROVE  Sound'
<1> USE DEF Sound
<1>1. ASSUME NEW r \in Runs, AskOnce(r) \/ AskStream(r) \/ AskTask(r) PROVE Sound'
    BY <1>1, AskTyped, AskStreams
<1>2. ASSUME NEW r \in Runs, Step(r) PROVE Sound'
    <2>1. CASE Resume(r)
        BY <2>1, ResumeTyped, SilentSteps
    <2>2. CASE Begin(r)
        BY <2>2, BeginTyped, SilentSteps
    <2>3. CASE CallTools(r)
        BY <2>3, CallToolsTyped, SpeakingSteps
    <2>4. CASE Gather(r)
        BY <2>4, GatherTyped, SilentSteps
    <2>5. CASE HitLimit(r)
        BY <2>5, HitLimitTyped, SilentSteps
    <2>6. CASE Converge(r)
        BY <2>6, ConvergeTyped, SpeakingSteps
    <2>7. CASE Synthesize(r)
        BY <2>7, SynthesizeTyped, SilentSteps
    <2>8. CASE Fail(r)
        BY <2>8, FailTyped, EndStreams
    <2>9. CASE Finalize(r)
        BY <2>9, FinalizeTyped, EndStreams
    <2>10. CASE Deliver(r)
        BY <2>10, DeliverTyped, DeliverStreams
    <2>11. CASE Join(r)
        BY <2>11, JoinStreams, JoinTyped
    <2>12. ASSUME NEW t \in Tools, StartTool(r, t) \/ EndTool(r, t) \/ FailTool(r, t)
           PROVE  Sound'
        BY <2>12, ToolsTyped, ToolStreams
    <2> QED BY <1>2, <2>1, <2>2, <2>3, <2>4, <2>5, <2>6, <2>7, <2>8, <2>9, <2>10,
               <2>11, <2>12 DEF Step, Advance
<1>3. ASSUME NEW r \in Runs, Leave(r) PROVE Sound'
    BY <1>3, LeaveTyped, LeaveStreams
<1>4. CASE Restart
    BY <1>4, RestartTyped, RestartStreams
<1>5. CASE UNCHANGED vars
    <2>1. Types'
        BY <1>5, Zenon DEF Types, vars, server, request, history
    <2>2. Placed'
        BY <1>5 DEF Placed, PlacedAt, vars, history
    <2>3. Streams'
        BY <1>5 DEF Streams, StreamAt, vars, request, history
    <2> QED BY <2>1, <2>2, <2>3
<1> QED BY <1>1, <1>2, <1>3, <1>4, <1>5 DEF Next, Settled

LEMMA AlwaysSound == Spec => []Sound
<1>1. Init => Sound
    BY InitTyped, InitStreams DEF Sound
<1>2. Sound /\ [Next]_vars => Sound'
    BY SoundKept
<1> QED BY <1>1, <1>2, PTL DEF Spec

(***************************************************************************)
(* Type correctness: what the variables hold, at every place of a run.     *)
(***************************************************************************)
THEOREM TypeCorrect == Spec => []TypeOK
<1>1. Sound => TypeOK
    <2> SUFFICES ASSUME Sound PROVE TypeOK
        OBVIOUS
    <2>1. durable \in BOOLEAN /\ restarts \in 0 .. MaxRestarts
        BY DEF Sound, Types
    <2>2. ASSUME NEW r \in Runs
          PROVE  /\ phase[r] \in Phases /\ wire[r] \in Wires /\ session[r] \in Sessions
                 /\ cap[r] \in 0 .. MaxFindings + 1 /\ rounds[r] \in 0 .. MaxRounds
                 /\ calls[r] \in Rounds /\ answer[r] \in Outcomes \cup {None}
        BY Zenon DEF Sound, Types
    <2>3. ASSUME NEW r \in Runs
          PROVE  answer[r].kind \in {"none", "error", "clarification", "context_result"}
        BY <2>2 DEF Outcomes, AnswerSet, Failure, None
    <2>4. \A r \in Runs : DOMAIN calls[r] \subseteq Tools
        BY <2>2, CallsTyped
    <2> QED BY <2>1, <2>2, <2>3, <2>4, Zenon DEF TypeOK, Phases, Wires
<1> QED BY <1>1, AlwaysSound, PTL

(***************************************************************************)
(* A stream whose reader stays delivers the status, all that the callbacks *)
(* reported with each result after its call, one outcome, which is the     *)
(* run's, and `done` (agent.py astream).  The queue and what was seen are  *)
(* together what was reported, and the sentinel is the last in the queue.  *)
(***************************************************************************)
THEOREM WholeStreams == Spec => []StreamIsWhole
<1>1. Sound => StreamIsWhole
    <2> SUFFICES ASSUME Sound, NEW r \in Runs, wire[r] = "stream", phase[r] = "replied"
                 PROVE  /\ seen[r] = <<Status>> \o emitted[r] \o StreamClosing(answer[r])
                        /\ \A i \in DOMAIN seen[r] :
                             seen[r][i].type \in {"tool_result", "tool_error"} =>
                               \E j \in 1 .. i - 1 :
                                 seen[r][j] = Event("tool_call", seen[r][i].about)
        BY DEF StreamIsWhole, Status
    <2> DEFINE em == emitted[r]
               cl == StreamClosing(answer[r])
    <2>1. /\ em \in Seq(Reports) /\ seen[r] \in Seq(Events)
          /\ seen[r] = (<<Status>> \o em) \o cl /\ CallsFirst(em)
        <3>1. StreamAt(r)
            BY DEF Sound, Streams
        <3>2. Types
            BY DEF Sound
        <3> QED BY <3>1, <3>2, TypesHave DEF StreamAt, StreamOf
    <2>2. /\ Len(cl) = 2 /\ DOMAIN cl = 1 .. 2 /\ Len(em) \in Nat
          /\ \A i \in 1 .. 2 : cl[i].type \notin {"tool_result", "tool_error"}
        <3>1. \A x, y : /\ Len(<<x, y>>) = 2 /\ DOMAIN <<x, y>> = 1 .. 2
                        /\ <<x, y>>[1] = x /\ <<x, y>>[2] = y
            OBVIOUS
        <3>2. answer[r].kind \in {"none", "error", "clarification", "context_result"}
            <4>1. answer[r] \in Outcomes \cup {None}
                BY TypesHave DEF Sound
            <4> QED BY <4>1 DEF Outcomes, AnswerSet, Failure, None
        <3>3. \A ty, b : Event(ty, b).type = ty
            BY DEF Event
        <3>4. /\ cl[1].type \notin {"tool_result", "tool_error"}
              /\ cl[2].type \notin {"tool_result", "tool_error"}
              /\ Len(cl) = 2 /\ DOMAIN cl = 1 .. 2
            BY <3>1, <3>2, <3>3 DEF StreamClosing
        <3> HIDE DEF cl
        <3>5. \A i \in 1 .. 2 : i = 1 \/ i = 2
            OBVIOUS
        <3> QED BY <2>1, <3>4, <3>5
    <2> HIDE DEF em, cl
    <2>3. /\ <<Status>> \in Seq(Events) /\ Len(<<Status>>) = 1 /\ em \in Seq(Events)
          /\ <<Status>>[1] = Status /\ Status.type = "status"
        BY <2>1, StatusTyped, EventKinds, SeqMonotonic DEF Status, Event
    <2> DEFINE S == Events \cup {cl[1], cl[2]}
               said == <<Status>> \o em
    <2>4. em \in Seq(S) /\ <<Status>> \in Seq(S) /\ cl \in Seq(S)
        <3>1. Events \subseteq S
            OBVIOUS
        <3>2. em \in Seq(S) /\ <<Status>> \in Seq(S)
            BY <2>3, <3>1, SeqMonotonic
        <3>3. \A i \in 1 .. 2 : cl[i] \in S
            OBVIOUS
        <3>4. cl = [i \in 1 .. 2 |-> cl[i]]
            BY DEF cl, StreamClosing
        <3> HIDE DEF S
        <3>5. cl \in [1 .. 2 -> S]
            BY <3>3, <3>4
        <3>6. cl \in UNION {[1 .. n -> S] : n \in Nat}
            BY <3>5
        <3> QED BY <3>2, <3>6, SeqDef, Zenon
    <2> HIDE DEF S
    <2>5. /\ said \in Seq(S) /\ Len(said) = 1 + Len(em) /\ said[1] = Status
          /\ \A k \in 1 .. Len(em) : said[1 + k] = em[k]
        <3>1. /\ said \in Seq(S) /\ Len(said) = Len(<<Status>>) + Len(em)
              /\ \A k \in 1 .. Len(<<Status>>) : said[k] = <<Status>>[k]
              /\ \A k \in 1 .. Len(em) : said[Len(<<Status>>) + k] = em[k]
            BY <2>4, SequenceAt
        <3> QED BY <2>3, <3>1
    <2> HIDE DEF said
    <2>6. /\ DOMAIN seen[r] = 1 .. Len(said) + Len(cl)
          /\ \A k \in 1 .. Len(said) : seen[r][k] = said[k]
          /\ \A k \in 1 .. Len(cl) : seen[r][Len(said) + k] = cl[k]
        <3>1. seen[r] = said \o cl
            BY <2>1 DEF said
        <3>2. /\ DOMAIN (said \o cl) = 1 .. Len(said) + Len(cl)
              /\ \A k \in 1 .. Len(said) : (said \o cl)[k] = said[k]
              /\ \A k \in 1 .. Len(cl) : (said \o cl)[Len(said) + k] = cl[k]
            <4>1. said \in Seq(S) /\ cl \in Seq(S)
                BY <2>4, <2>5
            <4> QED BY <4>1, SequenceAt
        <3> QED BY <3>1, <3>2, Zenon
    <2>7. ASSUME NEW i \in DOMAIN seen[r],
                 seen[r][i].type \in {"tool_result", "tool_error"}
          PROVE  \E j \in 1 .. i - 1 : seen[r][j] = Event("tool_call", seen[r][i].about)
        <3>1. CASE i = 1
            BY <2>2, <2>3, <2>5, <2>6, <2>7, <3>1
        <3>2. CASE i \in 2 .. 1 + Len(em)
            <4>1. i - 1 \in 1 .. Len(em) /\ 1 + (i - 1) = i
                BY <2>2, <3>2
            <4>2. seen[r][i] = em[i - 1]
                BY <2>2, <2>5, <2>6, <3>2, <4>1
            <4>3. PICK j \in 1 .. (i - 1) - 1 : em[j] = Event("tool_call", em[i - 1].about)
                <5>1. i - 1 \in DOMAIN em
                    BY <2>1, <4>1
                <5> QED BY <2>1, <2>7, <4>2, <5>1 DEF CallsFirst
            <4>4. 1 + j \in 1 .. i - 1 /\ j \in 1 .. Len(em) /\ 1 + j \in 1 .. Len(said)
                BY <2>2, <2>5, <3>2, <4>1
            <4>5. seen[r][1 + j] = em[j]
                BY <2>5, <2>6, <4>4
            <4> QED BY <4>2, <4>3, <4>4, <4>5
        <3>3. CASE i \in 2 + Len(em) .. 3 + Len(em)
            <4>1. i - Len(said) \in 1 .. 2 /\ Len(said) + (i - Len(said)) = i
                BY <2>2, <2>5, <3>3
            <4>2. seen[r][i] = cl[i - Len(said)]
                BY <2>2, <2>6, <4>1
            <4> QED BY <2>2, <2>7, <4>1, <4>2
        <3>4. i = 1 \/ i \in 2 .. 1 + Len(em) \/ i \in 2 + Len(em) .. 3 + Len(em)
            BY <2>2, <2>5, <2>6
        <3> QED BY <3>1, <3>2, <3>3, <3>4
    <2> QED BY <2>1, <2>7 DEF em, cl
<1> QED BY <1>1, AlwaysSound, PTL

-----------------------------------------------------------------------------
(***************************************************************************)
(* What the conversations know and what the runs were told.                *)
(***************************************************************************)
Newly(c) == UNION {Told[t] : t \in {u \in DOMAIN c : c[u] = "told"}}

\* Nothing is known in a session that no tool told in it.
KnownIsTold ==
  /\ \A s \in Sessions : Evidence(checkpoint[s]) \subseteq ToldIn(s)
  /\ \A r \in Runs : Evidence(messages[r]) \subseteq ToldIn(session[r])
  /\ \A r \in Runs : Newly(calls[r]) \subseteq own[r]

\* Two runs of a session that are under way know of each other, and the
\* thread of one that is alone is what it works on.
AloneInSession ==
  \A r \in Runs : Running(r) /\ ~shared[r] =>
    /\ checkpoint[session[r]] = messages[r]
    /\ \A q \in Runs \ {r} : Running(q) => session[q] # session[r]

\* What the tools of a run told is in its messages or on the way to them.
ToldIsKept ==
  \A r \in Runs : Running(r) => own[r] \subseteq Evidence(messages[r]) \cup Newly(calls[r])

\* The check comes last.
CheckedLast == \A r \in Runs : r \in checked => phase[r] \in {"closing", "replied", "gone"}
\* The findings of a run that were checked, as they go out.
Checked(r, f) ==
  /\ f.verified = "true" => Enough(f.lines, ToldIn(session[r]))
  /\ f.verified = "false" => shared[r] \/ ~(ToSet(f.lines) \subseteq own[r])
SentOutBy(r) ==
  r \in checked /\ phase[r] \in {"closing", "replied"} /\ answer[r].kind = "context_result" =>
    \A i \in DOMAIN answer[r].findings : Checked(r, answer[r].findings[i])
SentOut == \A r \in Runs : SentOutBy(r)

Grounded ==
  Sound /\ KnownIsTold /\ AloneInSession /\ ToldIsKept /\ CheckedLast /\ SentOut

LEMMA EvidenceNothing ==
    /\ Evidence(<<>>) = {} /\ Newly(<<>>) = {}
    /\ \A kind : Evidence(<<Message(kind, {})>>) = {}
<1>1. Evidence(<<>>) = {} /\ Newly(<<>>) = {}
    BY NoCalls DEF Evidence, Newly
<1>2. ASSUME NEW kind PROVE Evidence(<<Message(kind, {})>>) = {}
    <2>1. \A i \in DOMAIN <<Message(kind, {})>> : <<Message(kind, {})>>[i].lines = {}
        BY DEF Message
    <2> QED BY <2>1 DEF Evidence
<1> QED BY <1>1, <1>2

\* What is added to a history adds what it tells.
LEMMA EvidenceAdds ==
    ASSUME NEW h \in Seq(MessageSet), NEW new \in Seq(MessageSet)
    PROVE  Evidence(h \o new) = Evidence(h) \cup Evidence(new)
<1> DEFINE all == h \o new
<1>1. /\ Len(h) \in Nat /\ Len(new) \in Nat
      /\ DOMAIN h = 1 .. Len(h) /\ DOMAIN new = 1 .. Len(new)
      /\ DOMAIN all = 1 .. Len(h) + Len(new)
      /\ \A i \in 1 .. Len(h) : all[i] = h[i]
      /\ \A i \in 1 .. Len(new) : all[Len(h) + i] = new[i]
    BY SequenceAt
<1> HIDE DEF all
<1>2. ASSUME NEW x \in Evidence(all) PROVE x \in Evidence(h) \cup Evidence(new)
    <2>1. PICK i \in DOMAIN all : all[i].kind = "result" /\ x \in all[i].lines
        BY DEF Evidence
    <2>2. CASE i \in 1 .. Len(h)
        BY <1>1, <2>1, <2>2 DEF Evidence
    <2>3. CASE i \notin 1 .. Len(h)
        <3>1. i - Len(h) \in 1 .. Len(new) /\ Len(h) + (i - Len(h)) = i
            BY <1>1, <2>3
        <3>2. all[i] = new[i - Len(h)]
            BY <1>1, <3>1
        <3> QED BY <1>1, <2>1, <3>1, <3>2 DEF Evidence
    <2> QED BY <2>2, <2>3
<1>3. ASSUME NEW x \in Evidence(h) PROVE x \in Evidence(all)
    <2>1. PICK i \in DOMAIN h : h[i].kind = "result" /\ x \in h[i].lines
        BY DEF Evidence
    <2>2. i \in DOMAIN all /\ all[i] = h[i]
        BY <1>1
    <2> QED BY <2>1, <2>2 DEF Evidence
<1>4. ASSUME NEW x \in Evidence(new) PROVE x \in Evidence(all)
    <2>1. PICK i \in DOMAIN new : new[i].kind = "result" /\ x \in new[i].lines
        BY DEF Evidence
    <2>2. Len(h) + i \in DOMAIN all /\ all[Len(h) + i] = new[i]
        BY <1>1
    <2> QED BY <2>1, <2>2 DEF Evidence
<1> QED BY <1>2, <1>3, <1>4 DEF all

\* The results of a round tell what its calls told.
LEMMA EvidenceResults ==
    ASSUME Types, NEW r \in Runs
    PROVE  Evidence(Results(r)) = Newly(calls[r])
<1> DEFINE new == Results(r)
<1>1. /\ \A i \in DOMAIN new :
           \/ new[i].lines = {}
           \/ \E t \in DOMAIN calls[r] : calls[r][t] = "told" /\ new[i].lines = Told[t]
      /\ \A t \in DOMAIN calls[r] : calls[r][t] = "told" =>
           \E i \in DOMAIN new : new[i].kind = "result" /\ new[i].lines = Told[t]
    BY ResultsTyped
<1> HIDE DEF new
<1>2. ASSUME NEW x \in Evidence(new) PROVE x \in Newly(calls[r])
    <2>1. PICK i \in DOMAIN new : x \in new[i].lines
        BY DEF Evidence
    <2>2. PICK t \in DOMAIN calls[r] : calls[r][t] = "told" /\ new[i].lines = Told[t]
        BY <1>1, <2>1
    <2> QED BY <2>1, <2>2 DEF Newly
<1>3. ASSUME NEW x \in Newly(calls[r]) PROVE x \in Evidence(new)
    <2>1. PICK t \in DOMAIN calls[r] : calls[r][t] = "told" /\ x \in Told[t]
        BY DEF Newly
    <2>2. PICK i \in DOMAIN new : new[i].kind = "result" /\ new[i].lines = Told[t]
        BY <1>1, <2>1
    <2> QED BY <2>1, <2>2 DEF Evidence
<1> QED BY <1>2, <1>3 DEF new

\* More evidence confirms no less; all the lines confirm the snippet.
LEMMA MatchedMore ==
    ASSUME NEW snippet \in Seq(Lines), NEW A, NEW B, A \subseteq B
    PROVE  /\ Matched(snippet, A) \in Nat /\ Len(snippet) \in Nat
           /\ Matched(snippet, A) <= Matched(snippet, B)
           /\ ToSet(snippet) \subseteq A => Matched(snippet, A) = Len(snippet)
           /\ Enough(snippet, A) => Enough(snippet, B)
<1> DEFINE at(C) == {i \in DOMAIN snippet : snippet[i] \in C}
<1>1. DOMAIN snippet = 1 .. Len(snippet) /\ Len(snippet) \in Nat
    OBVIOUS
<1>2. IsFiniteSet(DOMAIN snippet) /\ Cardinality(DOMAIN snippet) = Len(snippet)
    <2>1. \A n \in Nat : IsFiniteSet(1 .. n) /\ Cardinality(1 .. n) = n
        BY FS_Interval
    <2> QED BY <1>1, <2>1
<1>3. IsFiniteSet(at(A)) /\ IsFiniteSet(at(B)) /\ at(A) \subseteq at(B)
    BY <1>2, FS_Subset
<1>4. Cardinality(at(A)) <= Cardinality(at(B))
    BY <1>3, FS_Subset
<1>5. Cardinality(at(A)) \in Nat /\ Cardinality(at(B)) \in Nat
    BY <1>3, FS_CardinalityType
<1>6. ToSet(snippet) \subseteq A => at(A) = DOMAIN snippet
    BY DEF ToSet
<1>7. Matched(snippet, A) = Cardinality(at(A)) /\ Matched(snippet, B) = Cardinality(at(B))
    BY DEF Matched
<1> HIDE DEF at
<1>8. Enough(snippet, A) => Enough(snippet, B)
    BY <1>1, <1>4, <1>5, <1>7 DEF Enough
<1> QED BY <1>1, <1>2, <1>4, <1>5, <1>6, <1>7, <1>8

\* What a session was told stays told.
LEMMA ToldGrows ==
    ASSUME UNCHANGED session, \A q \in Runs : own[q] \subseteq own'[q]
    PROVE  \A s : ToldIn(s) \subseteq ToldIn(s)'
BY DEF ToldIn

LEMMA CheckedKept ==
    ASSUME NEW r \in Runs, NEW f \in FindingSet, Checked(r, f), UNCHANGED session,
           \A q \in Runs : own[q] \subseteq own'[q],
           own'[r] = own[r], shared[r] => shared'[r]
    PROVE  Checked(r, f)'
<1>1. ToldIn(session[r]) \subseteq ToldIn(session[r])' /\ session'[r] = session[r]
    BY ToldGrows
<1>2. f.lines \in Seq(Lines)
    BY DEF FindingSet
<1>3. Enough(f.lines, ToldIn(session[r])) => Enough(f.lines, ToldIn(session[r])')
    BY <1>1, <1>2, MatchedMore
<1> QED BY <1>1, <1>3 DEF Checked

\* A step of one run, of which the rest is known.
LEMMA GroundedOne ==
    ASSUME Grounded, Sound', NEW r \in Runs, UNCHANGED session,
           \A q \in Runs \ {r} :
             /\ phase'[q] = phase[q] /\ messages'[q] = messages[q] /\ calls'[q] = calls[q]
             /\ own'[q] = own[q] /\ answer'[q] = answer[q],
           \A q \in Runs : shared[q] => shared'[q],
           own[r] \subseteq own'[r],
           \A s \in Sessions : \/ checkpoint'[s] = checkpoint[s]
                               \/ s = session[r] /\ checkpoint'[s] = messages'[r],
           Evidence(messages'[r]) \subseteq ToldIn(session[r]),
           Newly(calls'[r]) \subseteq own'[r],
           AloneInSession',
           Running(r)' => own'[r] \subseteq Evidence(messages'[r]) \cup Newly(calls'[r]),
           \A q \in Runs \ {r} : q \in checked' => q \in checked,
           r \in checked' => phase'[r] \in {"closing", "replied", "gone"},
           SentOutBy(r)'
    PROVE  Grounded'
<1>1. \A q \in Runs : own[q] \subseteq own'[q]
    OBVIOUS
<1>2. \A s : ToldIn(s) \subseteq ToldIn(s)'
    BY <1>1, ToldGrows
<1>3. KnownIsTold'
    <2>1. KnownIsTold
        BY DEF Grounded
    <2>2. ASSUME NEW s \in Sessions PROVE Evidence(checkpoint'[s]) \subseteq ToldIn(s)'
        <3>1. Evidence(checkpoint[s]) \subseteq ToldIn(s)
            BY <2>1 DEF KnownIsTold
        <3> QED BY <1>2, <3>1
    <2>3. ASSUME NEW q \in Runs
          PROVE  /\ Evidence(messages'[q]) \subseteq ToldIn(session[q])'
                 /\ Newly(calls'[q]) \subseteq own'[q]
        <3>1. Evidence(messages[q]) \subseteq ToldIn(session[q]) /\ Newly(calls[q]) \subseteq own[q]
            BY <2>1 DEF KnownIsTold
        <3>2. CASE q = r
            BY <1>2, <3>2
        <3>3. CASE q # r
            <4>1. /\ messages'[q] = messages[q] /\ calls'[q] = calls[q] /\ own'[q] = own[q]
                BY <3>3
            <4> QED BY <1>2, <3>1, <4>1
        <3> QED BY <3>2, <3>3
    <2> QED BY <2>2, <2>3 DEF KnownIsTold
<1>4. ToldIsKept'
    <2> SUFFICES ASSUME NEW q \in Runs \ {r}, Running(q)'
                 PROVE  own'[q] \subseteq Evidence(messages'[q]) \cup Newly(calls'[q])
        BY DEF ToldIsKept
    <2> QED BY DEF Grounded, ToldIsKept, Running
<1>5. CheckedLast'
    BY DEF Grounded, CheckedLast
<1>6. SentOut'
    <2> SUFFICES ASSUME NEW q \in Runs \ {r}, phase'[q] \in {"closing", "replied"},
                        answer'[q].kind = "context_result",
                        q \in checked'
                 PROVE  (\A i \in DOMAIN answer[q].findings :
                            Checked(q, answer[q].findings[i]))'
        BY DEF SentOut, SentOutBy
    <2>1. /\ phase'[q] = phase[q] /\ answer'[q] = answer[q] /\ own'[q] = own[q]
          /\ q \in checked
        OBVIOUS
    <2>2. answer[q] \in Outcomes \cup {None}
        BY TypesHave DEF Grounded, Sound
    <2>3. answer[q].findings \in Seq(FindingSet)
        BY <2>1, <2>2 DEF Outcomes, AnswerSet, Failure, None
    <2>4. \A i \in DOMAIN answer[q].findings : Checked(q, answer[q].findings[i])
        BY <2>1 DEF Grounded, SentOut, SentOutBy
    <2>5. \A f \in FindingSet : Checked(q, f) => Checked(q, f)'
        BY <1>1, <2>1, CheckedKept
    <2>6. \A i \in DOMAIN answer[q].findings : answer[q].findings[i] \in FindingSet
        BY <2>3
    <2>7. \A i \in DOMAIN answer[q].findings : Checked(q, answer[q].findings[i])'
        BY <2>4, <2>5, <2>6
    <2> QED BY <2>1, <2>7
<1> QED BY <1>3, <1>4, <1>5, <1>6 DEF Grounded

\* A step of one run after which no other run of its session is under way.
LEMMA AloneOne ==
    ASSUME Types, AloneInSession, NEW r \in Runs, UNCHANGED <<session, shared>>,
           \A q \in Runs \ {r} : phase'[q] = phase[q] /\ messages'[q] = messages[q],
           Running(r)' => Running(r),
           \A s \in Sessions : \/ checkpoint'[s] = checkpoint[s]
                               \/ s = session[r] /\ Running(r),
           Running(r)' => \/ checkpoint'[session[r]] = messages'[r]
                          \/ /\ checkpoint'[session[r]] = checkpoint[session[r]]
                             /\ messages'[r] = messages[r]
    PROVE  AloneInSession'
<1> SUFFICES ASSUME NEW q \in Runs, Running(q)', ~shared[q]
             PROVE  /\ checkpoint'[session[q]] = messages'[q]
                    /\ \A p \in Runs \ {q} : Running(p)' => session[p] # session[q]
    BY DEF AloneInSession
<1>1. \A p \in Runs : Running(p)' => Running(p)
    BY DEF Running
<1>2. /\ checkpoint[session[q]] = messages[q]
      /\ \A p \in Runs \ {q} : Running(p) => session[p] # session[q]
    BY <1>1 DEF AloneInSession
<1>3. session[q] \in Sessions
    BY TypesHave
<1>4. checkpoint'[session[q]] = messages'[q]
    <2>1. CASE q = r
        BY <1>2, <2>1
    <2>2. CASE q # r
        BY <1>2, <1>3, <2>2
    <2> QED BY <2>1, <2>2
<1> QED BY <1>1, <1>2, <1>4

\* A step that leaves what the runs know.
LEMMA QuietGrounded ==
    ASSUME Grounded, Sound', NEW r \in Runs,
           UNCHANGED <<session, messages, calls, own, checkpoint, shared>>,
           \A q \in Runs \ {r} : phase'[q] = phase[q] /\ answer'[q] = answer[q],
           Running(r)' => Running(r),
           checked' = checked,
           r \in checked => phase'[r] \in {"closing", "replied", "gone"},
           SentOutBy(r)'
    PROVE  Grounded'
<1>1. Types /\ AloneInSession /\ KnownIsTold /\ ToldIsKept
    BY DEF Grounded, Sound
<1>2. AloneInSession'
    BY <1>1, AloneOne
<1>3. Evidence(messages[r]) \subseteq ToldIn(session[r]) /\ Newly(calls[r]) \subseteq own[r]
    BY <1>1 DEF KnownIsTold
<1>4. Running(r)' => own'[r] \subseteq Evidence(messages'[r]) \cup Newly(calls'[r])
    BY <1>1 DEF ToldIsKept
<1> QED BY <1>2, <1>3, <1>4, GroundedOne

\* The findings of a run as they were before.
LEMMA SentBefore ==
    ASSUME Grounded, NEW r \in Runs, phase[r] \in {"closing", "replied"},
           UNCHANGED <<session, own, shared, answer, checked>>
    PROVE  SentOutBy(r)'
<1>1. answer[r] \in Outcomes \cup {None}
    BY TypesHave DEF Grounded, Sound
<1>2. SUFFICES ASSUME answer[r].kind = "context_result", r \in checked,
                      NEW i \in DOMAIN answer[r].findings
               PROVE  Checked(r, answer[r].findings[i])'
    BY DEF SentOutBy
<1>3. answer[r].findings \in Seq(FindingSet)
    BY <1>1, <1>2 DEF Outcomes, AnswerSet, Failure, None
<1>4. answer[r].findings[i] \in FindingSet
    BY <1>3
<1>5. Checked(r, answer[r].findings[i])
    BY <1>2 DEF Grounded, SentOut, SentOutBy
<1>6. Checked(r, answer[r].findings[i]) <=> Checked(r, answer[r].findings[i])'
    BY DEF Checked, ToldIn
<1> QED BY <1>5, <1>6

LEMMA QuietSteps ==
    ASSUME Grounded, Sound', NEW r \in Runs,
           \/ AskOnce(r) \/ AskStream(r) \/ AskTask(r) \/ Resume(r) \/ HitLimit(r)
           \/ Deliver(r) \/ Join(r) \/ Leave(r)
    PROVE  Grounded'
<1>1. UNCHANGED <<session, messages, calls, own, checkpoint, shared, answer, checked>>
    BY DEF AskOnce, AskStream, AskTask, Requested, Resume, HitLimit, Deliver, Join, Leave,
           request, history
<1>2. phase \in [Runs -> Phases]
    BY TypesHave DEF Grounded, Sound
<1>3. \A q \in Runs \ {r} : phase'[q] = phase[q]
    BY <1>2 DEF AskOnce, AskStream, AskTask, Requested, Resume, HitLimit, Deliver, Join, Leave
<1>4. \/ phase[r] = "idle" /\ phase'[r] \in {"begun", "opened", "replied", "crashed"}
      \/ phase[r] = "opened" /\ phase'[r] = "begun"
      \/ phase[r] = "model" /\ phase'[r] = "synthesis"
      \/ phase[r] = "closing" /\ phase'[r] = "replied"
      \/ phase'[r] = "gone"
      \/ phase'[r] = phase[r]
    BY <1>2 DEF AskOnce, AskStream, AskTask, Requested, Resume, HitLimit, Deliver, Join, Leave
<1>5. Running(r)' => Running(r)
    BY <1>4 DEF Running
<1>6. r \in checked => phase[r] \in {"closing", "replied", "gone"}
    BY DEF Grounded, CheckedLast
<1>7. SentOutBy(r)'
    <2>1. CASE phase[r] \in {"closing", "replied"}
        BY <1>1, <2>1, SentBefore
    <2>2. CASE phase[r] = "gone"
        BY <1>4, <2>2 DEF SentOutBy
    <2>3. CASE phase[r] \notin {"closing", "replied", "gone"}
        BY <1>1, <1>6, <2>3 DEF SentOutBy
    <2> QED BY <2>1, <2>2, <2>3
<1>8. r \in checked => phase'[r] \in {"closing", "replied", "gone"}
    BY <1>4, <1>6
<1> QED BY <1>1, <1>3, <1>5, <1>6, <1>7, <1>8, QuietGrounded

LEMMA SynthesizeGrounded ==
    ASSUME Grounded, Sound', NEW r \in Runs, Synthesize(r)
    PROVE  Grounded'
<1>1. /\ UNCHANGED <<session, messages, calls, own, checkpoint, shared, checked>>
      /\ phase[r] = "synthesis" /\ phase'[r] = "finalize"
      /\ \A q \in Runs \ {r} : phase'[q] = phase[q] /\ answer'[q] = answer[q]
    BY TypesHave DEF Synthesize, request, history, Grounded, Sound
<1>2. Running(r)
    BY <1>1 DEF Running
<1>3. SentOutBy(r)'
    BY <1>1 DEF SentOutBy
<1>4. r \notin checked
    BY <1>1 DEF Grounded, CheckedLast
<1> QED BY <1>1, <1>2, <1>3, <1>4, QuietGrounded

\* A turn starts: whoever is under way in its session overlaps with it.
LEMMA BeginGrounded ==
    ASSUME Grounded, Sound', NEW r \in Runs, Begin(r)
    PROVE  Grounded'
<1>1. Types /\ AloneInSession /\ KnownIsTold
    BY DEF Grounded, Sound
<1>2. /\ phase[r] = "begun" /\ phase'[r] = "model"
      /\ \A q \in Runs \ {r} : phase'[q] = phase[q]
      /\ UNCHANGED <<session, calls, own, answer, checked>>
    BY <1>1, TypesHave DEF Begin, request
<1>3. own[r] = {} /\ calls[r] = <<>>
    BY <1>2 DEF Grounded, Sound, Placed, PlacedAt
<1>4. /\ messages'[r] = Append(checkpoint[session[r]], Message("human", {}))
      /\ checkpoint'[session[r]] = messages'[r]
      /\ \A q \in Runs \ {r} : messages'[q] = messages[q]
      /\ \A s \in Sessions \ {session[r]} : checkpoint'[s] = checkpoint[s]
    BY <1>1, BeginStarts
<1>5. session[r] \in Sessions /\ checkpoint[session[r]] \in Seq(MessageSet)
    BY <1>1, TypesHave
<1>6. Evidence(messages'[r]) = Evidence(checkpoint[session[r]])
    <2>1. Message("human", {}) \in MessageSet
        BY DEF Message, MessageSet
    <2>2. <<Message("human", {})>> \in Seq(MessageSet)
        BY <2>1
    <2>3. messages'[r] = checkpoint[session[r]] \o <<Message("human", {})>>
        BY <1>4, <1>5, <2>1, AppendIsConcat
    <2>4. Evidence(messages'[r]) =
            Evidence(checkpoint[session[r]]) \cup Evidence(<<Message("human", {})>>)
        BY <1>5, <2>2, <2>3, EvidenceAdds
    <2> QED BY <2>4, EvidenceNothing
<1>7. Evidence(messages'[r]) \subseteq ToldIn(session[r])
    BY <1>1, <1>5, <1>6 DEF KnownIsTold
<1>8. \A q \in Runs : shared'[q] <=> \/ shared[q] \/ q \in Others(r)
                                     \/ q = r /\ Others(r) # {}
    BY DEF Begin
<1>9. AloneInSession'
    <2> SUFFICES ASSUME NEW q \in Runs, Running(q)', ~shared'[q]
                 PROVE  /\ checkpoint'[session[q]] = messages'[q]
                        /\ \A p \in Runs \ {q} : Running(p)' => session[p] # session[q]
        BY <1>2 DEF AloneInSession
    <2>1. CASE q = r
        <3>1. \A p \in Runs \ {r} : ~(session[p] = session[r] /\ Running(p))
            BY <1>8, <2>1 DEF Others
        <3>2. \A p \in Runs \ {r} : Running(p)' => Running(p)
            BY <1>2 DEF Running
        <3> QED BY <1>4, <2>1, <3>1, <3>2
    <2>2. CASE q # r
        <3>1. Running(q) /\ ~shared[q] /\ q \notin Others(r)
            BY <1>2, <1>8, <2>2 DEF Running
        <3>2. session[q] # session[r]
            BY <2>2, <3>1 DEF Others
        <3>3. /\ checkpoint[session[q]] = messages[q]
              /\ \A p \in Runs \ {q} : Running(p) => session[p] # session[q]
            BY <1>1, <3>1 DEF AloneInSession
        <3>4. session[q] \in Sessions
            BY <1>1, TypesHave
        <3>5. \A p \in Runs : p = r \/ (Running(p)' => Running(p))
            BY <1>2 DEF Running
        <3> QED BY <1>4, <2>2, <3>2, <3>3, <3>4, <3>5
    <2> QED BY <2>1, <2>2
<1>10. /\ \A q \in Runs \ {r} :
            /\ phase'[q] = phase[q] /\ messages'[q] = messages[q] /\ calls'[q] = calls[q]
            /\ own'[q] = own[q] /\ answer'[q] = answer[q]
       /\ \A q \in Runs : shared[q] => shared'[q]
       /\ own[r] \subseteq own'[r]
       /\ \A s \in Sessions : \/ checkpoint'[s] = checkpoint[s]
                              \/ s = session[r] /\ checkpoint'[s] = messages'[r]
    BY <1>2, <1>4, <1>8
<1>11. Newly(calls'[r]) \subseteq own'[r] /\ own'[r] = {}
    BY <1>2, <1>3, EvidenceNothing
<1>12. SentOutBy(r)'
    BY <1>2 DEF SentOutBy
<1>13. r \notin checked
    BY <1>2 DEF Grounded, CheckedLast
<1> QED BY <1>2, <1>7, <1>9, <1>10, <1>11, <1>12, <1>13, GroundedOne

\* A step of the graph that saves: what is new tells what was on its way.
LEMMA SavedGrounded ==
    ASSUME Grounded, Sound', NEW r \in Runs, NEW new \in Seq(MessageSet), Save(r, new),
           Running(r), Running(r)', UNCHANGED <<session, own, shared, checked>>,
           \A q \in Runs \ {r} :
             phase'[q] = phase[q] /\ calls'[q] = calls[q] /\ answer'[q] = answer[q],
           Evidence(new) \subseteq Newly(calls[r]), Newly(calls'[r]) = {},
           Newly(calls[r]) \subseteq Evidence(new)
    PROVE  Grounded'
<1>1. Types /\ AloneInSession /\ KnownIsTold /\ ToldIsKept
    BY DEF Grounded, Sound
<1>2. /\ messages'[r] = messages[r] \o new /\ checkpoint'[session[r]] = messages'[r]
      /\ \A q \in Runs \ {r} : messages'[q] = messages[q]
      /\ \A s \in Sessions \ {session[r]} : checkpoint'[s] = checkpoint[s]
    BY <1>1, SaveTyped
<1>3. Evidence(messages'[r]) = Evidence(messages[r]) \cup Evidence(new)
    <2>1. messages[r] \in Seq(MessageSet)
        BY <1>1, TypesHave
    <2> QED BY <1>2, <2>1, EvidenceAdds
<1>4. Newly(calls[r]) \subseteq ToldIn(session[r])
    BY <1>1 DEF KnownIsTold, ToldIn
<1>5. Evidence(messages'[r]) \subseteq ToldIn(session[r])
    BY <1>1, <1>3, <1>4 DEF KnownIsTold
<1>6. own'[r] \subseteq Evidence(messages'[r]) \cup Newly(calls'[r])
    BY <1>1, <1>3 DEF ToldIsKept
<1>7. AloneInSession'
    BY <1>1, <1>2, AloneOne
<1>8. SentOutBy(r)'
    BY DEF SentOutBy, Running
<1>9. r \notin checked
    BY DEF Grounded, CheckedLast, Running
<1> QED BY <1>2, <1>5, <1>6, <1>7, <1>8, <1>9, GroundedOne

LEMMA SavingSteps ==
    ASSUME Grounded, Sound', NEW r \in Runs, CallTools(r) \/ Converge(r) \/ Gather(r)
    PROVE  Grounded'
<1>1. Types /\ Placed /\ phase \in [Runs -> Phases]
    BY TypesHave DEF Grounded, Sound
<1>2. /\ UNCHANGED <<session, own, shared, checked>>
      /\ \A q \in Runs \ {r} : phase'[q] = phase[q]
      /\ phase[r] \in {"model", "tools"}
      /\ phase'[r] \in {"tools", "finalize", "model"}
    BY <1>1 DEF CallTools, Converge, Gather, request, history
<1>3. Running(r) /\ Running(r)'
    BY <1>2 DEF Running
<1>4. CASE CallTools(r) \/ Converge(r)
    <2>1. PICK kind : Save(r, <<Message(kind, {})>>) /\ kind \in {"calls", "reply"}
        BY <1>4 DEF CallTools, Converge
    <2>2. <<Message(kind, {})>> \in Seq(MessageSet)
        BY <2>1 DEF Message, MessageSet
    <2>3. Evidence(<<Message(kind, {})>>) = {} /\ Newly(calls[r]) = {}
        <3>1. calls[r] = <<>>
            BY <1>1, <1>4 DEF Placed, PlacedAt, CallTools, Converge
        <3> QED BY <3>1, EvidenceNothing
    <2>4. CASE CallTools(r)
        <3>1. PICK round \in choice[r] \ {{}} :
                calls' = [calls EXCEPT ![r] = [t \in round |-> "requested"]]
            BY <2>4 DEF CallTools
        <3>2. /\ calls'[r] = [t \in round |-> "requested"]
              /\ \A q \in Runs \ {r} : calls'[q] = calls[q]
            BY <1>1, <3>1, TypesHave
        <3>3. Newly(calls'[r]) = {}
            BY <3>2 DEF Newly
        <3>4. phase'[r] = "tools" /\ UNCHANGED answer
            BY <1>1, <2>4 DEF CallTools
        <3> QED BY <1>2, <1>3, <2>1, <2>2, <2>3, <3>2, <3>3, <3>4, SavedGrounded
    <2>5. CASE Converge(r)
        <3>1. PICK a \in Answers : answer' = [answer EXCEPT ![r] = a]
            BY <2>5 DEF Converge
        <3>2. answer'[r] = a /\ \A q \in Runs \ {r} : answer'[q] = answer[q]
            BY <1>1, <3>1, TypesHave
        <3>3. UNCHANGED calls
            BY <2>5 DEF Converge
        <3> QED BY <1>2, <1>3, <2>1, <2>2, <2>3, <3>2, <3>3, SavedGrounded
    <2> QED BY <1>4, <2>4, <2>5
<1>5. CASE Gather(r)
    <2>1. Save(r, Results(r)) /\ Results(r) \in Seq(MessageSet)
        BY <1>1, <1>5, ResultsTyped DEF Gather
    <2>2. Evidence(Results(r)) = Newly(calls[r])
        BY <1>1, EvidenceResults
    <2>3. calls'[r] = <<>> /\ \A q \in Runs \ {r} : calls'[q] = calls[q]
        BY <1>1, <1>5, TypesHave DEF Gather
    <2>4. Newly(calls'[r]) = {}
        BY <2>3, EvidenceNothing
    <2>5. phase'[r] = "model" /\ UNCHANGED answer
        BY <1>1, <1>5 DEF Gather
    <2> QED BY <1>2, <1>3, <2>1, <2>2, <2>3, <2>4, <2>5, SavedGrounded
<1> QED BY <1>4, <1>5

\* A call moves on; what it tells is the run's own at once.
LEMMA ToolsGrounded ==
    ASSUME Grounded, Sound', NEW r \in Runs, NEW t \in Tools,
           StartTool(r, t) \/ EndTool(r, t) \/ FailTool(r, t)
    PROVE  Grounded'
<1>1. Types /\ AloneInSession /\ KnownIsTold /\ ToldIsKept
    BY DEF Grounded, Sound
<1>2. PICK from \in {"requested", "running"}, to \in {"running", "told", "failed"} :
         /\ t \in DOMAIN calls[r] /\ calls[r][t] = from
         /\ calls' = [calls EXCEPT ![r][t] = to]
         /\ own' = [own EXCEPT ![r] = @ \cup (IF to = "told" THEN Told[t] ELSE {})]
    <2>1. CASE StartTool(r, t)
        <3>1. own' = [own EXCEPT ![r] = @ \cup {}]
            BY <1>1, <2>1, TypesHave DEF StartTool
        <3> QED BY <2>1, <3>1 DEF StartTool, ToolMoves
    <2>2. CASE EndTool(r, t)
        BY <2>2 DEF EndTool, ToolMoves
    <2>3. CASE FailTool(r, t)
        <3>1. own' = [own EXCEPT ![r] = @ \cup {}]
            BY <1>1, <2>3, TypesHave DEF FailTool
        <3> QED BY <2>3, <3>1 DEF FailTool, ToolMoves
    <2> QED BY <2>1, <2>2, <2>3
<1>3. /\ phase[r] = "tools"
      /\ UNCHANGED <<phase, session, messages, checkpoint, shared, answer, checked>>
    BY DEF StartTool, EndTool, FailTool, ToolMoves, request
<1> DEFINE new == IF to = "told" THEN Told[t] ELSE {}
<1>4. /\ own'[r] = own[r] \cup new /\ \A q \in Runs \ {r} : own'[q] = own[q]
      /\ calls'[r] = [calls[r] EXCEPT ![t] = to]
      /\ \A q \in Runs \ {r} : calls'[q] = calls[q]
    BY <1>1, <1>2, TypesHave
<1> HIDE DEF new
<1>5. Newly(calls'[r]) = Newly(calls[r]) \cup new
    <2>1. /\ DOMAIN calls'[r] = DOMAIN calls[r] /\ calls'[r][t] = to
          /\ \A u \in DOMAIN calls[r] : u # t => calls'[r][u] = calls[r][u]
        BY <1>1, <1>2, <1>4, TypesHave, CallsTyped
    <2>2. ASSUME NEW x \in Newly(calls'[r]) PROVE x \in Newly(calls[r]) \cup new
        <3>1. PICK u \in DOMAIN calls[r] : calls'[r][u] = "told" /\ x \in Told[u]
            BY <2>1, <2>2 DEF Newly
        <3> QED BY <2>1, <3>1 DEF Newly, new
    <2>3. ASSUME NEW x \in Newly(calls[r]) PROVE x \in Newly(calls'[r])
        <3>1. PICK u \in DOMAIN calls[r] : calls[r][u] = "told" /\ x \in Told[u]
            BY <2>3 DEF Newly
        <3>2. u # t
            BY <1>2, <3>1
        <3> QED BY <2>1, <3>1, <3>2 DEF Newly
    <2>4. ASSUME NEW x \in new PROVE x \in Newly(calls'[r])
        <3>1. to = "told" /\ x \in Told[t]
            BY <2>4 DEF new
        <3> QED BY <1>2, <2>1, <3>1 DEF Newly
    <2> QED BY <2>2, <2>3, <2>4
<1>6. Newly(calls'[r]) \subseteq own'[r]
    BY <1>1, <1>4, <1>5 DEF KnownIsTold
<1>7. own'[r] \subseteq Evidence(messages'[r]) \cup Newly(calls'[r])
    <2>1. own[r] \subseteq Evidence(messages[r]) \cup Newly(calls[r])
        BY <1>1, <1>3 DEF ToldIsKept, Running
    <2> QED BY <1>3, <1>4, <1>5, <2>1
<1>8. AloneInSession'
    BY <1>1, <1>3 DEF AloneInSession, Running
<1>9. Evidence(messages'[r]) \subseteq ToldIn(session[r])
    BY <1>1, <1>3 DEF KnownIsTold
<1>10. SentOutBy(r)'
    BY <1>3 DEF SentOutBy
<1>11. r \notin checked
    BY <1>3 DEF Grounded, CheckedLast
<1> QED BY <1>3, <1>4, <1>6, <1>7, <1>8, <1>9, <1>10, <1>11, GroundedOne

\* What is verified against a history of the session.
LEMMA VerdictChecked ==
    ASSUME NEW r \in Runs, NEW f \in FindingSet, NEW h,
           Evidence(h) \subseteq ToldIn(session[r]),
           ~shared[r] => own[r] \subseteq Evidence(h),
           f.verified = Verdict(f.lines, h)
    PROVE  Checked(r, f)
<1>1. f.lines \in Seq(Lines)
    BY DEF FindingSet
<1>2. ASSUME f.verified = "true" PROVE Enough(f.lines, ToldIn(session[r]))
    <2>1. Enough(f.lines, Evidence(h))
        BY <1>2 DEF Verdict
    <2> QED BY <1>1, <2>1, MatchedMore
<1>3. ASSUME f.verified = "false", ~shared[r], ToSet(f.lines) \subseteq own[r] PROVE FALSE
    <2>1. ToSet(f.lines) \subseteq Evidence(h)
        BY <1>3
    <2>2. Matched(f.lines, Evidence(h)) = Len(f.lines) /\ Len(f.lines) \in Nat
        BY <1>1, <2>1, MatchedMore
    <2>3. Enough(f.lines, Evidence(h))
        BY <2>2 DEF Enough
    <2> QED BY <1>3, <2>3 DEF Verdict
<1> QED BY <1>2, <1>3 DEF Checked

\* The end of a run that has an answer.
LEMMA FinalChecked ==
    ASSUME Grounded, NEW r \in Runs, Finalize(r)
    PROVE  \E a \in AnswerSet :
             /\ Close(r, a)
             /\ \/ checked' = checked
                \/ /\ checked' = checked \cup {r}
                   /\ \A i \in DOMAIN a.findings : Checked(r, a.findings[i])
<1>1. Types /\ phase[r] = "finalize"
    BY DEF Grounded, Sound, Finalize
<1>2. answer[r] \in AnswerSet
    BY <1>1 DEF Grounded, Sound, Placed, PlacedAt
<1>3. answer[r].findings \in Seq(FindingSet) /\ answer[r].kind \in {"clarification", "context_result"}
    BY <1>2 DEF AnswerSet
<1> DEFINE capped == Capped(r, answer[r].findings)
           newest == checkpoint[session[r]]
           corpus == Evidence(newest)
           told == VerifyFindings(capped, newest)
<1>4. capped \in Seq(FindingSet)
    BY <1>1, <1>3, CappedFindings
<1> HIDE DEF capped
<1>5. /\ told \in Seq(FindingSet) /\ DOMAIN told = DOMAIN capped
      /\ \A i \in DOMAIN told : told[i].verified = Verdict(told[i].lines, newest)
    <2>1. /\ told \in Seq(FindingSet) /\ DOMAIN told = DOMAIN capped
          /\ \A i \in DOMAIN capped : /\ told[i].lines = capped[i].lines
                                      /\ told[i].verified = Verdict(capped[i].lines, newest)
        BY <1>4, VerifiedTyped
    <2> HIDE DEF told, newest
    <2> QED BY <2>1
<1>6. corpus \subseteq ToldIn(session[r]) /\ (~shared[r] => own[r] \subseteq corpus)
    <2>1. session[r] \in Sessions
        BY <1>1, TypesHave
    <2>2. corpus \subseteq ToldIn(session[r])
        BY <2>1 DEF Grounded, KnownIsTold
    <2>3. ASSUME ~shared[r] PROVE own[r] \subseteq corpus
        <3>1. checkpoint[session[r]] = messages[r]
            BY <1>1, <2>3 DEF Grounded, AloneInSession, Running
        <3>2. own[r] \subseteq Evidence(messages[r]) \cup Newly(calls[r])
            BY <1>1 DEF Grounded, ToldIsKept, Running
        <3>3. calls[r] = <<>>
            BY <1>1 DEF Grounded, Sound, Placed, PlacedAt
        <3> QED BY <3>1, <3>2, <3>3, EvidenceNothing
    <2> QED BY <2>2, <2>3
<1> HIDE DEF told, corpus
<1> HIDE DEF newest
<1>7. \A f \in Seq(FindingSet) :
         /\ [answer[r] EXCEPT !.findings = f] \in AnswerSet
         /\ [answer[r] EXCEPT !.findings = f].findings = f
         /\ [answer[r] EXCEPT !.findings = f].kind = answer[r].kind
    BY <1>2 DEF AnswerSet
<1>8. \A i \in DOMAIN told : Checked(r, told[i])
    <2>1. \A i \in DOMAIN told : told[i] \in FindingSet
        BY <1>5
    <2> QED BY <1>5, <1>6, <2>1, VerdictChecked DEF corpus
<1>10. CASE /\ Close(r, [answer[r] EXCEPT !.findings = <<>>])
            /\ checked' = checked
    <2>1. <<>> \in Seq(FindingSet)
        OBVIOUS
    <2> DEFINE a == [answer[r] EXCEPT !.findings = <<>>]
    <2>2. a \in AnswerSet
        BY <1>7, <2>1
    <2> QED BY <1>10, <2>2
<1>11. CASE /\ Close(r, [answer[r] EXCEPT !.findings = told])
            /\ checked' = checked \cup {r}
    <2> DEFINE a == [answer[r] EXCEPT !.findings = told]
    <2>1. a \in AnswerSet /\ a.findings = told
        BY <1>5, <1>7
    <2>2. Close(r, a)
        BY <1>11
    <2> HIDE DEF a
    <2> QED BY <1>8, <1>11, <2>1, <2>2
<1>12. CASE /\ Close(r, [answer[r] EXCEPT !.findings = capped])
            /\ checked' = checked
    <2> DEFINE a == [answer[r] EXCEPT !.findings = capped]
    <2>1. a \in AnswerSet /\ a.findings = capped
        BY <1>4, <1>7
    <2>2. Close(r, a)
        BY <1>12
    <2> HIDE DEF a
    <2> QED BY <1>12, <2>1, <2>2
<1> QED BY <1>10, <1>11, <1>12 DEF Finalize, capped, told, newest

\* A run is over; its messages and calls are gone.
LEMMA ClosedGrounded ==
    ASSUME Grounded, Sound', NEW r \in Runs, NEW a \in Outcomes, Close(r, a), Running(r),
           UNCHANGED <<session, checkpoint, own, shared>>,
           \/ checked' = checked
           \/ /\ checked' = checked \cup {r}
              /\ \A i \in DOMAIN a.findings : Checked(r, a.findings[i])
    PROVE  Grounded'
<1>1. Types /\ AloneInSession
    BY DEF Grounded, Sound
<1>2. /\ answer'[r] = a /\ messages'[r] = <<>> /\ calls'[r] = <<>>
      /\ phase'[r] \in {"gone", "closing"}
      /\ \A q \in Runs \ {r} :
           /\ phase'[q] = phase[q] /\ answer'[q] = answer[q] /\ calls'[q] = calls[q]
           /\ messages'[q] = messages[q]
    <2>1. calls'[r] = <<>>
        BY <1>1, TypesHave DEF Close
    <2> QED BY <1>1, <2>1, CloseTyped
<1>3. ~Running(r)'
    BY <1>2 DEF Running
<1>4. AloneInSession'
    BY <1>1, <1>2, <1>3, AloneOne
<1>5. /\ Evidence(messages'[r]) \subseteq ToldIn(session[r])
      /\ Newly(calls'[r]) \subseteq own'[r]
    BY <1>2, EvidenceNothing
<1>6. SentOutBy(r)'
    <2>1. \A f : Checked(r, f) <=> Checked(r, f)'
        BY DEF Checked, ToldIn
    <2>2. r \notin checked
        BY DEF Grounded, CheckedLast, Running
    <2> QED BY <1>2, <2>1, <2>2 DEF SentOutBy
<1>7. \A q \in Runs \ {r} : q \in checked' => q \in checked
    OBVIOUS
<1> QED BY <1>2, <1>3, <1>4, <1>5, <1>6, <1>7, GroundedOne

LEMMA EndGrounded ==
    ASSUME Grounded, Sound', NEW r \in Runs, Fail(r) \/ Finalize(r)
    PROVE  Grounded'
<1>1. CASE Fail(r)
    <2>1. Close(r, Failure) /\ Failure \in Outcomes
        BY <1>1 DEF Fail, Outcomes, Failure
    <2>2. Running(r) /\ UNCHANGED <<session, checkpoint, own, shared, checked>>
        BY <1>1 DEF Fail, Running, request, history
    <2> QED BY <2>1, <2>2, ClosedGrounded
<1>2. CASE Finalize(r)
    <2>1. PICK a \in AnswerSet :
             /\ Close(r, a)
             /\ \/ checked' = checked
                \/ /\ checked' = checked \cup {r}
                   /\ \A i \in DOMAIN a.findings : Checked(r, a.findings[i])
        BY <1>2, FinalChecked
    <2>2. Running(r) /\ UNCHANGED <<session, checkpoint, own, shared>>
        BY <1>2 DEF Finalize, Running, request, history
    <2> QED BY <2>1, <2>2, ClosedGrounded DEF Outcomes
<1> QED BY <1>1, <1>2

LEMMA RestartGrounded ==
    ASSUME Grounded, Sound', Restart
    PROVE  Grounded'
<1>1. /\ \A r \in Runs : messages'[r] = <<>> /\ calls'[r] = <<>>
      /\ \A r \in Runs : phase'[r] = IF Active(r) THEN "gone" ELSE phase[r]
      /\ UNCHANGED <<session, own, shared, answer, checked>>
      /\ \A s \in Sessions : checkpoint'[s] = checkpoint[s] \/ checkpoint'[s] = <<>>
    BY DEF Restart, request
<1>2. \A s : ToldIn(s)' = ToldIn(s)
    BY <1>1 DEF ToldIn
<1>3. KnownIsTold'
    <2>1. \A s \in Sessions : Evidence(checkpoint'[s]) \subseteq ToldIn(s)'
        BY <1>1, <1>2, EvidenceNothing DEF Grounded, KnownIsTold
    <2>2. \A r \in Runs : Evidence(messages'[r]) = {} /\ Newly(calls'[r]) = {}
        BY <1>1, EvidenceNothing
    <2> QED BY <2>1, <2>2 DEF KnownIsTold
<1>4. \A r \in Runs : phase'[r] = phase[r] \/ phase'[r] = "gone"
    BY <1>1
<1>5. \A r \in Runs : ~Running(r)'
    BY <1>1 DEF Active, Ended, Running
<1>6. AloneInSession' /\ ToldIsKept'
    BY <1>5 DEF AloneInSession, ToldIsKept
<1>7. CheckedLast'
    BY <1>1, <1>4 DEF Grounded, CheckedLast
<1>8. SentOut'
    <2> SUFFICES ASSUME NEW r \in Runs PROVE SentOutBy(r)'
        BY DEF SentOut
    <2>1. CASE phase[r] \in {"closing", "replied"}
        BY <1>1, <2>1, SentBefore
    <2>2. CASE phase[r] \notin {"closing", "replied"}
        BY <1>4, <2>2 DEF SentOutBy
    <2> QED BY <2>1, <2>2
<1> QED BY <1>3, <1>6, <1>7, <1>8 DEF Grounded

LEMMA InitGrounded == Init => Grounded
<1> SUFFICES ASSUME Init PROVE Grounded
    OBVIOUS
<1>1. Sound
    BY InitTyped, InitStreams DEF Sound
<1>2. /\ \A r \in Runs : messages[r] = <<>> /\ calls[r] = <<>> /\ answer[r] = None
      /\ \A s \in Sessions : checkpoint[s] = <<>>
    BY DEF Init
<1>3. \A r \in Runs : phase[r] \in {"idle", "gone"}
    BY DEF Init
<1>4. KnownIsTold
    <2>1. /\ \A r \in Runs : Evidence(messages[r]) = {} /\ Newly(calls[r]) = {}
          /\ \A s \in Sessions : Evidence(checkpoint[s]) = {}
        BY <1>2, EvidenceNothing
    <2> QED BY <2>1 DEF KnownIsTold
<1>5. AloneInSession /\ ToldIsKept /\ SentOut
    BY <1>3 DEF AloneInSession, ToldIsKept, SentOut, SentOutBy, Running
<1>6. CheckedLast
    BY DEF Init, CheckedLast
<1> QED BY <1>1, <1>4, <1>5, <1>6 DEF Grounded

LEMMA GroundedKept ==
    ASSUME Grounded, [Next]_vars
    PROVE  Grounded'
<1>1. Sound'
    BY SoundKept DEF Grounded
<1>2. ASSUME NEW r \in Runs, AskOnce(r) \/ AskStream(r) \/ AskTask(r) \/ Leave(r)
      PROVE  Grounded'
    BY <1>1, <1>2, QuietSteps
<1>3. ASSUME NEW r \in Runs, Step(r) PROVE Grounded'
    <2>1. CASE Resume(r) \/ HitLimit(r) \/ Deliver(r) \/ Join(r)
        BY <1>1, <2>1, QuietSteps
    <2>2. CASE Begin(r)
        BY <1>1, <2>2, BeginGrounded
    <2>3. CASE CallTools(r) \/ Converge(r) \/ Gather(r)
        BY <1>1, <2>3, SavingSteps
    <2>4. CASE Synthesize(r)
        BY <1>1, <2>4, SynthesizeGrounded
    <2>5. CASE Fail(r) \/ Finalize(r)
        BY <1>1, <2>5, EndGrounded
    <2>6. ASSUME NEW t \in Tools, StartTool(r, t) \/ EndTool(r, t) \/ FailTool(r, t)
          PROVE  Grounded'
        BY <1>1, <2>6, ToolsGrounded
    <2> QED BY <1>3, <2>1, <2>2, <2>3, <2>4, <2>5, <2>6 DEF Step, Advance
<1>4. CASE Restart
    BY <1>1, <1>4, RestartGrounded
<1>5. CASE UNCHANGED vars
    <2>1. UNCHANGED <<checkpoint, phase, session, messages, calls, answer, own, shared,
                      checked>>
        BY <1>5 DEF vars, request, history
    <2>2. (KnownIsTold /\ AloneInSession)'
        BY <2>1 DEF Grounded, KnownIsTold, AloneInSession, ToldIn, Running
    <2>3. (ToldIsKept /\ CheckedLast)'
        BY <2>1 DEF Grounded, ToldIsKept, CheckedLast, Running
    <2>4. SentOut'
        BY <2>1 DEF Grounded, SentOut, SentOutBy, Checked, ToldIn
    <2> QED BY <1>1, <2>2, <2>3, <2>4 DEF Grounded
<1> QED BY <1>2, <1>3, <1>4, <1>5 DEF Next, Settled

LEMMA AlwaysGrounded == Spec => []Grounded
<1>1. Grounded /\ [Next]_vars => Grounded'
    BY GroundedKept
<1> QED BY <1>1, InitGrounded, PTL DEF Spec

(***************************************************************************)
(* A citation that the check marks as verified has at least 60 % of its    *)
(* lines from what tools told in its session, whatever models write into   *)
(* the mark: for any number of overlapping runs, after failures and        *)
(* restarts.  A checkpoint never holds more than the session was told.     *)
(***************************************************************************)
THEOREM CheckedIsGrounded == Spec => []VerifiedIsGrounded
<1>1. Grounded => VerifiedIsGrounded
    <2> SUFFICES ASSUME Grounded, NEW r \in Runs, r \in checked, Closed(r),
                        answer[r].kind = "context_result",
                        NEW i \in DOMAIN answer[r].findings,
                        answer[r].findings[i].verified = "true"
                 PROVE  10 * Matched(answer[r].findings[i].lines, ToldIn(session[r]))
                          >= 6 * Len(answer[r].findings[i].lines)
        BY DEF VerifiedIsGrounded
    <2> DEFINE f == answer[r].findings[i]
    <2>1. Checked(r, f)
        BY DEF Grounded, SentOut, SentOutBy, Closed
    <2>2. f \in FindingSet
        <3>1. answer[r] \in Outcomes \cup {None}
            BY TypesHave DEF Grounded, Sound
        <3>2. answer[r].findings \in Seq(FindingSet)
            BY <3>1 DEF Outcomes, AnswerSet, Failure, None
        <3> QED BY <3>2
    <2> HIDE DEF f
    <2>3. f.lines \in Seq(Lines)
        BY <2>2 DEF FindingSet
    <2>4. Enough(f.lines, ToldIn(session[r]))
        BY <2>1 DEF Checked, f
    <2>5. Matched(f.lines, ToldIn(session[r])) \in Nat /\ Len(f.lines) \in Nat
        BY <2>3, MatchedMore
    <2>6. 10 * Matched(f.lines, ToldIn(session[r])) >= 6 * Len(f.lines)
        BY <2>4, <2>5 DEF Enough
    <2> QED BY <2>6 DEF f
<1> QED BY <1>1, AlwaysGrounded, PTL

(***************************************************************************)
(* A citation made of lines that the run's own tools told is not flagged   *)
(* by the check as unconfirmed, whatever models write into the mark,       *)
(* unless another run of its session was under way: alone, the thread's    *)
(* newest checkpoint is the run's own history.                             *)
(***************************************************************************)
THEOREM GroundedIsChecked == Spec => []GroundedIsVerified
<1>1. Grounded => GroundedIsVerified
    BY DEF GroundedIsVerified, Grounded, SentOut, SentOutBy, Closed, Checked
<1> QED BY <1>1, AlwaysGrounded, PTL

LEMMA PrefixOf ==
    ASSUME NEW h \in Seq(MessageSet), NEW new \in Seq(MessageSet)
    PROVE  IsPrefix(h, h \o new)
<1>1. /\ Len(h) \in Nat /\ Len(new) \in Nat /\ Len(h \o new) = Len(h) + Len(new)
    BY SequenceAt
<1>2. SubSeq(h \o new, 1, Len(h)) = h
    BY SubSeqOfConcat1
<1> QED BY <1>1, <1>2, SubSeqFull DEF IsPrefix

\* What a step of the graph saves extends its run's messages.
LEMMA Saving ==
    ASSUME Types, NEW r \in Runs, CallTools(r) \/ Converge(r) \/ Gather(r)
    PROVE  \E new \in Seq(MessageSet) : Save(r, new)
<1>1. CASE CallTools(r) \/ Converge(r)
    <2>1. PICK kind : Save(r, <<Message(kind, {})>>) /\ kind \in {"calls", "reply"}
        BY <1>1 DEF CallTools, Converge
    <2>2. <<Message(kind, {})>> \in Seq(MessageSet)
        BY <2>1 DEF Message, MessageSet
    <2> QED BY <2>1, <2>2
<1>2. CASE Gather(r)
    BY <1>2, ResultsTyped DEF Gather
<1> QED BY <1>1, <1>2

(***************************************************************************)
(* A conversation only grows, also over a restart with the persistent      *)
(* store: a turn starts from the newest checkpoint, and the one that is    *)
(* alone in its session works on it.  Only a restart of the volatile store *)
(* or runs that overlap in one session cost messages.                      *)
(***************************************************************************)
THEOREM ConversationsGrow == Spec => ConversationGrows
<1> DEFINE Grows == \A s \in Sessions :
                      \/ IsPrefix(checkpoint[s], checkpoint'[s])
                      \/ ~durable /\ restarts' # restarts
                      \/ \E r \in Runs : session[r] = s /\ shared[r]
<1>1. ASSUME Grounded, [Next]_vars PROVE Grows
    <2>1. Types /\ AloneInSession
        BY <1>1 DEF Grounded, Sound
    <2>2. SUFFICES ASSUME NEW s \in Sessions,
                          ~(~durable /\ restarts' # restarts),
                          \A r \in Runs : session[r] = s => ~shared[r]
                   PROVE  IsPrefix(checkpoint[s], checkpoint'[s])
        OBVIOUS
    <2>3. checkpoint[s] \in Seq(MessageSet)
        BY <2>1, TypesHave
    <2>4. CASE checkpoint'[s] = checkpoint[s]
        <3>1. Len(checkpoint[s]) \in Nat
            BY <2>3
        <3> QED BY <2>4, <3>1 DEF IsPrefix
    <2>5. ASSUME NEW r \in Runs, Begin(r) PROVE IsPrefix(checkpoint[s], checkpoint'[s])
        <3>1. CASE s = session[r]
            <4>1. Message("human", {}) \in MessageSet
                BY DEF Message, MessageSet
            <4>2. checkpoint'[s] = checkpoint[s] \o <<Message("human", {})>>
                <5>1. checkpoint'[s] = Append(checkpoint[s], Message("human", {}))
                    BY <2>1, <2>5, <3>1, BeginStarts
                <5> QED BY <2>3, <4>1, <5>1, AppendIsConcat
            <4>3. <<Message("human", {})>> \in Seq(MessageSet)
                BY <4>1
            <4> QED BY <2>3, <4>2, <4>3, PrefixOf
        <3>2. CASE s # session[r]
            <4>1. checkpoint'[s] = checkpoint[s]
                BY <2>1, <2>5, <3>2, BeginStarts
            <4> QED BY <2>4, <4>1
        <3> QED BY <3>1, <3>2
    <2>6. ASSUME NEW r \in Runs, CallTools(r) \/ Converge(r) \/ Gather(r)
          PROVE  IsPrefix(checkpoint[s], checkpoint'[s])
        <3>1. PICK new \in Seq(MessageSet) : Save(r, new)
            BY <2>1, <2>6, Saving
        <3>2. /\ messages'[r] = messages[r] \o new /\ checkpoint'[session[r]] = messages'[r]
              /\ \A z \in Sessions \ {session[r]} : checkpoint'[z] = checkpoint[z]
            BY <2>1, <3>1, SaveTyped
        <3>3. CASE s = session[r]
            <4>1. Running(r) /\ ~shared[r]
                BY <2>2, <2>6, <3>3 DEF CallTools, Converge, Gather, Running
            <4>2. checkpoint[s] = messages[r]
                BY <2>1, <3>3, <4>1 DEF AloneInSession
            <4>3. checkpoint'[s] = checkpoint[s] \o new
                BY <3>2, <3>3, <4>2
            <4> QED BY <2>3, <4>3, PrefixOf
        <3>4. CASE s # session[r]
            <4>1. checkpoint'[s] = checkpoint[s]
                BY <3>2, <3>4
            <4> QED BY <2>4, <4>1
        <3> QED BY <3>3, <3>4
    <2>7. ASSUME NEW r \in Runs,
                 \/ AskOnce(r) \/ AskStream(r) \/ AskTask(r) \/ Leave(r) \/ Resume(r)
                 \/ HitLimit(r) \/ Synthesize(r) \/ Fail(r) \/ Finalize(r) \/ Deliver(r)
                 \/ Join(r)
                 \/ \E t \in Tools : StartTool(r, t) \/ EndTool(r, t) \/ FailTool(r, t)
          PROVE  checkpoint' = checkpoint
        BY <2>7 DEF AskOnce, AskStream, AskTask, Requested, Leave, Resume, HitLimit,
                    Synthesize, Fail, Finalize, Deliver, Join, StartTool, EndTool,
                    FailTool, ToolMoves
    <2>8. CASE Restart
        <3>1. durable
            BY <2>1, <2>2, <2>8, TypesHave DEF Restart
        <3>2. checkpoint' = checkpoint
            BY <2>8, <3>1 DEF Restart
        <3> QED BY <2>4, <3>2
    <2>9. CASE UNCHANGED vars
        BY <2>4, <2>9 DEF vars
    <2>10. ASSUME NEW r \in Runs, Step(r) PROVE IsPrefix(checkpoint[s], checkpoint'[s])
        BY <2>4, <2>5, <2>6, <2>7, <2>10 DEF Step, Advance
    <2>11. ASSUME NEW r \in Runs, AskOnce(r) \/ AskStream(r) \/ AskTask(r) \/ Leave(r)
           PROVE  IsPrefix(checkpoint[s], checkpoint'[s])
        BY <2>4, <2>7, <2>11
    <2> QED BY <1>1, <2>8, <2>9, <2>10, <2>11 DEF Next, Settled
<1>2. Grounded /\ [Next]_vars => [Grows]_vars
    BY <1>1
<1> QED BY <1>2, AlwaysGrounded, PTL DEF Spec, ConversationGrows

=============================================================================
