--------------------------- MODULE ContextHistory ---------------------------
(***************************************************************************)
(* The conversation history of an agent: the reducers that fold messages   *)
(* and loop events into it (contextMemory/loopEventFold.ts), the loop that *)
(* records a step in it (loop/loopService.ts), the compaction that         *)
(* replaces it (fullCompaction/fullCompactionService.ts), and the          *)
(* projection of it that a model request carries                           *)
(* (contextProjector/contextProjectorService.ts).  A context is            *)
(*   messages   what has been folded so far, oldest first                  *)
(*   pending    ids of the tool calls whose result has not been folded,    *)
(*              in the order they were announced                           *)
(*   held       messages that arrived while a call was pending             *)
(* Contents are reduced to whether there is any; ids of tool calls are     *)
(* unique.  When and with what the executor answers a call is in           *)
(* ToolExecutor; here any announced call may be answered next.             *)
(***************************************************************************)
EXTENDS Naturals, Sequences, Filtering

CONSTANTS
    MaxSteps,           \* bound on the steps
    MaxCalls,           \* bound on the tool calls of a step
    MaxMessages,        \* bound on the messages from outside the loop
    MaxCompactions      \* bound on the compactions

ASSUME ContextAssumption ==
    {MaxSteps, MaxCalls, MaxMessages, MaxCompactions} \subseteq Nat

VARIABLES
    context,        \* the history, as above
    step,           \* number of the current step
    phase,          \* "idle", "requesting", "tools"
    sent,           \* messages that arrived so far
    yielded,        \* audit: ids of the calls whose result was recorded
    compactions,    \* compactions begun
    dropped,        \* audit: messages held when a compaction was applied
    original        \* the messages a running compaction summarises, or NoHistory

historyVars == <<context, step, phase, sent, yielded, compactions, dropped, original>>

NoHistory == <<>>

\* The message of a step while it runs; no two steps share one.
Assistant(s) == [kind |-> "assistant", step |-> s, calls |-> <<>>,
                 content |-> FALSE, partial |-> TRUE]
User(n, real) == [kind |-> "user", n |-> n, real |-> real]
Summary(facts) == [kind |-> "summary", covers |-> facts]
Tool(id, real) == [kind |-> "tool", id |-> id, real |-> real]

EmptyContext == [messages |-> <<>>, pending |-> <<>>, held |-> <<>>]

IsPartial(m) == m.kind = "assistant" /\ m.partial

----------------------------------------------------------------------------
(* loopEventFold.ts *)

FoldAppendMessage(x, m) ==
    IF x.pending # <<>> THEN [x EXCEPT !.held = Append(@, m)]
                        ELSE [x EXCEPT !.messages = Append(@, m)]

\* mutant: what was flushed stays held
FlushKept(x) ==
    IF x.pending # <<>> THEN x ELSE [x EXCEPT !.messages = @ \o x.held]

FlushDeferred(x) ==
    IF x.pending # <<>> THEN x
    ELSE [x EXCEPT !.messages = @ \o x.held, !.held = <<>>]

\* Every call still pending is answered with the interrupted result.
ClosePending(x) ==
    IF x.pending = <<>> THEN x
    ELSE FlushDeferred(
           [x EXCEPT !.messages = @ \o [i \in DOMAIN x.pending |->
                                          Tool(x.pending[i], FALSE)],
                     !.pending = <<>>])

OpenAssistants(ms) == {i \in DOMAIN ms : IsPartial(ms[i])}

OpenAssistant(ms) ==
    CHOOSE i \in OpenAssistants(ms) : \A j \in OpenAssistants(ms) : j <= i

\* mutant: a step without text is dropped though it called tools
SettleTextless(x) ==
    LET y == ClosePending(x)
        ms == y.messages
        i == OpenAssistant(ms)
    IN  IF OpenAssistants(ms) = {} THEN y
        ELSE IF ~ms[i].content
             THEN [y EXCEPT !.messages = Without(ms, {ms[i]})]
             ELSE [y EXCEPT !.messages[i].partial = FALSE]

\* The partial assistant of a step that failed is sealed, or dropped when the
\* step recorded nothing.
SettleOpenStep(x) ==
    LET y == ClosePending(x)
        ms == y.messages
        i == OpenAssistant(ms)
    IN  IF OpenAssistants(ms) = {} THEN y
        ELSE IF ms[i].calls = <<>> /\ ~ms[i].content
             THEN [y EXCEPT !.messages = Without(ms, {ms[i]})]
             ELSE [y EXCEPT !.messages[i].partial = FALSE]

FoldStepBegin(x, s) ==
    LET y == SettleOpenStep(x)
    IN  [y EXCEPT !.messages = Append(@, Assistant(s))]

FoldStepEnd(x) == FlushDeferred(SettleOpenStep(x))

FoldContentPart(x) ==
    IF OpenAssistants(x.messages) = {} THEN x
    ELSE [x EXCEPT !.messages[OpenAssistant(x.messages)].content = TRUE]

FoldToolCall(x, id) ==
    LET y == [x EXCEPT !.pending = Append(@, id)]
    IN  IF OpenAssistants(x.messages) = {} THEN y
        ELSE [y EXCEPT !.messages[OpenAssistant(x.messages)].calls = Append(@, id)]

FoldToolResult(x, id) ==
    IF id \notin Elems(x.pending) THEN x
    ELSE FlushDeferred(
           [x EXCEPT !.messages = Append(@, Tool(id, TRUE)),
                     !.pending = Without(@, {id})])

----------------------------------------------------------------------------
(* contextProjectorService.ts *)

\* What fills the slot the projection opens after the call `id` of the
\* message at i: the first result with that id, or the interrupted result.
SlotOf(ms, i, id) ==
    LET found == {j \in DOMAIN ms :
                    j > i /\ ms[j].kind = "tool" /\ ms[j].id = id}
    IN  IF found = {} THEN Tool(id, FALSE)
        ELSE ms[CHOOSE j \in found : \A k \in found : j <= k]

\* The messages the projection emits for the message at i, the slots of its
\* calls included.  A result without an open slot is dropped, unless the
\* history holds no sealed assistant at all.
Emitted(ms, i) ==
    LET m == ms[i]
        hasAssistant == \E j \in DOMAIN ms :
                          ms[j].kind = "assistant" /\ ~IsPartial(ms[j])
    IN  CASE IsPartial(m) -> <<>>
          [] m.kind = "tool" -> IF hasAssistant THEN <<>> ELSE <<m>>
          [] m.kind \in {"user", "summary"} -> <<m>>
          [] OTHER -> <<m>> \o [k \in DOMAIN m.calls |->
                                  SlotOf(ms, i, m.calls[k])]

Project(ms) ==
    LET upTo[i \in 0..Len(ms)] ==
          IF i = 0 THEN <<>> ELSE upTo[i - 1] \o Emitted(ms, i)
    IN  upTo[Len(ms)]

----------------------------------------------------------------------------
(* compactionHandoff.ts, fullCompactionService.ts *)

IsUser(m) == m.kind = "user"
IsRealUser(m) == m.kind = "user" /\ m.real

\* What a summary of these messages stands for.
Facts(ms) ==
    UNION {CASE m.kind = "summary" -> m.covers
             [] m.kind = "user" -> {<<0, m.n>>}
             [] m.kind = "tool" -> {m.id}
             [] OTHER -> {} : m \in Elems(ms)}

\* The user's own messages are kept, the summary follows them.
CompactionShape(ms, compacted) ==
    Without(ms, {m \in Elems(ms) : ~ IsRealUser(m)}) \o <<Summary(Facts(compacted))>>

\* resetFold: the reducers start over on the new messages.
ResetFold(ms) == [messages |-> ms, pending |-> <<>>, held |-> <<>>]

\* Only the user's messages may have been added meanwhile.
HistorySafeToCompact(current, old) ==
    /\ Len(current) >= Len(old)
    /\ \A i \in DOMAIN old : current[i] = old[i]
    /\ \A i \in DOMAIN current : i > Len(old) => IsRealUser(current[i])

----------------------------------------------------------------------------
HistoryInit ==
    /\ context = EmptyContext
    /\ step = 0 /\ phase = "idle" /\ sent = 0 /\ yielded = {}
    /\ compactions = 0 /\ dropped = {} /\ original = NoHistory

\* A prompt or a steer (real), or a reminder or notice of the system's.
AppendMessage(real) ==
    /\ sent < MaxMessages /\ sent' = sent + 1
    /\ context' = FoldAppendMessage(context, User(sent', real))
    /\ UNCHANGED <<step, phase, yielded, compactions, dropped, original>>

BeginStep ==
    /\ phase = "idle" /\ step < MaxSteps
    /\ step' = step + 1 /\ phase' = "requesting"
    /\ context' = FoldStepBegin(context, step')
    /\ UNCHANGED <<sent, yielded, compactions, dropped, original>>

\* The response is complete: its content is recorded, its tools come next.
Respond(content) ==
    /\ phase = "requesting" /\ phase' = "tools"
    /\ context' = IF content THEN FoldContentPart(context) ELSE context
    /\ UNCHANGED <<step, sent, yielded, compactions, dropped, original>>

\* The request fails or is interrupted; what was streamed may be recorded.
RequestFails(content) ==
    /\ phase = "requesting" /\ phase' = "idle"
    /\ context' = IF content THEN FoldContentPart(context) ELSE context
    /\ UNCHANGED <<step, sent, yielded, compactions, dropped, original>>

\* onToolCall: the executor announces the next call of the step.  It announces
\* all of them before it yields a result.
Announced == {id \in {<<step, c>> : c \in 1..MaxCalls} :
                id \in yielded \/ id \in Elems(context.pending)}

ToolCall(c) ==
    /\ phase = "tools"
    /\ <<step, c>> \notin Announced /\ \A b \in 1..(c - 1) : <<step, b>> \in Announced
    /\ Announced \cap yielded = {}
    /\ context' = FoldToolCall(context, <<step, c>>)
    /\ UNCHANGED <<step, phase, sent, yielded, compactions, dropped, original>>

\* The executor yields the result of an announced call.
ToolResult(id) ==
    /\ phase = "tools" /\ id \in Announced \ yielded
    /\ yielded' = yielded \cup {id}
    /\ context' = FoldToolResult(context, id)
    /\ UNCHANGED <<step, phase, sent, compactions, dropped, original>>

\* Every call is answered; step.end is recorded.
EndStep ==
    /\ phase = "tools" /\ context.pending = <<>>
    /\ phase' = "idle"
    /\ context' = FoldStepEnd(context)
    /\ UNCHANGED <<step, sent, yielded, compactions, dropped, original>>

\* execute() throws, or the turn was aborted: step.end is not recorded, and
\* calls may stay pending until the next step begins.
StepFails ==
    /\ phase = "tools" /\ phase' = "idle"
    /\ UNCHANGED <<context, step, sent, yielded, compactions, dropped, original>>

\* A compaction starts between steps: on request, by size, or after an
\* overflow.  The loop goes on unless the context is too large.
BeginCompaction ==
    /\ phase = "idle" /\ original = NoHistory /\ context.messages # <<>>
    /\ compactions < MaxCompactions /\ compactions' = compactions + 1
    /\ original' = context.messages
    /\ UNCHANGED <<context, step, phase, sent, yielded, dropped>>

\* The summary is there.
ApplyCompaction ==
    /\ original # NoHistory /\ original' = NoHistory
    /\ HistorySafeToCompact(context.messages, original)
    /\ context' = ResetFold(CompactionShape(context.messages, original))
    /\ dropped' = dropped \cup {m.n : m \in Elems(context.held)}
    /\ UNCHANGED <<step, phase, sent, yielded, compactions>>

CancelCompaction ==
    /\ original # NoHistory /\ original' = NoHistory
    /\ UNCHANGED <<context, step, phase, sent, yielded, compactions, dropped>>

HistoryNext ==
    \/ \E real \in BOOLEAN : AppendMessage(real)
    \/ BeginStep \/ EndStep \/ StepFails
    \/ \E content \in BOOLEAN : Respond(content) \/ RequestFails(content)
    \/ \E c \in 1..MaxCalls : ToolCall(c) \/ ToolResult(<<step, c>>)
    \/ BeginCompaction \/ ApplyCompaction \/ CancelCompaction

HistorySpec == HistoryInit /\ [][HistoryNext]_historyVars

----------------------------------------------------------------------------
\* What the model is sent, and what a summary in it stands for.
Shown == Project(context.messages)

SummaryFacts(ms) == UNION {m.covers : m \in {mm \in Elems(ms) : mm.kind = "summary"}}

Covered == SummaryFacts(Shown)

Owns(j, i) == /\ Shown[j].kind = "assistant"
              /\ \E k \in DOMAIN Shown[j].calls : i = j + k

\* A request pairs calls and results the way strict providers require,
\* whatever steps failed halfway and whatever messages arrived while calls
\* were pending: after every assistant message come the results of exactly its
\* calls in their order, the recorded result of each call that was answered
\* and the text for an interrupted call otherwise, and no result stands
\* anywhere else.  A recorded result is missing only from a request in which a
\* summary covers it (loopEventFold.ts, contextProjectorService.ts project).
RequestsAnswerCalls ==
    phase = "requesting" =>
      /\ \A i \in DOMAIN Shown : Shown[i].kind = "assistant" =>
           \A k \in DOMAIN Shown[i].calls :
              LET id == Shown[i].calls[k]
              IN  i + k \in DOMAIN Shown /\ Shown[i + k] = Tool(id, id \in yielded)
      /\ \A i \in DOMAIN Shown : Shown[i].kind = "tool" =>
           \E j \in DOMAIN Shown : Owns(j, i)
      /\ \A id \in yielded \ Covered :
           \E i \in DOMAIN Shown : Shown[i] = Tool(id, TRUE)

\* Apart from what a compaction drops (HeldSurvive), no message is lost, kept
\* twice or put out of order: each one that arrived is in the history, waits
\* for the pending calls to be answered, or was summarised (loopEventFold.ts
\* foldAppendMessage, flushDeferred; contextOps.ts context.apply_compaction).
MessagesKept ==
    LET all == context.messages \o context.held
        Users == {i \in DOMAIN all : IsUser(all[i])}
    IN  /\ \A i, j \in Users : i < j => all[i].n < all[j].n
        /\ \A n \in (1..sent) \ dropped :
             \/ \E i \in Users : all[i].n = n
             \/ <<0, n>> \in SummaryFacts(context.messages)

\* A message that arrived while calls were pending survives a compaction, as
\* loopEventFold.ts:36-38 promises: it is "deferred and flushed once the
\* exchange closes".
HeldSurvive == dropped = {}
=============================================================================
