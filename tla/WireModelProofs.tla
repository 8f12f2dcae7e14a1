--------------------------- MODULE WireModelProofs ---------------------------
(***************************************************************************)
(* Proofs about the two models a session folds its wire log into: the      *)
(* history the agent sends (ContextHistory) and the count of its turns     *)
(* (TurnClock).                                                            *)
(*                                                                         *)
(* A history is looked at through the set of its elements and the order    *)
(* they stand in (FilteringProofs, Elems and Precedes), so that what a     *)
(* reducer does to it is a fact about sets.                                *)
(***************************************************************************)
EXTENDS ContextHistory, TurnClock, FilteringProofs

----------------------------------------------------------------------------
\* What a history is made of.
CallId == Nat \X Nat
AssistantMessages ==
  [kind : {"assistant"}, step : Nat, calls : Seq(CallId), content : BOOLEAN, partial : BOOLEAN]
UserMessages == [kind : {"user"}, n : Nat, real : BOOLEAN]
SummaryMessages == [kind : {"summary"}, covers : SUBSET CallId]
ToolMessages == [kind : {"tool"}, id : CallId, real : BOOLEAN]
Message == AssistantMessages \cup UserMessages \cup SummaryMessages \cup ToolMessages

IsAssistant(m) == m.kind = "assistant"
IsTool(m) == m.kind = "tool"

Typed(ms, p, h) == ms \in Seq(Message) /\ p \in Seq(CallId) /\ h \in Seq(UserMessages)

\* The steps of the history: in their order, and one of them open at most.
StepsSound(ms, s) ==
  /\ \A a \in Elems(ms) : IsAssistant(a) =>
       a.step \in 1..s /\ \A id \in Elems(a.calls) : id[1] = a.step
  /\ \A a, b \in Elems(ms) :
       IsAssistant(a) /\ IsAssistant(b) /\ Precedes(ms, a, b) => a.step < b.step
  /\ \A a, b \in Elems(ms) : IsPartial(a) /\ IsPartial(b) => a = b

\* The results: each stands behind the assistant that called, none twice, and it is
\* the recorded one if there is one.
ResultsSound(ms, s, Y) ==
  /\ \A t \in Elems(ms) : IsTool(t) =>
       \E a \in Elems(ms) : IsAssistant(a) /\ t.id \in Elems(a.calls) /\ Precedes(ms, a, t)
  /\ \A t, u \in Elems(ms) : IsTool(t) /\ IsTool(u) /\ Precedes(ms, t, u) => t.id # u.id
  /\ \A t \in Elems(ms) : IsTool(t) => (t.real <=> t.id \in Y) /\ (t.real \/ t.id[1] < s)

\* The calls: each is pending or answered behind its assistant.  Those pending are
\* the open step's, and none of them has a result.
PendingSound(ms, p, Y) ==
  /\ \A a \in Elems(ms) : IsAssistant(a) =>
       \A id \in Elems(a.calls) :
          \/ id \in Elems(p)
          \/ \E t \in Elems(ms) : IsTool(t) /\ t.id = id /\ Precedes(ms, a, t)
  /\ \A id \in Elems(p) : ~ Precedes(p, id, id)
  /\ \A id \in Elems(p) :
       /\ id \notin Y
       /\ \A t \in Elems(ms) : IsTool(t) => t.id # id
       /\ \E a \in Elems(ms) : IsPartial(a) /\ id \in Elems(a.calls)

\* A recorded result is in the history, or was summarised.
YieldedSound(ms, s, Y) ==
  \A id \in Y : /\ id[1] \in 0..s
                /\ \/ \E t \in Elems(ms) : IsTool(t) /\ t.id = id
                   \/ id \in SummaryFacts(ms)

\* The messages from outside are in order, those held behind the others, and none
\* is missing.
UsersSound(ms, h, n, D) ==
  /\ \A a \in Elems(ms) \cup Elems(h) : IsUser(a) => a.n \in 1..n
  /\ \A a, b \in Elems(ms) : IsUser(a) /\ IsUser(b) /\ Precedes(ms, a, b) => a.n < b.n
  /\ \A a, b \in Elems(h) : Precedes(h, a, b) => a.n < b.n
  /\ \A a \in Elems(ms), b \in Elems(h) : IsUser(a) => a.n < b.n
  /\ \A k \in (1..n) \ D :
       \/ \E a \in Elems(ms) \cup Elems(h) : IsUser(a) /\ a.n = k
       \/ <<0, k>> \in SummaryFacts(ms)

\* What holds while a reducer works; Sound is what it leaves.
Core(ms, p, h, s, n, Y, D) ==
  /\ Typed(ms, p, h) /\ s \in Nat /\ n \in Nat /\ Y \subseteq CallId
  /\ StepsSound(ms, s) /\ ResultsSound(ms, s, Y) /\ PendingSound(ms, p, Y)
  /\ YieldedSound(ms, s, Y) /\ UsersSound(ms, h, n, D)

Contexts == [messages : Seq(Message), pending : Seq(CallId), held : Seq(UserMessages)]

Sound(x, s, n, Y, D) ==
  /\ x \in Contexts
  /\ Core(x.messages, x.pending, x.held, s, n, Y, D)
  /\ x.pending = <<>> => x.held = <<>>

----------------------------------------------------------------------------
\* The fields of a message.
LEMMA MessageKinds ==
  ASSUME NEW m \in Message
  PROVE  /\ m.kind \in {"assistant", "user", "summary", "tool"}
         /\ IsAssistant(m) => m \in AssistantMessages
         /\ IsUser(m) => m \in UserMessages
         /\ m.kind = "summary" => m \in SummaryMessages
         /\ IsTool(m) => m \in ToolMessages
BY DEF Message, AssistantMessages, UserMessages, SummaryMessages, ToolMessages,
       IsAssistant, IsUser, IsTool

\* A message of the user's or the system's.
LEMMA UserKind ==
  ASSUME NEW n \in Nat, NEW real \in BOOLEAN
  PROVE  /\ User(n, real) \in UserMessages /\ User(n, real) \in Message
         /\ User(n, real).n = n /\ User(n, real).real = real /\ IsUser(User(n, real))
BY DEF User, UserMessages, Message, IsUser

\* What the other messages are not.
LEMMA UserIsNot ==
  ASSUME NEW m \in UserMessages
  PROVE  m \in Message /\ IsUser(m) /\ ~ IsAssistant(m) /\ ~ IsTool(m) /\ ~ IsPartial(m) /\ m.kind # "summary"
BY DEF UserMessages, Message, IsUser, IsAssistant, IsTool, IsPartial

\* A result.
LEMMA ToolKind ==
  ASSUME NEW id \in CallId, NEW real \in BOOLEAN
  PROVE  /\ Tool(id, real) \in ToolMessages /\ Tool(id, real) \in Message
         /\ Tool(id, real).id = id /\ Tool(id, real).real = real
BY DEF Tool, ToolMessages, Message

\* A result that is the recorded one if there is one.
LEMMA ToolIn ==
  ASSUME NEW id \in CallId, NEW Y
  PROVE  Tool(id, id \in Y) \in Message
BY DEF Tool, ToolMessages, Message

\* What a result is not.
LEMMA ToolIsNot ==
  ASSUME NEW m \in ToolMessages
  PROVE  m \in Message /\ IsTool(m) /\ ~ IsUser(m) /\ ~ IsAssistant(m) /\ ~ IsPartial(m) /\ m.kind # "summary"
BY DEF ToolMessages, Message, IsUser, IsAssistant, IsTool, IsPartial

\* What an assistant message is not.
LEMMA AssistantIsNot ==
  ASSUME NEW m \in AssistantMessages
  PROVE  /\ m \in Message /\ IsAssistant(m) /\ ~ IsUser(m) /\ ~ IsTool(m) /\ m.kind # "summary"
         /\ IsPartial(m) <=> m.partial
BY DEF AssistantMessages, Message, IsUser, IsAssistant, IsTool, IsPartial

\* The elements of a sequence are of its type.
LEMMA ElemsTyped ==
  ASSUME NEW T, NEW s \in Seq(T)
  PROVE  Elems(s) \subseteq T
BY DEF Elems

\* The facts of the summaries depend on the summaries only.
LEMMA SummaryFactsOf ==
  ASSUME NEW ms, NEW w, \A m : m.kind = "summary" => (m \in Elems(ms) <=> m \in Elems(w))
  PROVE  SummaryFacts(w) = SummaryFacts(ms)
BY DEF SummaryFacts

----------------------------------------------------------------------------
(* What the pieces of the reducers do to the parts of Core. *)

\* A message from outside enters a history that has nothing held.
LEMMA UserAppended ==
  ASSUME NEW ms, NEW p, NEW s, NEW n, NEW Y, NEW D,
         Core(ms, p, <<>>, s, n, Y, D), NEW real \in BOOLEAN
  PROVE  Core(Append(ms, User(n + 1, real)), p, <<>>, s, n + 1, Y, D)
<1>0. ms \in Seq(Message) /\ p \in Seq(CallId) /\ n \in Nat /\ n + 1 \in Nat /\ s \in Nat /\ Y \subseteq CallId
  BY DEF Core, Typed
<1> DEFINE u == User(n + 1, real)
           w == Append(ms, u)
<1>1. /\ u \in UserMessages /\ u \in Message /\ u.n = n + 1
      /\ IsUser(u) /\ ~ IsAssistant(u) /\ ~ IsTool(u) /\ ~ IsPartial(u) /\ u.kind # "summary"
  BY <1>0, UserKind, UserIsNot
<1> HIDE DEF u
<1>2. /\ w \in Seq(Message) /\ Elems(w) = Elems(ms) \cup {u}
      /\ \A a, b : Precedes(w, a, b) <=> Precedes(ms, a, b) \/ (a \in Elems(ms) /\ b = u)
  BY <1>0, <1>1, AppendElems, AppendPrecedes
<1> HIDE DEF w
<1>3. SummaryFacts(w) = SummaryFacts(ms)
  BY <1>1, <1>2, SummaryFactsOf
<1>4. Elems(<<>>) = {} /\ <<>> \in Seq(UserMessages) /\ \A a, b : ~ Precedes(<<>>, a, b)
  BY DEF Elems, Precedes
<1>5. StepsSound(w, s)
  BY <1>1, <1>2 DEF StepsSound, Core
<1>6. ResultsSound(w, s, Y)
  BY <1>1, <1>2 DEF ResultsSound, Core
<1>7. PendingSound(w, p, Y)
  BY <1>1, <1>2 DEF PendingSound, Core
<1>8. YieldedSound(w, s, Y)
  BY <1>1, <1>2, <1>3 DEF YieldedSound, Core
<1>9. UsersSound(w, <<>>, n + 1, D)
  <2>1. UsersSound(ms, <<>>, n, D)
    BY DEF Core
  <2>2. \A a \in Elems(w) : IsUser(a) => a.n \in 1..(n + 1)
    BY <1>0, <1>1, <1>2, <2>1 DEF UsersSound
  <2>3. \A a, b \in Elems(w) : IsUser(a) /\ IsUser(b) /\ Precedes(w, a, b) => a.n < b.n
    BY <1>0, <1>1, <1>2, <2>1, PrecedesElems DEF UsersSound
  <2>4. \A k \in (1..(n + 1)) \ D :
           \/ \E a \in Elems(w) : IsUser(a) /\ a.n = k
           \/ <<0, k>> \in SummaryFacts(w)
    <3>1. \A k \in 1..(n + 1) : k \in 1..n \/ k = n + 1
      BY <1>0
    <3> QED
      BY <1>1, <1>2, <1>3, <1>4, <2>1, <3>1 DEF UsersSound
  <2> QED
    BY <1>4, <2>2, <2>3, <2>4 DEF UsersSound
<1> QED
  BY <1>0, <1>2, <1>4, <1>5, <1>6, <1>7, <1>8, <1>9 DEF Core, Typed, w, u

\* A message from outside is held.
LEMMA UserHeld ==
  ASSUME NEW ms, NEW p, NEW h, NEW s, NEW n, NEW Y, NEW D,
         Core(ms, p, h, s, n, Y, D), NEW real \in BOOLEAN
  PROVE  Core(ms, p, Append(h, User(n + 1, real)), s, n + 1, Y, D)
<1>0. h \in Seq(UserMessages) /\ n \in Nat /\ n + 1 \in Nat /\ UsersSound(ms, h, n, D)
  BY DEF Core, Typed
<1> DEFINE u == User(n + 1, real)
           w == Append(h, u)
<1>1. u \in UserMessages /\ u.n = n + 1 /\ IsUser(u)
  BY <1>0, UserKind
<1> HIDE DEF u
<1>2. /\ w \in Seq(UserMessages) /\ Elems(w) = Elems(h) \cup {u}
      /\ \A a, b : Precedes(w, a, b) <=> Precedes(h, a, b) \/ (a \in Elems(h) /\ b = u)
  BY <1>0, <1>1, AppendElems, AppendPrecedes
<1>3. Elems(h) \subseteq UserMessages /\ \A a \in Elems(h) : IsUser(a)
  BY <1>0, ElemsTyped, UserIsNot
<1> HIDE DEF w
<1>4. \A a \in Elems(ms) \cup Elems(w) : IsUser(a) => a.n \in 1..(n + 1)
  BY <1>0, <1>1, <1>2 DEF UsersSound
<1>5. \A a, b \in Elems(w) : Precedes(w, a, b) => a.n < b.n
  BY <1>0, <1>1, <1>2, <1>3, PrecedesElems DEF UsersSound
<1>6. \A a \in Elems(ms), b \in Elems(w) : IsUser(a) => a.n < b.n
  BY <1>0, <1>1, <1>2 DEF UsersSound
<1>7. \A k \in (1..(n + 1)) \ D :
        \/ \E a \in Elems(ms) \cup Elems(w) : IsUser(a) /\ a.n = k
        \/ <<0, k>> \in SummaryFacts(ms)
  <2>1. \A k \in 1..(n + 1) : k \in 1..n \/ k = n + 1
    BY <1>0
  <2> QED
    BY <1>0, <1>1, <1>2, <2>1 DEF UsersSound
<1>8. UsersSound(ms, w, n + 1, D)
  BY <1>0, <1>4, <1>5, <1>6, <1>7 DEF UsersSound
<1> QED
  BY <1>0, <1>2, <1>8 DEF Core, Typed, w, u

\* flushDeferred(): what was held comes behind the rest.
LEMMA Flushed ==
  ASSUME NEW ms, NEW p, NEW h, NEW s, NEW n, NEW Y, NEW D, Core(ms, p, h, s, n, Y, D)
  PROVE  /\ Core(ms \o h, p, <<>>, s, n, Y, D)
         /\ \A a \in Elems(ms \o h) : a \in Elems(ms) \/ (a \in Message /\ IsUser(a))
<1>0. /\ ms \in Seq(Message) /\ h \in Seq(UserMessages) /\ p \in Seq(CallId) /\ s \in Nat /\ n \in Nat
      /\ Y \subseteq CallId
  BY DEF Core, Typed
<1> DEFINE w == ms \o h
<1>1. /\ Elems(h) \subseteq UserMessages /\ h \in Seq(Message)
      /\ \A a \in Elems(h) : /\ IsUser(a) /\ ~ IsAssistant(a) /\ ~ IsTool(a) /\ ~ IsPartial(a)
                             /\ a.kind # "summary" /\ a \in Message
  <2>1. Elems(h) \subseteq UserMessages
    BY <1>0, ElemsTyped
  <2>2. UserMessages \subseteq Message
    BY DEF Message
  <2>3. h \in Seq(Message)
    BY <1>0, <2>2
  <2> QED
    BY <2>1, <2>2, <2>3, UserIsNot
<1>2. /\ w \in Seq(Message) /\ Elems(w) = Elems(ms) \cup Elems(h)
      /\ \A a, b : Precedes(w, a, b) <=> \/ Precedes(ms, a, b) \/ Precedes(h, a, b)
                                         \/ a \in Elems(ms) /\ b \in Elems(h)
  BY <1>0, <1>1, ConcatElems, ConcatPrecedes
<1> HIDE DEF w
<1>3. SummaryFacts(w) = SummaryFacts(ms)
  BY <1>1, <1>2, SummaryFactsOf
<1>4. Elems(<<>>) = {} /\ <<>> \in Seq(UserMessages) /\ \A a, b : ~ Precedes(<<>>, a, b)
  BY DEF Elems, Precedes
<1>5. StepsSound(w, s)
  BY <1>1, <1>2, PrecedesElems DEF StepsSound, Core
<1>6. ResultsSound(w, s, Y)
  BY <1>1, <1>2, PrecedesElems DEF ResultsSound, Core
<1>7. PendingSound(w, p, Y)
  BY <1>1, <1>2, PrecedesElems DEF PendingSound, Core
<1>8. YieldedSound(w, s, Y)
  BY <1>1, <1>2, <1>3 DEF YieldedSound, Core
<1>9. UsersSound(w, <<>>, n, D)
  <2>1. UsersSound(ms, h, n, D)
    BY DEF Core
  <2>2. \A a, b \in Elems(w) : IsUser(a) /\ IsUser(b) /\ Precedes(w, a, b) => a.n < b.n
    BY <1>1, <1>2, <2>1, PrecedesElems DEF UsersSound
  <2> QED
    BY <1>2, <1>3, <1>4, <2>1, <2>2 DEF UsersSound
<1> QED
  BY <1>0, <1>1, <1>2, <1>4, <1>5, <1>6, <1>7, <1>8, <1>9 DEF Core, Typed, w

\* A function on 1..m is a sequence.
LEMMA TypedSequence ==
  ASSUME NEW T, NEW m \in Nat, NEW t \in [1..m -> T]
  PROVE  t \in Seq(T)
OBVIOUS

\* The interrupted results of the pending calls.
LEMMA InterruptedTools ==
  ASSUME NEW p \in Seq(CallId), NEW t, t = [i \in DOMAIN p |-> Tool(p[i], FALSE)]
  PROVE  /\ t \in Seq(Message)
         /\ Elems(t) = {Tool(id, FALSE) : id \in Elems(p)}
         /\ \A id \in Elems(p) : Tool(id, FALSE) \in Elems(t)
         /\ \A a \in Elems(t) : a \in ToolMessages /\ a.id \in Elems(p) /\ a.real = FALSE
         /\ \A a, b : Precedes(t, a, b) => Precedes(p, a.id, b.id)
<1>1. PICK m \in Nat : m = Len(p)
  OBVIOUS
<1>2. DOMAIN p = 1..m /\ DOMAIN t = 1..m /\ \A i \in 1..m : t[i] = Tool(p[i], FALSE) /\ p[i] \in CallId
  <2>1. DOMAIN p = 1..m /\ \A i \in 1..m : p[i] \in CallId
    BY <1>1
  <2>2. t = [i \in 1..m |-> Tool(p[i], FALSE)]
    BY <2>1
  <2> QED
    BY <2>1, <2>2
<1>3. /\ \A i \in 1..m : Tool(p[i], FALSE) \in ToolMessages /\ Tool(p[i], FALSE) \in Message
      /\ \A i \in 1..m : Tool(p[i], FALSE).id = p[i] /\ Tool(p[i], FALSE).real = FALSE
  BY <1>2, ToolKind
<1>4. t \in Seq(Message)
  <2>1. t = [i \in 1..m |-> Tool(p[i], FALSE)]
    BY <1>2
  <2>2. t \in [1..m -> Message]
    BY <1>3, <2>1
  <2> QED
    BY <1>1, <2>2, TypedSequence
<1>5. Elems(t) = {Tool(id, FALSE) : id \in Elems(p)}
  BY <1>2 DEF Elems
<1>6. \A a \in Elems(t) : a \in ToolMessages /\ a.id \in Elems(p) /\ a.real = FALSE
  <2> SUFFICES ASSUME NEW a \in Elems(t)
               PROVE  a \in ToolMessages /\ a.id \in Elems(p) /\ a.real = FALSE
    OBVIOUS
  <2>1. PICK i \in 1..m : a = t[i]
    BY <1>2 DEF Elems
  <2>2. a = Tool(p[i], FALSE)
    BY <1>2, <2>1
  <2>3. a \in ToolMessages /\ a.id = p[i] /\ a.real = FALSE
    BY <1>3, <2>2
  <2>4. p[i] \in Elems(p)
    BY <1>2 DEF Elems
  <2> QED
    BY <2>3, <2>4
<1>7. ASSUME NEW a, NEW b, Precedes(t, a, b)
      PROVE  Precedes(p, a.id, b.id)
  <2>1. PICK i \in 1..m, j \in 1..m : i < j /\ t[i] = a /\ t[j] = b
    BY <1>2, <1>7 DEF Precedes
  <2>2. p[i] = a.id /\ p[j] = b.id
    BY <1>2, <1>3, <2>1
  <2> QED
    BY <1>2, <2>1, <2>2 DEF Precedes
<1> QED
  BY <1>4, <1>5, <1>6, <1>7

\* closePending(): every pending call is answered by the interrupted result.
LEMMA PendingClosed ==
  ASSUME NEW ms, NEW p, NEW h, NEW s, NEW n, NEW Y, NEW D, Core(ms, p, h, s, n, Y, D),
         \A id \in Elems(p) : id[1] < s,
         NEW t \in Seq(Message),
         \A id \in Elems(p) : Tool(id, FALSE) \in Elems(t),
         \A a \in Elems(t) : a \in ToolMessages /\ a.id \in Elems(p) /\ a.real = FALSE,
         \A a, b : Precedes(t, a, b) => Precedes(p, a.id, b.id)
  PROVE  /\ Core(ms \o t, <<>>, h, s, n, Y, D)
         /\ \A a \in Elems(ms \o t) : a \in Elems(ms) \/ (a \in Message /\ IsTool(a))
<1>0. /\ ms \in Seq(Message) /\ h \in Seq(UserMessages) /\ p \in Seq(CallId) /\ s \in Nat /\ n \in Nat
      /\ Y \subseteq CallId
  BY DEF Core, Typed
<1> DEFINE w == ms \o t
<1>1. /\ t \in Seq(Message)
      /\ \A id \in Elems(p) : Tool(id, FALSE) \in Elems(t) /\ Tool(id, FALSE).id = id
      /\ \A a \in Elems(t) : a.id \in Elems(p) /\ a.real = FALSE
      /\ \A a, b : Precedes(t, a, b) => Precedes(p, a.id, b.id)
      /\ \A a \in Elems(t) : /\ a \in Message /\ IsTool(a) /\ ~ IsUser(a) /\ ~ IsAssistant(a)
                             /\ ~ IsPartial(a) /\ a.kind # "summary"
  <2>1. Elems(p) \subseteq CallId
    BY <1>0, ElemsTyped
  <2> QED
    BY <1>0, <2>1, ToolIsNot, ToolKind
<1>2. /\ w \in Seq(Message) /\ Elems(w) = Elems(ms) \cup Elems(t)
      /\ \A a, b : Precedes(w, a, b) <=> \/ Precedes(ms, a, b) \/ Precedes(t, a, b)
                                         \/ a \in Elems(ms) /\ b \in Elems(t)
  BY <1>0, <1>1, ConcatElems, ConcatPrecedes
<1> HIDE DEF w
<1>3. SummaryFacts(w) = SummaryFacts(ms)
  BY <1>1, <1>2, SummaryFactsOf
<1>4. Elems(<<>>) = {} /\ <<>> \in Seq(CallId) /\ \A a, b : ~ Precedes(<<>>, a, b)
  BY DEF Elems, Precedes
<1>5. StepsSound(w, s)
  BY <1>1, <1>2, PrecedesElems DEF StepsSound, Core
<1>6. ResultsSound(w, s, Y)
  <2>1. ResultsSound(ms, s, Y) /\ PendingSound(ms, p, Y)
    BY DEF Core
  <2>2. \A x \in Elems(w) : IsTool(x) =>
           \E a \in Elems(w) : IsAssistant(a) /\ x.id \in Elems(a.calls) /\ Precedes(w, a, x)
    <3>1. \A a \in Elems(ms) : IsPartial(a) => IsAssistant(a)
      BY DEF IsPartial, IsAssistant
    <3> QED
      BY <1>1, <1>2, <2>1, <3>1 DEF ResultsSound, PendingSound
  <2>3. \A x, u \in Elems(w) : IsTool(x) /\ IsTool(u) /\ Precedes(w, x, u) => x.id # u.id
    BY <1>1, <1>2, <2>1, PrecedesElems DEF ResultsSound, PendingSound
  <2>4. \A x \in Elems(w) : IsTool(x) => (x.real <=> x.id \in Y) /\ (x.real \/ x.id[1] < s)
    BY <1>1, <1>2, <2>1 DEF ResultsSound, PendingSound
  <2> QED
    BY <2>2, <2>3, <2>4 DEF ResultsSound
<1>7. PendingSound(w, <<>>, Y)
  <2>1. PendingSound(ms, p, Y)
    BY DEF Core
  <2>2. \A a \in Elems(w) : IsAssistant(a) =>
       \A id \in Elems(a.calls) :
          \E x \in Elems(w) : IsTool(x) /\ x.id = id /\ Precedes(w, a, x)
    BY <1>1, <1>2, <2>1 DEF PendingSound
  <2> QED
    BY <1>4, <2>2 DEF PendingSound
<1>8. YieldedSound(w, s, Y)
  BY <1>1, <1>2, <1>3 DEF YieldedSound, Core
<1>9. UsersSound(w, h, n, D)
  BY <1>1, <1>2, <1>3, PrecedesElems DEF UsersSound, Core
<1>10. Core(w, <<>>, h, s, n, Y, D)
  BY <1>0, <1>2, <1>4, <1>5, <1>6, <1>7, <1>8, <1>9 DEF Core, Typed
<1>11. \A a \in Elems(w) : a \in Elems(ms) \/ (a \in Message /\ IsTool(a))
  BY <1>1, <1>2
<1> QED
  BY <1>10, <1>11 DEF w

\* settleOpenStep() takes the open message out when its step recorded nothing.
LEMMA OpenDropped ==
  ASSUME NEW ms, NEW h, NEW s, NEW n, NEW Y, NEW D, Core(ms, <<>>, h, s, n, Y, D),
         NEW o \in Elems(ms), IsPartial(o), o.calls = <<>>
  PROVE  /\ Core(Without(ms, {o}), <<>>, h, s, n, Y, D)
         /\ \A a \in Elems(Without(ms, {o})) : a \in Elems(ms) /\ ~ IsPartial(a)
<1>0. /\ ms \in Seq(Message) /\ h \in Seq(UserMessages) /\ s \in Nat /\ n \in Nat
      /\ Y \subseteq CallId
  BY DEF Core, Typed
<1> DEFINE w == Without(ms, {o})
<1>1. o \in AssistantMessages /\ IsAssistant(o) /\ ~ IsUser(o) /\ ~ IsTool(o) /\ o.kind # "summary"
  <2>1. o \in Message /\ IsAssistant(o)
    BY <1>0, ElemsTyped DEF IsPartial, IsAssistant
  <2> QED
    BY <2>1, MessageKinds, AssistantIsNot
<1>2. /\ w \in Seq(Message) /\ Elems(w) = Elems(ms) \ {o}
      /\ \A a, b : Precedes(w, a, b) <=> Precedes(ms, a, b) /\ a # o /\ b # o
  BY <1>0, WithoutElems, WithoutPrecedes
<1> HIDE DEF w
<1>3. SummaryFacts(w) = SummaryFacts(ms)
  BY <1>1, <1>2, SummaryFactsOf
<1>4. Elems(<<>>) = {} /\ <<>> \in Seq(CallId) /\ \A a, b : ~ Precedes(<<>>, a, b)
  BY DEF Elems, Precedes
<1>5. StepsSound(w, s) /\ \A a \in Elems(w) : ~ IsPartial(a)
  BY <1>1, <1>2 DEF StepsSound, Core
<1>6. ResultsSound(w, s, Y)
  BY <1>1, <1>2, <1>4 DEF ResultsSound, Core
<1>7. PendingSound(w, <<>>, Y)
  BY <1>1, <1>2, <1>4 DEF PendingSound, Core
<1>8. YieldedSound(w, s, Y)
  BY <1>1, <1>2, <1>3 DEF YieldedSound, Core
<1>9. UsersSound(w, h, n, D)
  BY <1>1, <1>2, <1>3 DEF UsersSound, Core
<1> QED
  BY <1>0, <1>2, <1>4, <1>5, <1>6, <1>7, <1>8, <1>9 DEF Core, Typed, w

\* No assistant message stands twice in the history.
LEMMA AssistantsOnce ==
  ASSUME NEW ms, NEW s, ms \in Seq(Message), s \in Nat, StepsSound(ms, s),
         NEW o \in Elems(ms), IsAssistant(o)
  PROVE  ~ Precedes(ms, o, o)
<1>1. o.step \in 1..s
  BY DEF StepsSound
<1>2. Precedes(ms, o, o) => o.step < o.step
  BY DEF StepsSound
<1> QED
  BY <1>1, <1>2

\* The order of a history in which a message was replaced.
Swapped(ms, w, o, b) ==
  /\ w \in Seq(Message) /\ Elems(w) = (Elems(ms) \ {o}) \cup {b}
  /\ \A x, y : Precedes(ms, x, y) => Precedes(w, IF x = o THEN b ELSE x, IF y = o THEN b ELSE y)
  /\ \A u, v : Precedes(w, u, v) => \E x, y : /\ Precedes(ms, x, y)
                                              /\ u = (IF x = o THEN b ELSE x)
                                              /\ v = (IF y = o THEN b ELSE y)

\* An assistant message is replaced.
LEMMA AssistantPut ==
  ASSUME NEW ms, NEW s, ms \in Seq(Message), s \in Nat, StepsSound(ms, s),
         NEW i \in DOMAIN ms, IsAssistant(ms[i]), NEW b \in Message
  PROVE  ms[i] \in Elems(ms) /\ Swapped(ms, [ms EXCEPT ![i] = b], ms[i], b)
<1>1. ms[i] \in Elems(ms)
  BY DEF Elems
<1>2. ~ Precedes(ms, ms[i], ms[i])
  BY <1>1, AssistantsOnce
<1>3. /\ [ms EXCEPT ![i] = b] \in Seq(Message)
      /\ Elems([ms EXCEPT ![i] = b]) = (Elems(ms) \ {ms[i]}) \cup {b}
  BY <1>2, PutElems
<1>4. \A u, v : Precedes([ms EXCEPT ![i] = b], u, v) <=>
           \E x, y : /\ Precedes(ms, x, y)
                     /\ u = (IF x = ms[i] THEN b ELSE x) /\ v = (IF y = ms[i] THEN b ELSE y)
  BY <1>2, PutPrecedes
<1> QED
  BY <1>1, <1>3, <1>4 DEF Swapped

\* An assistant message is sealed, or its content recorded.
LEMMA AssistantReplaced ==
  ASSUME NEW ms, NEW p, NEW h, NEW s, NEW n, NEW Y, NEW D, Core(ms, p, h, s, n, Y, D),
         NEW o \in Elems(ms), IsAssistant(o),
         NEW b \in AssistantMessages, b.step = o.step, b.calls = o.calls, b.partial => IsPartial(o),
         p = <<>> \/ b.partial,
         NEW w, Swapped(ms, w, o, b)
  PROVE  Core(w, p, h, s, n, Y, D)
<1>0. /\ ms \in Seq(Message) /\ h \in Seq(UserMessages) /\ p \in Seq(CallId) /\ s \in Nat /\ n \in Nat
      /\ Y \subseteq CallId
  BY DEF Core, Typed
<1>1. /\ IsAssistant(o) /\ ~ IsUser(o) /\ ~ IsTool(o) /\ o.kind # "summary"
      /\ IsAssistant(b) /\ ~ IsUser(b) /\ ~ IsTool(b) /\ b.kind # "summary"
      /\ IsPartial(b) <=> b.partial
  <2>1. o \in Message
    BY <1>0, ElemsTyped
  <2> QED
    BY <2>1, MessageKinds, AssistantIsNot
<1>2. /\ w \in Seq(Message) /\ Elems(w) = (Elems(ms) \ {o}) \cup {b}
      /\ \A x, y : Precedes(ms, x, y) => Precedes(w, IF x = o THEN b ELSE x, IF y = o THEN b ELSE y)
      /\ \A u, v : Precedes(w, u, v) => \E x, y : /\ Precedes(ms, x, y)
                                                  /\ u = (IF x = o THEN b ELSE x)
                                                  /\ v = (IF y = o THEN b ELSE y)
  BY DEF Swapped
<1>3. SummaryFacts(w) = SummaryFacts(ms)
  BY <1>1, <1>2, SummaryFactsOf
<1>4. Elems(<<>>) = {}
  BY DEF Elems
<1>5. StepsSound(w, s)
  <2>1. StepsSound(ms, s)
    BY DEF Core
  <2>2. \A x, y \in Elems(w) :
          IsAssistant(x) /\ IsAssistant(y) /\ Precedes(w, x, y) => x.step < y.step
    BY <1>1, <1>2, <2>1, PrecedesElems DEF StepsSound
  <2>3. \A x \in Elems(w) : IsAssistant(x) => x.step \in 1..s /\ \A id \in Elems(x.calls) : id[1] = x.step
    BY <1>1, <1>2, <2>1 DEF StepsSound
  <2>4. \A x, y \in Elems(w) : IsPartial(x) /\ IsPartial(y) => x = y
    BY <1>1, <1>2, <2>1 DEF StepsSound
  <2> QED
    BY <2>2, <2>3, <2>4 DEF StepsSound
<1>6. ResultsSound(w, s, Y)
  <2>1. ResultsSound(ms, s, Y)
    BY DEF Core
  <2>2. \A t \in Elems(w) : IsTool(t) =>
          \E a \in Elems(w) : IsAssistant(a) /\ t.id \in Elems(a.calls) /\ Precedes(w, a, t)
    <3> SUFFICES ASSUME NEW t \in Elems(w), IsTool(t)
                 PROVE  \E a \in Elems(w) : IsAssistant(a) /\ t.id \in Elems(a.calls) /\ Precedes(w, a, t)
      OBVIOUS
    <3>1. t \in Elems(ms) /\ t # o
      BY <1>1, <1>2
    <3>2. PICK a \in Elems(ms) : IsAssistant(a) /\ t.id \in Elems(a.calls) /\ Precedes(ms, a, t)
      BY <2>1, <3>1 DEF ResultsSound
    <3> QED
      BY <1>1, <1>2, <3>1, <3>2
  <2>3. \A t, u \in Elems(w) : IsTool(t) /\ IsTool(u) /\ Precedes(w, t, u) => t.id # u.id
    BY <1>1, <1>2, <2>1, PrecedesElems DEF ResultsSound
  <2>4. \A t \in Elems(w) : IsTool(t) => (t.real <=> t.id \in Y) /\ (t.real \/ t.id[1] < s)
    BY <1>1, <1>2, <2>1 DEF ResultsSound
  <2> QED
    BY <2>2, <2>3, <2>4 DEF ResultsSound
<1>7. PendingSound(w, p, Y)
  <2>1. PendingSound(ms, p, Y)
    BY DEF Core
  <2>2. \A a \in Elems(w) : IsAssistant(a) =>
       \A id \in Elems(a.calls) :
          \/ id \in Elems(p)
          \/ \E t \in Elems(w) : IsTool(t) /\ t.id = id /\ Precedes(w, a, t)
    <3> SUFFICES ASSUME NEW a \in Elems(w), IsAssistant(a), NEW id \in Elems(a.calls), id \notin Elems(p)
                 PROVE  \E t \in Elems(w) : IsTool(t) /\ t.id = id /\ Precedes(w, a, t)
      OBVIOUS
    <3>1. PICK c \in Elems(ms) : IsAssistant(c) /\ id \in Elems(c.calls) /\ a = (IF c = o THEN b ELSE c)
      BY <1>1, <1>2
    <3>2. PICK t \in Elems(ms) : IsTool(t) /\ t.id = id /\ Precedes(ms, c, t)
      BY <2>1, <3>1 DEF PendingSound
    <3> QED
      BY <1>1, <1>2, <3>1, <3>2
  <2>3. \A id \in Elems(p) :
          /\ id \notin Y
          /\ \A t \in Elems(w) : IsTool(t) => t.id # id
          /\ \E a \in Elems(w) : IsPartial(a) /\ id \in Elems(a.calls)
    BY <1>1, <1>2, <1>4, <2>1 DEF PendingSound
  <2> QED
    BY <2>1, <2>2, <2>3 DEF PendingSound
<1>8. YieldedSound(w, s, Y)
  BY <1>1, <1>2, <1>3 DEF YieldedSound, Core
<1>9. UsersSound(w, h, n, D)
  <2>1. UsersSound(ms, h, n, D)
    BY DEF Core
  <2>2. \A x, y \in Elems(w) : IsUser(x) /\ IsUser(y) /\ Precedes(w, x, y) => x.n < y.n
    BY <1>1, <1>2, <2>1, PrecedesElems DEF UsersSound
  <2> QED
    BY <1>1, <1>2, <1>3, <2>1, <2>2 DEF UsersSound
<1> QED
  BY <1>0, <1>2, <1>5, <1>6, <1>7, <1>8, <1>9 DEF Core, Typed

\* The next step is counted.
LEMMA StepCounted ==
  ASSUME NEW ms, NEW p, NEW h, NEW s, NEW n, NEW Y, NEW D, Core(ms, p, h, s, n, Y, D)
  PROVE  /\ Core(ms, p, h, s + 1, n, Y, D)
         /\ \A a \in Elems(ms) : IsAssistant(a) => a.step < s + 1
         /\ \A id \in Elems(p) : id[1] < s + 1
<1>0. s \in Nat /\ s + 1 \in Nat
  BY DEF Core
<1>1. \A a \in Elems(ms) : IsAssistant(a) => a.step \in 1..s /\ \A id \in Elems(a.calls) : id[1] = a.step
  BY DEF Core, StepsSound
<1>2. \A i \in 0..s : i \in 0..(s + 1) /\ i < s + 1
  BY <1>0
<1>3. \A i \in 1..s : i \in 0..s /\ i \in 1..(s + 1)
  BY <1>0
<1>4. StepsSound(ms, s + 1)
  BY <1>1, <1>3 DEF Core, StepsSound
<1>5. ResultsSound(ms, s + 1, Y)
  <2>1. ResultsSound(ms, s, Y)
    BY DEF Core
  <2>2. \A t \in Elems(ms) : IsTool(t) => t.id[1] \in 1..s
    BY <1>1, <2>1 DEF ResultsSound
  <2>3. \A t \in Elems(ms) : IsTool(t) => t.id[1] < s + 1
    BY <1>2, <1>3, <2>2
  <2> QED
    BY <2>1, <2>3 DEF ResultsSound
<1>6. YieldedSound(ms, s + 1, Y)
  BY <1>2 DEF Core, YieldedSound
<1>7. \A id \in Elems(p) : id[1] \in 1..s
  <2>1. \A id \in Elems(p) : \E a \in Elems(ms) : IsPartial(a) /\ id \in Elems(a.calls)
    BY DEF Core, PendingSound
  <2>2. \A a : IsPartial(a) => IsAssistant(a)
    BY DEF IsPartial, IsAssistant
  <2> QED
    BY <1>1, <2>1, <2>2
<1>8. Core(ms, p, h, s + 1, n, Y, D)
  BY <1>0, <1>4, <1>5, <1>6 DEF Core
<1>9. \A a \in Elems(ms) : IsAssistant(a) => a.step < s + 1
  BY <1>1, <1>2, <1>3
<1>10. \A id \in Elems(p) : id[1] < s + 1
  BY <1>2, <1>3, <1>7
<1> QED
  BY <1>8, <1>9, <1>10

\* step.begin: a fresh assistant message opens the step.
LEMMA AssistantAppended ==
  ASSUME NEW ms, NEW s, NEW n, NEW Y, NEW D, Core(ms, <<>>, <<>>, s, n, Y, D), s > 0,
         \A a \in Elems(ms) : ~ IsPartial(a) /\ (IsAssistant(a) => a.step < s)
  PROVE  /\ Core(Append(ms, Assistant(s)), <<>>, <<>>, s, n, Y, D)
         /\ Elems(Append(ms, Assistant(s))) = Elems(ms) \cup {Assistant(s)}
         /\ IsPartial(Assistant(s)) /\ Assistant(s).step = s /\ Assistant(s).calls = <<>>
<1>0. /\ ms \in Seq(Message) /\ s \in Nat /\ n \in Nat /\ Y \subseteq CallId
  BY DEF Core, Typed
<1> DEFINE o == Assistant(s)
           w == Append(ms, o)
<1>1. /\ o \in Message /\ IsAssistant(o) /\ ~ IsUser(o) /\ ~ IsTool(o) /\ o.kind # "summary"
      /\ o.step = s /\ o.calls = <<>> /\ Elems(o.calls) = {} /\ IsPartial(o)
  <2>1. o \in AssistantMessages
    <3>1. <<>> \in Seq(CallId)
      OBVIOUS
    <3> QED
      BY <1>0, <3>1 DEF Assistant, AssistantMessages
  <2>2. o.step = s /\ o.calls = <<>> /\ o.partial = TRUE
    BY DEF Assistant
  <2> QED
    BY <2>1, <2>2, AssistantIsNot DEF Elems
<1> HIDE DEF o
<1>2. /\ w \in Seq(Message) /\ Elems(w) = Elems(ms) \cup {o}
      /\ \A a, b : Precedes(w, a, b) <=> Precedes(ms, a, b) \/ (a \in Elems(ms) /\ b = o)
  BY <1>0, <1>1, AppendElems, AppendPrecedes
<1> HIDE DEF w
<1>3. SummaryFacts(w) = SummaryFacts(ms)
  BY <1>1, <1>2, SummaryFactsOf
<1>4. \A a, b : Precedes(w, a, b) => a \in Elems(ms)
  BY <1>2, PrecedesElems
<1>5. StepsSound(w, s)
  <2>1. StepsSound(ms, s)
    BY DEF Core
  <2>2. \A a \in Elems(w) : IsAssistant(a) =>
          a.step \in 1..s /\ \A id \in Elems(a.calls) : id[1] = a.step
    BY <1>0, <1>1, <1>2, <2>1 DEF StepsSound
  <2>3. \A a, b \in Elems(w) :
          IsAssistant(a) /\ IsAssistant(b) /\ Precedes(w, a, b) => a.step < b.step
    BY <1>0, <1>1, <1>2, <1>4, <2>1, PrecedesElems DEF StepsSound
  <2> QED
    BY <1>1, <1>2, <2>2, <2>3 DEF StepsSound
<1>6. ResultsSound(w, s, Y)
  BY <1>1, <1>2, PrecedesElems DEF ResultsSound, Core
<1>7. PendingSound(w, <<>>, Y)
  BY <1>1, <1>2 DEF PendingSound, Core
<1>8. YieldedSound(w, s, Y)
  BY <1>1, <1>2, <1>3 DEF YieldedSound, Core
<1>9. UsersSound(w, <<>>, n, D)
  BY <1>1, <1>2, <1>3, <1>4, PrecedesElems DEF UsersSound, Core
<1> QED
  BY <1>0, <1>1, <1>2, <1>5, <1>6, <1>7, <1>8, <1>9 DEF Core, Typed, w, o

\* tool.call: the open step calls once more.
LEMMA CallAdded ==
  ASSUME NEW ms, NEW p, NEW h, NEW s, NEW n, NEW Y, NEW D, Core(ms, p, h, s, n, Y, D),
         NEW o \in Elems(ms), IsPartial(o),
         NEW id \in CallId, id[1] = o.step, id \notin Y, id \notin Elems(p),
         \A t \in Elems(ms) : IsTool(t) => t.id # id,
         NEW b \in AssistantMessages, b.step = o.step, b.calls = Append(o.calls, id), b.partial,
         NEW w, Swapped(ms, w, o, b)
  PROVE  Core(w, Append(p, id), h, s, n, Y, D)
<1>0. /\ ms \in Seq(Message) /\ h \in Seq(UserMessages) /\ p \in Seq(CallId) /\ s \in Nat /\ n \in Nat
      /\ Y \subseteq CallId
  BY DEF Core, Typed
<1> DEFINE q == Append(p, id)
<1>1. /\ IsAssistant(o) /\ ~ IsUser(o) /\ ~ IsTool(o) /\ o.kind # "summary"
      /\ IsAssistant(b) /\ ~ IsUser(b) /\ ~ IsTool(b) /\ b.kind # "summary"
      /\ IsPartial(b) /\ Elems(b.calls) = Elems(o.calls) \cup {id}
  <2>1. o \in Message /\ IsAssistant(o)
    BY <1>0, ElemsTyped DEF IsPartial, IsAssistant
  <2>2. o \in AssistantMessages
    BY <2>1, MessageKinds
  <2>3. o.calls \in Seq(CallId)
    BY <2>2 DEF AssistantMessages
  <2> QED
    BY <2>2, <2>3, AssistantIsNot, AppendElems
<1>2. /\ w \in Seq(Message) /\ Elems(w) = (Elems(ms) \ {o}) \cup {b}
      /\ \A x, y : Precedes(ms, x, y) => Precedes(w, IF x = o THEN b ELSE x, IF y = o THEN b ELSE y)
      /\ \A u, v : Precedes(w, u, v) => \E x, y : /\ Precedes(ms, x, y)
                                                  /\ u = (IF x = o THEN b ELSE x)
                                                  /\ v = (IF y = o THEN b ELSE y)
  BY DEF Swapped
<1>3. SummaryFacts(w) = SummaryFacts(ms)
  BY <1>1, <1>2, SummaryFactsOf
<1>4. /\ q \in Seq(CallId) /\ Elems(q) = Elems(p) \cup {id}
      /\ \A x, y : Precedes(q, x, y) <=> Precedes(p, x, y) \/ (x \in Elems(p) /\ y = id)
  BY <1>0, AppendElems, AppendPrecedes
<1> HIDE DEF q
<1>5. StepsSound(w, s)
  <2>1. StepsSound(ms, s)
    BY DEF Core
  <2>2. \A x, y \in Elems(w) :
          IsAssistant(x) /\ IsAssistant(y) /\ Precedes(w, x, y) => x.step < y.step
    BY <1>1, <1>2, <2>1, PrecedesElems DEF StepsSound
  <2>3. \A x \in Elems(w) : IsAssistant(x) => x.step \in 1..s /\ \A i \in Elems(x.calls) : i[1] = x.step
    BY <1>1, <1>2, <2>1 DEF StepsSound
  <2>4. \A x, y \in Elems(w) : IsPartial(x) /\ IsPartial(y) => x = y
    BY <1>1, <1>2, <2>1 DEF StepsSound
  <2> QED
    BY <2>2, <2>3, <2>4 DEF StepsSound
<1>6. ResultsSound(w, s, Y)
  <2>1. ResultsSound(ms, s, Y)
    BY DEF Core
  <2>2. \A t \in Elems(w) : IsTool(t) =>
          \E a \in Elems(w) : IsAssistant(a) /\ t.id \in Elems(a.calls) /\ Precedes(w, a, t)
    <3> SUFFICES ASSUME NEW t \in Elems(w), IsTool(t)
                 PROVE  \E a \in Elems(w) : IsAssistant(a) /\ t.id \in Elems(a.calls) /\ Precedes(w, a, t)
      OBVIOUS
    <3>1. t \in Elems(ms) /\ t # o
      BY <1>1, <1>2
    <3>2. PICK a \in Elems(ms) : IsAssistant(a) /\ t.id \in Elems(a.calls) /\ Precedes(ms, a, t)
      BY <2>1, <3>1 DEF ResultsSound
    <3> QED
      BY <1>1, <1>2, <3>1, <3>2
  <2>3. \A t, u \in Elems(w) : IsTool(t) /\ IsTool(u) /\ Precedes(w, t, u) => t.id # u.id
    BY <1>1, <1>2, <2>1, PrecedesElems DEF ResultsSound
  <2>4. \A t \in Elems(w) : IsTool(t) => (t.real <=> t.id \in Y) /\ (t.real \/ t.id[1] < s)
    BY <1>1, <1>2, <2>1 DEF ResultsSound
  <2> QED
    BY <2>2, <2>3, <2>4 DEF ResultsSound
<1>7. PendingSound(w, q, Y)
  <2>1. PendingSound(ms, p, Y)
    BY DEF Core
  <2>2. \A a \in Elems(w) : IsAssistant(a) =>
       \A i \in Elems(a.calls) :
          \/ i \in Elems(q)
          \/ \E t \in Elems(w) : IsTool(t) /\ t.id = i /\ Precedes(w, a, t)
    <3> SUFFICES ASSUME NEW a \in Elems(w), IsAssistant(a), NEW i \in Elems(a.calls), i \notin Elems(q)
                 PROVE  \E t \in Elems(w) : IsTool(t) /\ t.id = i /\ Precedes(w, a, t)
      OBVIOUS
    <3>1. PICK c \in Elems(ms) : IsAssistant(c) /\ i \in Elems(c.calls) /\ a = (IF c = o THEN b ELSE c)
      BY <1>1, <1>2, <1>4
    <3>2. PICK t \in Elems(ms) : IsTool(t) /\ t.id = i /\ Precedes(ms, c, t)
      BY <1>4, <2>1, <3>1 DEF PendingSound
    <3> QED
      BY <1>1, <1>2, <3>1, <3>2
  <2>3. \A i \in Elems(q) :
          /\ i \notin Y
          /\ \A t \in Elems(w) : IsTool(t) => t.id # i
          /\ \E a \in Elems(w) : IsPartial(a) /\ i \in Elems(a.calls)
    BY <1>1, <1>2, <1>4, <2>1 DEF PendingSound
  <2>4. \A i \in Elems(q) : ~ Precedes(q, i, i)
    BY <1>4, <2>1, PrecedesElems DEF PendingSound
  <2> QED
    BY <2>2, <2>3, <2>4 DEF PendingSound
<1>8. YieldedSound(w, s, Y)
  BY <1>1, <1>2, <1>3 DEF YieldedSound, Core
<1>9. UsersSound(w, h, n, D)
  <2>1. UsersSound(ms, h, n, D)
    BY DEF Core
  <2>2. \A x, y \in Elems(w) : IsUser(x) /\ IsUser(y) /\ Precedes(w, x, y) => x.n < y.n
    BY <1>1, <1>2, <2>1, PrecedesElems DEF UsersSound
  <2> QED
    BY <1>1, <1>2, <1>3, <2>1, <2>2 DEF UsersSound
<1> QED
  BY <1>0, <1>2, <1>4, <1>5, <1>6, <1>7, <1>8, <1>9 DEF Core, Typed, q

\* tool.result: a pending call is answered.
LEMMA ResultAdded ==
  ASSUME NEW ms, NEW p, NEW h, NEW s, NEW n, NEW Y, NEW D, Core(ms, p, h, s, n, Y, D),
         NEW id \in Elems(p)
  PROVE  /\ Core(Append(ms, Tool(id, TRUE)), Without(p, {id}), h, s, n, Y \cup {id}, D)
         /\ Elems(Append(ms, Tool(id, TRUE))) = Elems(ms) \cup {Tool(id, TRUE)}
         /\ IsTool(Tool(id, TRUE)) /\ Tool(id, TRUE) \in Message
<1>0. /\ ms \in Seq(Message) /\ h \in Seq(UserMessages) /\ p \in Seq(CallId) /\ s \in Nat /\ n \in Nat
      /\ Y \subseteq CallId /\ id \in CallId
  <2>1. /\ ms \in Seq(Message) /\ h \in Seq(UserMessages) /\ p \in Seq(CallId) /\ s \in Nat /\ n \in Nat
        /\ Y \subseteq CallId
    BY DEF Core, Typed
  <2> QED
    BY <2>1, ElemsTyped
<1> DEFINE r == Tool(id, TRUE)
           w == Append(ms, r)
           q == Without(p, {id})
<1>1. /\ r \in Message /\ IsTool(r) /\ ~ IsUser(r) /\ ~ IsAssistant(r) /\ ~ IsPartial(r) /\ r.kind # "summary"
      /\ r.id = id /\ r.real = TRUE
  BY <1>0, ToolKind, ToolIsNot
<1> HIDE DEF r
<1>2. /\ w \in Seq(Message) /\ Elems(w) = Elems(ms) \cup {r}
      /\ \A a, b : Precedes(w, a, b) <=> Precedes(ms, a, b) \/ (a \in Elems(ms) /\ b = r)
  BY <1>0, <1>1, AppendElems, AppendPrecedes
<1>3. /\ q \in Seq(CallId) /\ Elems(q) = Elems(p) \ {id}
      /\ \A a, b : Precedes(q, a, b) <=> Precedes(p, a, b) /\ a # id /\ b # id
  BY <1>0, WithoutElems, WithoutPrecedes
<1> HIDE DEF w, q
<1>4. SummaryFacts(w) = SummaryFacts(ms)
  BY <1>1, <1>2, SummaryFactsOf
<1>5. StepsSound(w, s)
  BY <1>1, <1>2 DEF StepsSound, Core
<1>6. PICK o \in Elems(ms) : IsPartial(o) /\ id \in Elems(o.calls)
  BY DEF Core, PendingSound
<1>7. IsAssistant(o) /\ id[1] \in 1..s /\ id[1] \in 0..s
  <2>1. IsAssistant(o)
    BY <1>6 DEF IsPartial, IsAssistant
  <2>2. id[1] \in 1..s
    BY <1>6, <2>1 DEF Core, StepsSound
  <2> QED
    BY <1>0, <2>1, <2>2
<1>8. ResultsSound(w, s, Y \cup {id})
  <2>1. ResultsSound(ms, s, Y) /\ PendingSound(ms, p, Y)
    BY DEF Core
  <2>2. \A t \in Elems(w) : IsTool(t) =>
          \E a \in Elems(w) : IsAssistant(a) /\ t.id \in Elems(a.calls) /\ Precedes(w, a, t)
    BY <1>1, <1>2, <1>6, <1>7, <2>1 DEF ResultsSound
  <2>3. \A t, u \in Elems(w) : IsTool(t) /\ IsTool(u) /\ Precedes(w, t, u) => t.id # u.id
    BY <1>1, <1>2, <2>1, PrecedesElems DEF ResultsSound, PendingSound
  <2>4. \A t \in Elems(w) : IsTool(t) => (t.real <=> t.id \in Y \cup {id}) /\ (t.real \/ t.id[1] < s)
    BY <1>1, <1>2, <2>1 DEF ResultsSound, PendingSound
  <2> QED
    BY <2>2, <2>3, <2>4 DEF ResultsSound
<1>9. PendingSound(w, q, Y \cup {id})
  <2>1. PendingSound(ms, p, Y)
    BY DEF Core
  <2>2. \A a \in Elems(w) : IsAssistant(a) =>
       \A i \in Elems(a.calls) :
          \/ i \in Elems(q)
          \/ \E t \in Elems(w) : IsTool(t) /\ t.id = i /\ Precedes(w, a, t)
    BY <1>1, <1>2, <1>3, <2>1 DEF PendingSound
  <2>3. \A i \in Elems(q) :
          /\ i \notin Y \cup {id}
          /\ \A t \in Elems(w) : IsTool(t) => t.id # i
          /\ \E a \in Elems(w) : IsPartial(a) /\ i \in Elems(a.calls)
    BY <1>1, <1>2, <1>3, <2>1 DEF PendingSound
  <2>4. \A i \in Elems(q) : ~ Precedes(q, i, i)
    BY <1>3, <2>1 DEF PendingSound
  <2> QED
    BY <2>2, <2>3, <2>4 DEF PendingSound
<1>10. YieldedSound(w, s, Y \cup {id})
  BY <1>1, <1>2, <1>4, <1>7 DEF YieldedSound, Core
<1>11. UsersSound(w, h, n, D)
  BY <1>1, <1>2, <1>4, PrecedesElems DEF UsersSound, Core
<1> QED
  BY <1>0, <1>1, <1>2, <1>3, <1>5, <1>8, <1>9, <1>10, <1>11 DEF Core, Typed, w, q, r

\* What a summary says of the messages it stands for.
LEMMA FactsOf ==
  ASSUME NEW ms \in Seq(Message)
  PROVE  /\ Facts(ms) \subseteq CallId
         /\ \A m \in Elems(ms) : IsUser(m) => <<0, m.n>> \in Facts(ms)
         /\ \A m \in Elems(ms) : IsTool(m) => m.id \in Facts(ms)
         /\ SummaryFacts(ms) \subseteq Facts(ms)
<1> DEFINE F(m) == CASE m.kind = "summary" -> m.covers
                     [] m.kind = "user" -> {<<0, m.n>>}
                     [] m.kind = "tool" -> {m.id}
                     [] OTHER -> {}
<1>1. Elems(ms) \subseteq Message
  BY ElemsTyped
<1>2. \A m : IsUser(m) => F(m) = {<<0, m.n>>}
  BY DEF IsUser
<1>3. \A m : IsTool(m) => F(m) = {m.id}
  BY DEF IsTool
<1>4. \A m : m.kind = "summary" => F(m) = m.covers
  OBVIOUS
<1>5. \A m : IsAssistant(m) => F(m) = {}
  BY DEF IsAssistant
<1>6. ASSUME NEW m \in Message
      PROVE  F(m) \subseteq CallId
  <2>1. IsUser(m) => m.n \in Nat
    BY MessageKinds DEF UserMessages
  <2>2. IsTool(m) => m.id \in CallId
    BY MessageKinds DEF ToolMessages
  <2>3. m.kind = "summary" => m.covers \subseteq CallId
    BY MessageKinds DEF SummaryMessages
  <2>4. \A k \in Nat : <<0, k>> \in CallId
    BY DEF CallId
  <2>5. IsUser(m) \/ IsTool(m) \/ m.kind = "summary" \/ IsAssistant(m)
    BY MessageKinds DEF IsUser, IsTool, IsAssistant
  <2> HIDE DEF F
  <2> QED
    BY <1>2, <1>3, <1>4, <1>5, <2>1, <2>2, <2>3, <2>4, <2>5
<1>7. Facts(ms) = UNION {F(m) : m \in Elems(ms)}
  BY DEF Facts
<1>8. SummaryFacts(ms) = UNION {m.covers : m \in {mm \in Elems(ms) : mm.kind = "summary"}}
  BY DEF SummaryFacts
<1> HIDE DEF F
<1>9. Facts(ms) \subseteq CallId
  BY <1>1, <1>6, <1>7
<1>10. \A m \in Elems(ms) : F(m) \subseteq Facts(ms)
  BY <1>7
<1>11. SummaryFacts(ms) \subseteq Facts(ms)
  BY <1>4, <1>8, <1>10
<1> QED
  BY <1>2, <1>3, <1>9, <1>10, <1>11

\* context.apply_compaction: the user's messages stay, the summary stands for the rest.
LEMMA Compacted ==
  ASSUME NEW ms, NEW p, NEW h, NEW s, NEW n, NEW Y, NEW D, Core(ms, p, h, s, n, Y, D),
         NEW old \in Seq(Message), HistorySafeToCompact(ms, old)
  PROVE  /\ Core(CompactionShape(ms, old), <<>>, <<>>, s, n, Y, D \cup {m.n : m \in Elems(h)})
         /\ \A a \in Elems(CompactionShape(ms, old)) : ~ IsAssistant(a)
<1>0. /\ ms \in Seq(Message) /\ h \in Seq(UserMessages) /\ p \in Seq(CallId) /\ s \in Nat /\ n \in Nat
      /\ Y \subseteq CallId
  BY DEF Core, Typed
<1> DEFINE X == {m \in Elems(ms) : ~ IsRealUser(m)}
           k == Without(ms, X)
           sum == Summary(Facts(old))
           one == <<sum>>
           w == k \o one
           E == D \cup {m.n : m \in Elems(h)}
<1>x. \A m : m \in X <=> m \in Elems(ms) /\ ~ IsRealUser(m)
  OBVIOUS
<1> HIDE DEF X
<1>1. Elems(old) \subseteq Elems(ms) /\ \A m \in X : m \in Elems(old)
  <2>1. PICK i \in Nat, j \in Nat : i = Len(ms) /\ j = Len(old)
    BY <1>0
  <2>2. DOMAIN ms = 1..i /\ DOMAIN old = 1..j
    BY <1>0, <2>1
  <2>3. \A l \in 1..i : l \in 1..j \/ l > j
    BY <2>1
  <2>4. j <= i /\ \A l \in 1..j : l \in 1..i
    BY <2>1 DEF HistorySafeToCompact
  <2>5. \A l \in 1..j : ms[l] = old[l]
    BY <2>2 DEF HistorySafeToCompact
  <2>6. \A l \in 1..i : l > j => IsRealUser(ms[l])
    BY <2>1, <2>2 DEF HistorySafeToCompact
  <2>7. Elems(old) \subseteq Elems(ms)
    BY <2>2, <2>4, <2>5 DEF Elems
  <2>8. \A m \in X : m \in Elems(old)
    BY <1>x, <2>2, <2>3, <2>5, <2>6 DEF Elems
  <2> QED
    BY <2>7, <2>8
<1>2. /\ Facts(old) \subseteq CallId
      /\ \A m \in Elems(old) : IsUser(m) => <<0, m.n>> \in Facts(old)
      /\ \A m \in Elems(old) : IsTool(m) => m.id \in Facts(old)
      /\ SummaryFacts(old) \subseteq Facts(old)
  BY FactsOf
<1>3. /\ sum \in Message /\ sum.kind = "summary" /\ sum.covers = Facts(old)
      /\ ~ IsUser(sum) /\ ~ IsTool(sum) /\ ~ IsAssistant(sum) /\ ~ IsPartial(sum)
  <2>1. sum \in SummaryMessages
    BY <1>2 DEF Summary, SummaryMessages
  <2> QED
    BY <2>1 DEF Summary, SummaryMessages, Message, IsUser, IsTool, IsAssistant, IsPartial
<1> HIDE DEF sum
<1>4. /\ k \in Seq(Message) /\ Elems(k) = Elems(ms) \ X
      /\ \A a, b : Precedes(k, a, b) <=> Precedes(ms, a, b) /\ a \notin X /\ b \notin X
  BY <1>0, WithoutElems, WithoutPrecedes
<1>5. \A m \in Elems(k) : IsUser(m) /\ ~ IsTool(m) /\ ~ IsAssistant(m) /\ ~ IsPartial(m) /\ m.kind # "summary"
  <2>1. \A m \in Elems(k) : IsUser(m) /\ m \in Message
    BY <1>0, <1>x, <1>4, ElemsTyped DEF IsRealUser, IsUser
  <2> QED
    BY <2>1, MessageKinds, UserIsNot
<1> HIDE DEF k
<1>6. /\ w \in Seq(Message) /\ Elems(w) = Elems(k) \cup {sum}
      /\ \A a, b : Precedes(w, a, b) <=> Precedes(k, a, b) \/ (a \in Elems(k) /\ b = sum)
  <2>1. one \in Seq(Message) /\ Elems(one) = {sum} /\ \A a, b : ~ Precedes(one, a, b)
    BY <1>3 DEF Elems, Precedes
  <2> HIDE DEF one
  <2> QED
    BY <1>4, <2>1, ConcatElems, ConcatPrecedes
<1> HIDE DEF w
<1>7. \A a \in Elems(w) : ~ IsAssistant(a) /\ ~ IsTool(a) /\ ~ IsPartial(a)
  BY <1>3, <1>5, <1>6
<1>8. SummaryFacts(w) = Facts(old)
  BY <1>3, <1>5, <1>6 DEF SummaryFacts
<1>9. SummaryFacts(ms) \subseteq Facts(old)
  <2>1. \A m : m.kind = "summary" => ~ IsRealUser(m)
    BY DEF IsRealUser
  <2>2. SummaryFacts(ms) = SummaryFacts(old)
    BY <1>1, <1>x, <2>1, SummaryFactsOf
  <2> QED
    BY <1>2, <2>2
<1>10. /\ Elems(<<>>) = {} /\ <<>> \in Seq(UserMessages) /\ <<>> \in Seq(CallId)
       /\ \A a, b : ~ Precedes(<<>>, a, b)
  BY DEF Elems, Precedes
<1>11. StepsSound(w, s) /\ ResultsSound(w, s, Y) /\ PendingSound(w, <<>>, Y)
  BY <1>7, <1>10 DEF StepsSound, ResultsSound, PendingSound
<1>12. YieldedSound(w, s, Y)
  <2>1. YieldedSound(ms, s, Y)
    BY DEF Core
  <2>2. \A m \in Elems(ms) : IsTool(m) => m \in Elems(old)
    BY <1>1, <1>x DEF IsTool, IsRealUser
  <2> QED
    BY <1>2, <1>8, <1>9, <2>1, <2>2 DEF YieldedSound
<1>13. UsersSound(w, <<>>, n, E)
  <2>1. UsersSound(ms, h, n, D)
    BY DEF Core
  <2>2. \A a \in Elems(w) : IsUser(a) => a.n \in 1..n
    BY <1>3, <1>4, <1>6, <2>1 DEF UsersSound
  <2>3. \A a, b \in Elems(w) : IsUser(a) /\ IsUser(b) /\ Precedes(w, a, b) => a.n < b.n
    BY <1>3, <1>4, <1>6, <2>1 DEF UsersSound
  <2>4. ASSUME NEW i \in (1..n) \ E
        PROVE  (\E a \in Elems(w) : IsUser(a) /\ a.n = i) \/ <<0, i>> \in SummaryFacts(w)
    <3>1. i \in (1..n) \ D /\ \A m \in Elems(h) : m.n # i
      OBVIOUS
    <3>2. CASE <<0, i>> \in SummaryFacts(ms)
      BY <1>8, <1>9, <3>2
    <3>3. CASE \E a \in Elems(ms) : IsUser(a) /\ a.n = i
      BY <1>1, <1>2, <1>4, <1>6, <1>8, <3>3
    <3> QED
      BY <2>1, <3>1, <3>2, <3>3 DEF UsersSound
  <2> HIDE DEF E
  <2> QED
    BY <1>10, <2>2, <2>3, <2>4 DEF UsersSound
<1>14. CompactionShape(ms, old) = w
  BY DEF CompactionShape, w, k, sum, X
<1>15. Core(w, <<>>, <<>>, s, n, Y, E)
  BY <1>0, <1>6, <1>10, <1>11, <1>12, <1>13 DEF Core, Typed
<1> QED
  BY <1>7, <1>14, <1>15

----------------------------------------------------------------------------
(* What the reducers preserve. *)

\* findOpenAssistantIndex() finds the open message, if there is one.
LEMMA OpenFound ==
  ASSUME NEW ms \in Seq(Message), NEW s \in Nat, StepsSound(ms, s)
  PROVE  \/ OpenAssistants(ms) = {} /\ \A a \in Elems(ms) : ~ IsPartial(a)
         \/ /\ OpenAssistants(ms) # {} /\ OpenAssistant(ms) \in DOMAIN ms
            /\ ms[OpenAssistant(ms)] \in Elems(ms) /\ IsPartial(ms[OpenAssistant(ms)])
            /\ ms[OpenAssistant(ms)] \in AssistantMessages
            /\ \A a \in Elems(ms) : IsPartial(a) => a = ms[OpenAssistant(ms)]
<1>1. PICK n \in Nat : n = Len(ms)
  OBVIOUS
<1>2. DOMAIN ms = 1..n /\ \A i \in 1..n : ms[i] \in Elems(ms) /\ ms[i] \in Message
  BY <1>1 DEF Elems
<1>3. \A a : IsPartial(a) => IsAssistant(a)
  BY DEF IsPartial, IsAssistant
<1>4. \A i, j \in OpenAssistants(ms) : i = j
  <2> SUFFICES ASSUME NEW i \in 1..n, NEW j \in 1..n, IsPartial(ms[i]), IsPartial(ms[j]), i < j
               PROVE  FALSE
    <3>1. \A i, j \in 1..n : i = j \/ i < j \/ j < i
      OBVIOUS
    <3> QED
      BY <1>2, <3>1 DEF OpenAssistants
  <2>1. ms[i] = ms[j]
    BY <1>2 DEF StepsSound
  <2>2. Precedes(ms, ms[i], ms[i])
    BY <1>2, <2>1 DEF Precedes
  <2>3. ~ Precedes(ms, ms[i], ms[i])
    BY <1>2, <1>3, AssistantsOnce
  <2> QED
    BY <2>2, <2>3
<1>5. CASE OpenAssistants(ms) = {}
  BY <1>5 DEF OpenAssistants, Elems
<1>6. CASE OpenAssistants(ms) # {}
  <2>1. PICK i \in 1..n : i \in OpenAssistants(ms)
    BY <1>2, <1>6 DEF OpenAssistants
  <2>2. OpenAssistants(ms) = {i}
    BY <1>4, <2>1
  <2>3. OpenAssistant(ms) = i
    <3>1. OpenAssistant(ms) = CHOOSE k \in {i} : \A j \in {i} : j <= k
      BY <2>2 DEF OpenAssistant
    <3> QED
      BY <3>1
  <2>4. IsPartial(ms[i])
    BY <2>1 DEF OpenAssistants
  <2>5. ms[i] \in AssistantMessages
    BY <1>2, <1>3, <2>4, MessageKinds
  <2>6. \A a \in Elems(ms) : IsPartial(a) => a = ms[i]
    BY <1>2, <2>4 DEF StepsSound
  <2> QED
    BY <1>2, <1>6, <2>3, <2>4, <2>5, <2>6
<1> QED
  BY <1>5, <1>6

\* Two histories with the same assistant messages.
SameAssistants(ms, w) == \A a : IsAssistant(a) => (a \in Elems(ms) <=> a \in Elems(w))

\* A context keeps its shape.
LEMMA ContextPut ==
  ASSUME NEW A, NEW B, NEW C, NEW x \in [messages : A, pending : B, held : C],
         NEW ms \in A, NEW p \in B, NEW h \in C
  PROVE  /\ [x EXCEPT !.messages = ms] \in [messages : A, pending : B, held : C]
         /\ [x EXCEPT !.held = h] \in [messages : A, pending : B, held : C]
         /\ [x EXCEPT !.pending = p] \in [messages : A, pending : B, held : C]
         /\ [x EXCEPT !.messages = ms, !.held = h] \in [messages : A, pending : B, held : C]
         /\ [x EXCEPT !.messages = ms, !.pending = p] \in [messages : A, pending : B, held : C]
OBVIOUS

\* foldAppendMessage().
LEMMA AppendMessageSound ==
  ASSUME NEW x, NEW s, NEW n, NEW Y, NEW D, Sound(x, s, n, Y, D), NEW real \in BOOLEAN
  PROVE  LET y == FoldAppendMessage(x, User(n + 1, real))
         IN  /\ Sound(y, s, n + 1, Y, D) /\ y.pending = x.pending
             /\ SameAssistants(x.messages, y.messages)
<1> DEFINE u == User(n + 1, real)
           y == FoldAppendMessage(x, u)
<1>1. /\ x \in Contexts
      /\ Core(x.messages, x.pending, x.held, s, n, Y, D) /\ n + 1 \in Nat
  BY DEF Sound, Core
<1>2. u \in UserMessages /\ u \in Message /\ ~ IsAssistant(u)
  BY <1>1, UserKind, UserIsNot
<1>3. CASE x.pending = <<>>
  <2>1. x.held = <<>>
    BY <1>3 DEF Sound
  <2>2. Core(Append(x.messages, u), x.pending, <<>>, s, n + 1, Y, D)
    BY <1>1, <2>1, UserAppended
  <2>3. y = [x EXCEPT !.messages = Append(@, u)]
    BY <1>3 DEF FoldAppendMessage
  <2> HIDE DEF u, y
  <2>4. y.messages = Append(x.messages, u) /\ y.pending = x.pending /\ y.held = x.held
    BY <1>1, <2>3 DEF Contexts
  <2>5. y \in Contexts
    <3>1. Append(x.messages, u) \in Seq(Message)
      BY <2>2 DEF Core, Typed
    <3> QED
      BY <1>1, <2>3, <3>1, ContextPut DEF Contexts
  <2>6. Elems(y.messages) = Elems(x.messages) \cup {u}
    BY <1>1, <1>2, <2>4, AppendElems DEF Contexts
  <2>7. SameAssistants(x.messages, y.messages)
    BY <1>2, <2>6 DEF SameAssistants
  <2>8. Sound(y, s, n + 1, Y, D)
    BY <2>1, <2>2, <2>4, <2>5 DEF Sound
  <2> QED
    BY <2>4, <2>7, <2>8 DEF u, y
<1>4. CASE x.pending # <<>>
  <2>1. Core(x.messages, x.pending, Append(x.held, u), s, n + 1, Y, D)
    BY <1>1, UserHeld
  <2>2. y = [x EXCEPT !.held = Append(@, u)]
    BY <1>4 DEF FoldAppendMessage
  <2> HIDE DEF u, y
  <2>3. y.messages = x.messages /\ y.pending = x.pending /\ y.held = Append(x.held, u)
    BY <1>1, <2>2 DEF Contexts
  <2>4. y \in Contexts
    <3>1. Append(x.held, u) \in Seq(UserMessages)
      BY <2>1 DEF Core, Typed
    <3> QED
      BY <1>1, <2>2, <3>1, ContextPut DEF Contexts
  <2>5. SameAssistants(x.messages, y.messages)
    BY <2>3 DEF SameAssistants
  <2>6. Sound(y, s, n + 1, Y, D)
    BY <1>4, <2>1, <2>3, <2>4 DEF Sound
  <2> QED
    BY <2>3, <2>5, <2>6 DEF u, y
<1> QED
  BY <1>3, <1>4

\* flushDeferred(), from any state a reducer leaves before it.
LEMMA FlushSound ==
  ASSUME NEW x \in Contexts,
         NEW s, NEW n, NEW Y, NEW D, Core(x.messages, x.pending, x.held, s, n, Y, D)
  PROVE  LET y == FlushDeferred(x)
         IN  /\ Sound(y, s, n, Y, D) /\ y.pending = x.pending
             /\ SameAssistants(x.messages, y.messages)
<1> DEFINE y == FlushDeferred(x)
<1>1. CASE x.pending = <<>>
  <2>1. /\ Core(x.messages \o x.held, x.pending, <<>>, s, n, Y, D)
        /\ \A a \in Elems(x.messages \o x.held) : a \in Elems(x.messages) \/ (a \in Message /\ IsUser(a))
    BY Flushed
  <2>2. y = [x EXCEPT !.messages = @ \o x.held, !.held = <<>>]
    BY <1>1 DEF FlushDeferred
  <2> HIDE DEF y
  <2>3. y.messages = x.messages \o x.held /\ y.pending = x.pending /\ y.held = <<>>
    BY <2>2 DEF Contexts
  <2>4. y \in Contexts
    <3>1. x.messages \o x.held \in Seq(Message) /\ <<>> \in Seq(UserMessages)
      BY <2>1 DEF Core, Typed
    <3> QED
      BY <2>2, <3>1, ContextPut DEF Contexts
  <2>5. SameAssistants(x.messages, y.messages)
    <3>1. x.held \in Seq(Message)
      <4>1. UserMessages \subseteq Message
        BY DEF Message
      <4> QED
        BY <4>1 DEF Contexts
    <3>2. Elems(y.messages) = Elems(x.messages) \cup Elems(x.held)
      BY <2>3, <3>1, ConcatElems DEF Contexts
    <3>3. \A a \in Elems(x.held) : ~ IsAssistant(a)
      BY ElemsTyped, UserIsNot DEF Contexts
    <3> QED
      BY <3>2, <3>3 DEF SameAssistants
  <2>6. Sound(y, s, n, Y, D)
    BY <2>1, <2>3, <2>4 DEF Sound
  <2> QED
    BY <2>3, <2>5, <2>6 DEF y
<1>2. CASE x.pending # <<>>
  <2>1. y = x
    BY <1>2 DEF FlushDeferred
  <2> QED
    BY <1>2, <2>1 DEF Sound, SameAssistants
<1> QED
  BY <1>1, <1>2

\* closePending().
LEMMA CloseSound ==
  ASSUME NEW x, NEW s, NEW n, NEW Y, NEW D, Sound(x, s, n, Y, D),
         \A id \in Elems(x.pending) : id[1] < s
  PROVE  LET y == ClosePending(x)
         IN  /\ Sound(y, s, n, Y, D) /\ y.pending = <<>>
             /\ SameAssistants(x.messages, y.messages)
<1>1. /\ x \in Contexts
      /\ Core(x.messages, x.pending, x.held, s, n, Y, D)
  BY DEF Sound
<1>2. CASE x.pending = <<>>
  BY <1>2 DEF ClosePending, SameAssistants
<1>3. CASE x.pending # <<>>
  <2> DEFINE t == [i \in DOMAIN x.pending |-> Tool(x.pending[i], FALSE)]
             z == [x EXCEPT !.messages = @ \o t, !.pending = <<>>]
  <2>1. /\ t \in Seq(Message)
        /\ \A id \in Elems(x.pending) : Tool(id, FALSE) \in Elems(t)
        /\ \A a \in Elems(t) : a \in ToolMessages /\ a.id \in Elems(x.pending) /\ a.real = FALSE
        /\ \A a, b : Precedes(t, a, b) => Precedes(x.pending, a.id, b.id)
    <3>1. x.pending \in Seq(CallId)
      BY <1>1 DEF Contexts
    <3> QED
      BY <3>1, InterruptedTools
  <2>2. ClosePending(x) = FlushDeferred(z)
    BY <1>3 DEF ClosePending
  <2> HIDE DEF t
  <2>3. Core(x.messages \o t, <<>>, x.held, s, n, Y, D)
    BY <1>1, <2>1, PendingClosed
  <2>4. z.messages = x.messages \o t /\ z.pending = <<>> /\ z.held = x.held
    BY <1>1 DEF Contexts
  <2>5. z \in Contexts
    <3>1. x.messages \o t \in Seq(Message) /\ <<>> \in Seq(CallId)
      BY <2>3 DEF Core, Typed
    <3> QED
      BY <1>1, <3>1, ContextPut DEF Contexts
  <2>6. SameAssistants(x.messages, z.messages)
    <3>1. Elems(z.messages) = Elems(x.messages) \cup Elems(t)
      BY <1>1, <2>1, <2>4, ConcatElems DEF Contexts
    <3>2. \A a \in Elems(t) : ~ IsAssistant(a)
      BY <2>1, ToolIsNot
    <3> QED
      BY <3>1, <3>2 DEF SameAssistants
  <2> HIDE DEF z
  <2>7. /\ Sound(FlushDeferred(z), s, n, Y, D) /\ FlushDeferred(z).pending = <<>>
        /\ SameAssistants(z.messages, FlushDeferred(z).messages)
    BY <2>3, <2>4, <2>5, FlushSound
  <2> QED
    BY <2>2, <2>6, <2>7 DEF SameAssistants
<1> QED
  BY <1>2, <1>3

\* A message is updated in place: the field of the record that changes.
LEMMA SealedMessage ==
  ASSUME NEW o \in AssistantMessages
  PROVE  LET b == [o EXCEPT !.partial = FALSE]
         IN  b \in AssistantMessages /\ b.step = o.step /\ b.calls = o.calls /\ b.partial = FALSE
BY DEF AssistantMessages

\* The step's content is recorded.
LEMMA FilledMessage ==
  ASSUME NEW o \in AssistantMessages
  PROVE  LET b == [o EXCEPT !.content = TRUE]
         IN  b \in AssistantMessages /\ b.step = o.step /\ b.calls = o.calls /\ b.partial = o.partial
BY DEF AssistantMessages

\* The step calls once more.
LEMMA CallingMessage ==
  ASSUME NEW o \in AssistantMessages, NEW id \in CallId
  PROVE  LET b == [o EXCEPT !.calls = Append(@, id)]
         IN  /\ b \in AssistantMessages /\ b.step = o.step /\ b.partial = o.partial
             /\ b.calls = Append(o.calls, id)
BY DEF AssistantMessages

\* Every step of w is one of the history ms.
StepsFrom(ms, w) == \A a \in Elems(w) : IsAssistant(a) =>
                       \E b \in Elems(ms) : IsAssistant(b) /\ b.step = a.step

\* settleOpenStep().
LEMMA SettleSound ==
  ASSUME NEW x, NEW s, NEW n, NEW Y, NEW D, Sound(x, s, n, Y, D),
         \A id \in Elems(x.pending) : id[1] < s
  PROVE  LET y == SettleOpenStep(x)
         IN  /\ Sound(y, s, n, Y, D) /\ y.pending = <<>>
             /\ \A a \in Elems(y.messages) : ~ IsPartial(a)
             /\ StepsFrom(x.messages, y.messages)
<1> DEFINE c == ClosePending(x)
           ms == c.messages
           i == OpenAssistant(ms)
           y == SettleOpenStep(x)
<1>1. Sound(c, s, n, Y, D) /\ c.pending = <<>> /\ SameAssistants(x.messages, c.messages)
  BY CloseSound
<1>2. y = IF OpenAssistants(ms) = {} THEN c
          ELSE IF ms[i].calls = <<>> /\ ~ ms[i].content
               THEN [c EXCEPT !.messages = Without(ms, {ms[i]})]
               ELSE [c EXCEPT !.messages = [ms EXCEPT ![i] = [ms[i] EXCEPT !.partial = FALSE]]]
  BY DEF SettleOpenStep
<1> HIDE DEF c, y
<1>3. /\ c \in Contexts /\ Core(c.messages, <<>>, c.held, s, n, Y, D) /\ c.held = <<>>
      /\ ms \in Seq(Message) /\ s \in Nat /\ StepsSound(ms, s)
  BY <1>1 DEF Sound, Core, Typed
<1>4. StepsFrom(x.messages, ms)
  BY <1>1 DEF StepsFrom, SameAssistants
<1>5. CASE OpenAssistants(ms) = {}
  <2>1. \A a \in Elems(ms) : ~ IsPartial(a)
    BY <1>3, <1>5, OpenFound
  <2> QED
    BY <1>1, <1>2, <1>4, <1>5, <2>1 DEF y
<1>6. CASE OpenAssistants(ms) # {}
  <2> DEFINE o == ms[i]
  <2>1. /\ i \in DOMAIN ms /\ o \in Elems(ms) /\ IsPartial(o) /\ o \in AssistantMessages
        /\ \A a \in Elems(ms) : IsPartial(a) => a = o
    BY <1>3, <1>6, OpenFound
  <2>2. IsAssistant(o)
    BY <2>1, AssistantIsNot
  <2> HIDE DEF i
  <2>3. CASE o.calls = <<>> /\ ~ o.content
    <3> DEFINE w == Without(ms, {o})
    <3>1. y = [c EXCEPT !.messages = w]
      BY <1>2, <1>6, <2>3
    <3>2. Core(w, <<>>, c.held, s, n, Y, D) /\ \A a \in Elems(w) : a \in Elems(ms) /\ ~ IsPartial(a)
      BY <1>3, <2>1, <2>3, OpenDropped
    <3> HIDE DEF w, ms
    <3>3. w \in Seq(Message)
      BY <3>2 DEF Core, Typed
    <3>4. y.messages = w /\ y.pending = c.pending /\ y.held = c.held
      BY <1>3, <3>1 DEF Contexts
    <3>5. y \in Contexts
      BY <1>3, <3>1, <3>3, ContextPut DEF Contexts
    <3>6. Sound(y, s, n, Y, D)
      BY <1>1, <1>3, <3>2, <3>4, <3>5 DEF Sound
    <3>7. StepsFrom(x.messages, w)
      BY <1>4, <3>2 DEF StepsFrom
    <3> QED
      BY <1>1, <3>2, <3>4, <3>6, <3>7 DEF y
  <2>4. CASE ~ (o.calls = <<>> /\ ~ o.content)
    <3> DEFINE b == [o EXCEPT !.partial = FALSE]
               w == [ms EXCEPT ![i] = b]
    <3>1. y = [c EXCEPT !.messages = w]
      BY <1>2, <1>6, <2>4
    <3>2. b \in AssistantMessages /\ b.step = o.step /\ b.calls = o.calls /\ b.partial = FALSE
      BY <2>1, SealedMessage
    <3> HIDE DEF b
    <3>3. b \in Message /\ IsAssistant(b) /\ ~ IsPartial(b)
      BY <3>2, AssistantIsNot
    <3>4. Swapped(ms, w, o, b)
      BY <1>3, <2>1, <2>2, <3>3, AssistantPut
    <3> HIDE DEF w, ms
    <3>5. Core(w, <<>>, c.held, s, n, Y, D)
      <4>1. Core(ms, <<>>, c.held, s, n, Y, D)
        BY <1>3 DEF ms
      <4> HIDE DEF o
      <4> QED
        BY <2>1, <2>2, <3>2, <3>4, <4>1, AssistantReplaced
    <3>6. w \in Seq(Message) /\ Elems(w) = (Elems(ms) \ {o}) \cup {b}
      BY <3>4 DEF Swapped
    <3>7. y.messages = w /\ y.pending = c.pending /\ y.held = c.held
      BY <1>3, <3>1 DEF Contexts
    <3>8. y \in Contexts
      BY <1>3, <3>1, <3>6, ContextPut DEF Contexts
    <3>9. Sound(y, s, n, Y, D)
      BY <1>1, <1>3, <3>5, <3>7, <3>8 DEF Sound
    <3>10. StepsFrom(x.messages, w)
      BY <1>4, <2>1, <2>2, <3>2, <3>6 DEF StepsFrom
    <3>11. \A a \in Elems(w) : ~ IsPartial(a)
      BY <2>1, <3>3, <3>6
    <3> QED
      BY <1>1, <3>7, <3>9, <3>10, <3>11 DEF y
  <2> QED
    BY <2>3, <2>4
<1> QED
  BY <1>5, <1>6

\* step.begin.
LEMMA StepBeginSound ==
  ASSUME NEW x, NEW s, NEW n, NEW Y, NEW D, Sound(x, s, n, Y, D)
  PROVE  LET y == FoldStepBegin(x, s + 1)
         IN  /\ Sound(y, s + 1, n, Y, D) /\ y.pending = <<>>
             /\ \E a \in Elems(y.messages) : IsPartial(a) /\ a.step = s + 1 /\ a.calls = <<>>
<1> DEFINE z == SettleOpenStep(x)
           y == FoldStepBegin(x, s + 1)
           o == Assistant(s + 1)
           w == Append(z.messages, o)
<1>1. /\ Core(x.messages, x.pending, x.held, s, n, Y, D) /\ s \in Nat /\ s + 1 > 0
      /\ x \in Contexts /\ (x.pending = <<>> => x.held = <<>>)
  <2>1. Core(x.messages, x.pending, x.held, s, n, Y, D) /\ x \in Contexts /\ (x.pending = <<>> => x.held = <<>>)
    BY DEF Sound
  <2>2. s \in Nat
    BY DEF Sound, Core
  <2> QED
    BY <2>1, <2>2
<1>2. /\ Core(x.messages, x.pending, x.held, s + 1, n, Y, D)
      /\ \A a \in Elems(x.messages) : IsAssistant(a) => a.step < s + 1
      /\ \A id \in Elems(x.pending) : id[1] < s + 1
  BY <1>1, StepCounted
<1>3. Sound(x, s + 1, n, Y, D)
  BY <1>1, <1>2 DEF Sound
<1>4. /\ Sound(z, s + 1, n, Y, D) /\ z.pending = <<>>
      /\ \A a \in Elems(z.messages) : ~ IsPartial(a)
      /\ StepsFrom(x.messages, z.messages)
  BY <1>2, <1>3, SettleSound
<1>5. y = [z EXCEPT !.messages = w]
  BY DEF FoldStepBegin
<1> HIDE DEF z, y
<1>6. z \in Contexts /\ Core(z.messages, <<>>, <<>>, s + 1, n, Y, D) /\ z.held = <<>>
  BY <1>4 DEF Sound
<1>7. \A a \in Elems(z.messages) : IsAssistant(a) => a.step < s + 1
  BY <1>2, <1>4 DEF StepsFrom
<1>8. /\ Core(w, <<>>, <<>>, s + 1, n, Y, D) /\ Elems(w) = Elems(z.messages) \cup {o}
      /\ IsPartial(o) /\ o.step = s + 1 /\ o.calls = <<>>
  BY <1>1, <1>4, <1>6, <1>7, AssistantAppended
<1> HIDE DEF w, o
<1>9. y.messages = w /\ y.pending = z.pending /\ y.held = z.held
  BY <1>5, <1>6 DEF Contexts
<1>10. y \in Contexts
  <2>1. w \in Seq(Message)
    BY <1>8 DEF Core, Typed
  <2> QED
    BY <1>5, <1>6, <2>1, ContextPut DEF Contexts
<1>11. Sound(y, s + 1, n, Y, D)
  BY <1>4, <1>6, <1>8, <1>9, <1>10 DEF Sound
<1> QED
  BY <1>4, <1>8, <1>9, <1>11 DEF y

\* step.end, when every call is answered.
LEMMA StepEndSound ==
  ASSUME NEW x, NEW s, NEW n, NEW Y, NEW D, Sound(x, s, n, Y, D), x.pending = <<>>
  PROVE  Sound(FoldStepEnd(x), s, n, Y, D)
<1>1. Elems(x.pending) = {}
  BY DEF Elems
<1>2. Sound(SettleOpenStep(x), s, n, Y, D)
  BY <1>1, SettleSound
<1>3. SettleOpenStep(x) \in Contexts /\ Core(SettleOpenStep(x).messages, SettleOpenStep(x).pending, SettleOpenStep(x).held, s, n, Y, D)
  BY <1>2 DEF Sound
<1> QED
  BY <1>3, FlushSound DEF FoldStepEnd, Contexts

\* content.part.
LEMMA ContentSound ==
  ASSUME NEW x, NEW s, NEW n, NEW Y, NEW D, Sound(x, s, n, Y, D)
  PROVE  LET y == FoldContentPart(x)
         IN  /\ Sound(y, s, n, Y, D) /\ y.pending = x.pending
             /\ \A a \in Elems(x.messages) : IsPartial(a) =>
                  \E b \in Elems(y.messages) : IsPartial(b) /\ b.step = a.step /\ b.calls = a.calls
<1> DEFINE ms == x.messages
           i == OpenAssistant(ms)
           o == ms[i]
           b == [o EXCEPT !.content = TRUE]
           w == [ms EXCEPT ![i] = b]
           y == FoldContentPart(x)
<1>1. /\ x \in Contexts /\ Core(ms, x.pending, x.held, s, n, Y, D) /\ ms \in Seq(Message)
      /\ s \in Nat /\ StepsSound(ms, s)
  BY DEF Sound, Core, Typed
<1>2. CASE OpenAssistants(ms) = {}
  BY <1>2 DEF FoldContentPart
<1>3. CASE OpenAssistants(ms) # {}
  <2>1. /\ i \in DOMAIN ms /\ o \in Elems(ms) /\ IsPartial(o) /\ o \in AssistantMessages
        /\ \A a \in Elems(ms) : IsPartial(a) => a = o
    BY <1>1, <1>3, OpenFound
  <2>2. IsAssistant(o) /\ o.partial
    BY <2>1, AssistantIsNot
  <2>3. y = [x EXCEPT !.messages = w]
    BY <1>3 DEF FoldContentPart
  <2>4. b \in AssistantMessages /\ b.step = o.step /\ b.calls = o.calls /\ b.partial = o.partial
    BY <2>1, FilledMessage
  <2> HIDE DEF b, i
  <2>5. b \in Message /\ IsPartial(b)
    BY <2>2, <2>4, AssistantIsNot
  <2>6. Swapped(ms, w, o, b)
    BY <1>1, <2>1, <2>2, <2>5, AssistantPut
  <2> HIDE DEF w, ms
  <2>7. Core(w, x.pending, x.held, s, n, Y, D)
    <3> HIDE DEF o
    <3> QED
      BY <1>1, <2>1, <2>2, <2>4, <2>6, AssistantReplaced
  <2>8. w \in Seq(Message) /\ Elems(w) = (Elems(ms) \ {o}) \cup {b}
    BY <2>6 DEF Swapped
  <2> HIDE DEF y
  <2>9. y.messages = w /\ y.pending = x.pending /\ y.held = x.held
    BY <1>1, <2>3 DEF Contexts
  <2>10. y \in Contexts
    BY <1>1, <2>3, <2>8, ContextPut DEF Contexts
  <2>11. Sound(y, s, n, Y, D)
    BY <2>7, <2>9, <2>10 DEF Sound
  <2>12. \A a \in Elems(ms) : IsPartial(a) =>
           \E c \in Elems(w) : IsPartial(c) /\ c.step = a.step /\ c.calls = a.calls
    BY <2>1, <2>4, <2>5, <2>8
  <2> QED
    BY <2>9, <2>11, <2>12 DEF y, ms
<1> QED
  BY <1>2, <1>3

\* tool.call.
LEMMA CallSound ==
  ASSUME NEW x, NEW s, NEW n, NEW Y, NEW D, Sound(x, s, n, Y, D),
         NEW a \in Elems(x.messages), IsPartial(a), a.step = s,
         NEW c \in Nat, <<s, c>> \notin Y, <<s, c>> \notin Elems(x.pending)
  PROVE  LET y == FoldToolCall(x, <<s, c>>)
         IN  /\ Sound(y, s, n, Y, D)
             /\ \E b \in Elems(y.messages) : IsPartial(b) /\ b.step = s
<1> DEFINE ms == x.messages
           i == OpenAssistant(ms)
           o == ms[i]
           id == <<s, c>>
           b == [o EXCEPT !.calls = Append(@, id)]
           w == [ms EXCEPT ![i] = b]
           q == Append(x.pending, id)
           z == [x EXCEPT !.pending = q]
           y == FoldToolCall(x, id)
<1>1. /\ x \in Contexts /\ Core(ms, x.pending, x.held, s, n, Y, D) /\ ms \in Seq(Message)
      /\ s \in Nat /\ StepsSound(ms, s) /\ ResultsSound(ms, s, Y)
  BY DEF Sound, Core, Typed
<1>2. /\ OpenAssistants(ms) # {}
      /\ i \in DOMAIN ms /\ o \in Elems(ms) /\ IsPartial(o) /\ o \in AssistantMessages /\ o = a
  BY <1>1, OpenFound
<1>3. IsAssistant(o) /\ o.partial /\ o.step = s
  BY <1>2, AssistantIsNot
<1>4. y = [z EXCEPT !.messages = [z.messages EXCEPT ![i] = [z.messages[i] EXCEPT !.calls = Append(@, id)]]]
  BY <1>2 DEF FoldToolCall
<1>5. id \in CallId /\ id[1] = s /\ id \notin Y /\ id \notin Elems(x.pending)
  BY <1>1 DEF CallId
<1>6. \A t \in Elems(ms) : IsTool(t) => t.id # id
  <2> SUFFICES ASSUME NEW t \in Elems(ms), IsTool(t), t.id = id
               PROVE  FALSE
    OBVIOUS
  <2>1. ~ t.real
    BY <1>1, <1>5 DEF ResultsSound
  <2>2. t.id[1] < s
    BY <1>1, <2>1 DEF ResultsSound
  <2>3. s < s
    BY <1>5, <2>2
  <2> QED
    BY <1>1, <2>3
<1> HIDE DEF id
<1>7. /\ b \in AssistantMessages /\ b.step = o.step /\ b.partial = o.partial
      /\ b.calls = Append(o.calls, id)
  BY <1>2, <1>5, CallingMessage
<1> HIDE DEF b, i
<1>8. b \in Message /\ IsPartial(b)
  BY <1>3, <1>7, AssistantIsNot
<1>9. Swapped(ms, w, o, b)
  BY <1>1, <1>2, <1>3, <1>8, AssistantPut
<1> HIDE DEF w, ms
<1>10. Core(w, q, x.held, s, n, Y, D)
  <2> HIDE DEF o
  <2> QED
    BY <1>1, <1>2, <1>3, <1>5, <1>6, <1>7, <1>9, CallAdded
<1>11. w \in Seq(Message) /\ Elems(w) = (Elems(ms) \ {o}) \cup {b} /\ q \in Seq(CallId)
  BY <1>1, <1>5, <1>9 DEF Swapped, Contexts
<1>12. q # <<>>
  <2>1. Elems(q) = Elems(x.pending) \cup {id}
    BY <1>1, <1>5, AppendElems DEF Contexts
  <2>2. Elems(<<>>) = {}
    BY DEF Elems
  <2> HIDE DEF q
  <2> QED
    BY <2>1, <2>2
<1> HIDE DEF q
<1>z. z \in Contexts /\ z.messages = ms /\ z.pending = q /\ z.held = x.held
  BY <1>1, <1>11, ContextPut DEF Contexts, ms
<1> HIDE DEF z
<1>y. y = [z EXCEPT !.messages = w]
  BY <1>4, <1>z DEF w, b, o
<1> HIDE DEF y
<1>13. y.messages = w /\ y.pending = q /\ y.held = x.held
  BY <1>y, <1>z DEF Contexts
<1>14. y \in Contexts
  BY <1>y, <1>z, <1>11, ContextPut DEF Contexts
<1>15. Sound(y, s, n, Y, D)
  BY <1>10, <1>12, <1>13, <1>14 DEF Sound
<1>16. b \in Elems(y.messages) /\ b.step = s
  BY <1>3, <1>7, <1>11, <1>13
<1> QED
  BY <1>8, <1>15, <1>16 DEF y, id

\* tool.result, of a call that is pending.
LEMMA ResultSound ==
  ASSUME NEW x, NEW s, NEW n, NEW Y, NEW D, Sound(x, s, n, Y, D), NEW id \in Elems(x.pending)
  PROVE  LET y == FoldToolResult(x, id)
         IN  Sound(y, s, n, Y \cup {id}, D) /\ SameAssistants(x.messages, y.messages)
<1> DEFINE t == Tool(id, TRUE)
           w == Append(x.messages, t)
           q == Without(x.pending, {id})
           z == [x EXCEPT !.messages = w, !.pending = q]
<1>1. x \in Contexts /\ Core(x.messages, x.pending, x.held, s, n, Y, D)
  BY DEF Sound
<1>2. FoldToolResult(x, id) = FlushDeferred(z)
  BY DEF FoldToolResult
<1>3. /\ Core(w, q, x.held, s, n, Y \cup {id}, D) /\ Elems(w) = Elems(x.messages) \cup {t}
      /\ IsTool(t) /\ t \in Message
  BY <1>1, ResultAdded
<1>4. ~ IsAssistant(t)
  BY <1>3 DEF IsTool, IsAssistant
<1> HIDE DEF t, w, q
<1>5. z.messages = w /\ z.pending = q /\ z.held = x.held
  BY <1>1 DEF Contexts
<1>6. z \in Contexts
  <2>1. w \in Seq(Message) /\ q \in Seq(CallId)
    BY <1>3 DEF Core, Typed
  <2> QED
    BY <1>1, <2>1, ContextPut DEF Contexts
<1> HIDE DEF z
<1>7. Sound(FlushDeferred(z), s, n, Y \cup {id}, D) /\ SameAssistants(z.messages, FlushDeferred(z).messages)
  BY <1>3, <1>5, <1>6, FlushSound DEF Contexts
<1>8. SameAssistants(x.messages, z.messages)
  BY <1>3, <1>4, <1>5 DEF SameAssistants
<1> QED
  BY <1>2, <1>7, <1>8 DEF SameAssistants

\* context.apply_compaction, with resetFold().
LEMMA CompactionSound ==
  ASSUME NEW x, NEW s, NEW n, NEW Y, NEW D, Sound(x, s, n, Y, D),
         NEW old \in Seq(Message), HistorySafeToCompact(x.messages, old)
  PROVE  Sound(ResetFold(CompactionShape(x.messages, old)), s, n, Y, D \cup {m.n : m \in Elems(x.held)})
<1> DEFINE w == CompactionShape(x.messages, old)
           E == D \cup {m.n : m \in Elems(x.held)}
           y == ResetFold(w)
<1>1. Core(x.messages, x.pending, x.held, s, n, Y, D)
  BY DEF Sound
<1>2. Core(w, <<>>, <<>>, s, n, Y, E)
  BY <1>1, Compacted
<1> HIDE DEF w, E
<1>3. w \in Seq(Message) /\ <<>> \in Seq(CallId) /\ <<>> \in Seq(UserMessages)
  BY <1>2 DEF Core, Typed
<1>4. y.messages = w /\ y.pending = <<>> /\ y.held = <<>> /\ y \in Contexts
  BY <1>3 DEF ResetFold, Contexts
<1>5. Sound(y, s, n, Y, E)
  BY <1>2, <1>4 DEF Sound
<1> QED
  BY <1>5 DEF w, E

----------------------------------------------------------------------------
(* The inductive invariant. *)

\* The open step, as far as the loop has got with it.
PhaseSound ==
  /\ phase \in {"idle", "requesting", "tools"}
  /\ phase # "idle" => \E a \in Elems(context.messages) : IsPartial(a) /\ a.step = step
  /\ phase = "requesting" =>
       /\ context.pending = <<>>
       /\ \A a \in Elems(context.messages) : IsPartial(a) => a.calls = <<>>

\* A compaction that began before this step knows nothing of it.
OriginalSound ==
  /\ original \in Seq(Message)
  /\ \A a \in Elems(original) : IsAssistant(a) => a.step <= step
  /\ phase # "idle" => \A a \in Elems(original) : IsAssistant(a) => a.step < step

HistorySound ==
  /\ Sound(context, step, sent, yielded, dropped)
  /\ PhaseSound /\ OriginalSound

\* The invariant holds at the start.
LEMMA SoundInit == HistoryInit => HistorySound
<1> SUFFICES ASSUME HistoryInit
             PROVE  HistorySound
  OBVIOUS
<1>1. Elems(<<>>) = {} /\ \A a, b : ~ Precedes(<<>>, a, b)
  BY DEF Elems, Precedes
<1>2. <<>> \in Seq(Message) /\ <<>> \in Seq(CallId) /\ <<>> \in Seq(UserMessages)
  OBVIOUS
<1>3. context \in Contexts /\ context.messages = <<>> /\ context.pending = <<>> /\ context.held = <<>>
  BY <1>2 DEF HistoryInit, EmptyContext, Contexts
<1>4. step = 0 /\ sent = 0 /\ yielded = {} /\ dropped = {} /\ phase = "idle" /\ original = <<>>
  BY DEF HistoryInit, NoHistory
<1>5. StepsSound(<<>>, 0) /\ ResultsSound(<<>>, 0, {}) /\ PendingSound(<<>>, <<>>, {}) /\ YieldedSound(<<>>, 0, {})
  BY <1>1 DEF StepsSound, ResultsSound, PendingSound, YieldedSound
<1>6. UsersSound(<<>>, <<>>, 0, {})
  <2>1. 1..0 = {}
    OBVIOUS
  <2> QED
    BY <1>1, <2>1 DEF UsersSound
<1>7. Core(<<>>, <<>>, <<>>, 0, 0, {}, {})
  BY <1>2, <1>5, <1>6 DEF Core, Typed
<1>8. Sound(context, step, sent, yielded, dropped)
  BY <1>3, <1>4, <1>7 DEF Sound
<1>9. PhaseSound /\ OriginalSound
  BY <1>1, <1>2, <1>3, <1>4 DEF PhaseSound, OriginalSound
<1> QED
  BY <1>8, <1>9 DEF HistorySound

\* What phase and original say survives as long as the open step does.
LEMMA PhaseKept ==
  ASSUME HistorySound, step' = step, phase' = phase, original' = original,
         SameAssistants(context.messages, context'.messages),
         phase = "requesting" => context'.pending = context.pending
  PROVE  PhaseSound' /\ OriginalSound'
<1>1. \A a : IsPartial(a) => IsAssistant(a)
  BY DEF IsPartial, IsAssistant
<1>2. PhaseSound'
  BY <1>1 DEF HistorySound, PhaseSound, SameAssistants
<1>3. OriginalSound'
  BY DEF HistorySound, OriginalSound
<1> QED
  BY <1>2, <1>3

\* A message arrives.
LEMMA AppendMessageStep ==
  ASSUME HistorySound, NEW real \in BOOLEAN, AppendMessage(real)
  PROVE  HistorySound'
<1>1. Sound(context, step, sent, yielded, dropped)
  BY DEF HistorySound
<1>2. /\ context' = FoldAppendMessage(context, User(sent + 1, real)) /\ sent' = sent + 1
      /\ step' = step /\ phase' = phase /\ yielded' = yielded /\ dropped' = dropped /\ original' = original
  BY DEF AppendMessage
<1>3. /\ Sound(context', step, sent + 1, yielded, dropped) /\ context'.pending = context.pending
      /\ SameAssistants(context.messages, context'.messages)
  BY <1>1, <1>2, AppendMessageSound
<1>4. PhaseSound' /\ OriginalSound'
  BY <1>2, <1>3, PhaseKept
<1> QED
  BY <1>2, <1>3, <1>4 DEF HistorySound

\* A step begins.
LEMMA BeginStepStep ==
  ASSUME HistorySound, BeginStep
  PROVE  HistorySound'
<1>1. Sound(context, step, sent, yielded, dropped) /\ step \in Nat
  BY DEF HistorySound, Sound, Core
<1>2. /\ context' = FoldStepBegin(context, step + 1) /\ step' = step + 1 /\ phase' = "requesting"
      /\ sent' = sent /\ yielded' = yielded /\ dropped' = dropped /\ original' = original
  BY DEF BeginStep
<1>3. /\ Sound(context', step + 1, sent, yielded, dropped) /\ context'.pending = <<>>
      /\ \E a \in Elems(context'.messages) : IsPartial(a) /\ a.step = step + 1 /\ a.calls = <<>>
  BY <1>1, <1>2, StepBeginSound
<1>4. \A a, b \in Elems(context'.messages) : IsPartial(a) /\ IsPartial(b) => a = b
  BY <1>3 DEF Sound, Core, StepsSound
<1>5. PhaseSound'
  BY <1>2, <1>3, <1>4 DEF PhaseSound
<1>6. OriginalSound'
  <2>1. /\ original \in Seq(Message) /\ phase = "idle"
        /\ \A a \in Elems(original) : IsAssistant(a) => a.step <= step
    BY DEF HistorySound, OriginalSound, BeginStep
  <2>2. \A a \in Elems(original) : IsAssistant(a) => a.step \in Nat
    <3>1. \A a \in Elems(original) : a \in Message
      BY <2>1, ElemsTyped
    <3> QED
      BY <3>1, MessageKinds DEF AssistantMessages
  <2>3. \A a \in Elems(original) : IsAssistant(a) => a.step <= step + 1 /\ a.step < step + 1
    BY <1>1, <2>1, <2>2
  <2> QED
    BY <1>2, <2>1, <2>3 DEF OriginalSound
<1> QED
  BY <1>2, <1>3, <1>5, <1>6 DEF HistorySound

\* The content of a response is recorded, or not.
LEMMA ContentStep ==
  ASSUME HistorySound, phase = "requesting", NEW content \in BOOLEAN,
         context' = IF content THEN FoldContentPart(context) ELSE context,
         phase' \in {"idle", "tools"},
         step' = step, sent' = sent, yielded' = yielded, dropped' = dropped, original' = original
  PROVE  HistorySound'
<1>1. Sound(context, step, sent, yielded, dropped)
  BY DEF HistorySound
<1>2. /\ Sound(context', step, sent, yielded, dropped) /\ context'.pending = context.pending
      /\ \A a \in Elems(context.messages) : IsPartial(a) =>
           \E b \in Elems(context'.messages) : IsPartial(b) /\ b.step = a.step /\ b.calls = a.calls
  <2>1. CASE content
    BY <1>1, <2>1, ContentSound
  <2>2. CASE ~ content
    BY <1>1, <2>2
  <2> QED
    BY <2>1, <2>2
<1>3. PhaseSound'
  BY <1>2 DEF HistorySound, PhaseSound
<1>4. OriginalSound'
  BY DEF HistorySound, OriginalSound
<1> QED
  BY <1>2, <1>3, <1>4 DEF HistorySound

\* The executor announces a call.
LEMMA ToolCallStep ==
  ASSUME HistorySound, NEW c \in 1..MaxCalls, ToolCall(c)
  PROVE  HistorySound'
<1>1. Sound(context, step, sent, yielded, dropped)
  BY DEF HistorySound
<1>2. /\ context' = FoldToolCall(context, <<step, c>>) /\ phase = "tools" /\ phase' = phase
      /\ step' = step /\ sent' = sent /\ yielded' = yielded /\ dropped' = dropped /\ original' = original
  BY DEF ToolCall
<1>3. <<step, c>> \notin yielded /\ <<step, c>> \notin Elems(context.pending) /\ c \in Nat
  BY DEF ToolCall, Announced
<1>4. \E a \in Elems(context.messages) : IsPartial(a) /\ a.step = step
  BY <1>2 DEF HistorySound, PhaseSound
<1>5. /\ Sound(context', step, sent, yielded, dropped)
      /\ \E b \in Elems(context'.messages) : IsPartial(b) /\ b.step = step
  BY <1>1, <1>2, <1>3, <1>4, CallSound
<1>6. PhaseSound'
  BY <1>2, <1>5 DEF PhaseSound
<1>7. OriginalSound'
  BY <1>2 DEF HistorySound, OriginalSound
<1> QED
  BY <1>2, <1>5, <1>6, <1>7 DEF HistorySound

\* The executor yields a result.
LEMMA ToolResultStep ==
  ASSUME HistorySound, NEW c \in 1..MaxCalls, ToolResult(<<step, c>>)
  PROVE  HistorySound'
<1> DEFINE id == <<step, c>>
<1>1. Sound(context, step, sent, yielded, dropped)
  BY DEF HistorySound
<1>2. /\ context' = FoldToolResult(context, id) /\ phase = "tools" /\ phase' = phase
      /\ step' = step /\ sent' = sent /\ yielded' = yielded \cup {id} /\ dropped' = dropped
      /\ original' = original
  BY DEF ToolResult
<1>3. id \in Elems(context.pending)
  BY DEF ToolResult, Announced
<1> HIDE DEF id
<1>4. /\ Sound(context', step, sent, yielded \cup {id}, dropped)
      /\ SameAssistants(context.messages, context'.messages)
  BY <1>1, <1>2, <1>3, ResultSound
<1>5. PhaseSound' /\ OriginalSound'
  BY <1>2, <1>4, PhaseKept
<1> QED
  BY <1>2, <1>4, <1>5 DEF HistorySound

\* A step ends.
LEMMA EndStepStep ==
  ASSUME HistorySound, EndStep
  PROVE  HistorySound'
<1>1. Sound(context, step, sent, yielded, dropped)
  BY DEF HistorySound
<1>2. /\ context' = FoldStepEnd(context) /\ context.pending = <<>> /\ phase' = "idle"
      /\ step' = step /\ sent' = sent /\ yielded' = yielded /\ dropped' = dropped /\ original' = original
  BY DEF EndStep
<1>3. Sound(context', step, sent, yielded, dropped)
  BY <1>1, <1>2, StepEndSound
<1>4. PhaseSound' /\ OriginalSound'
  BY <1>2 DEF HistorySound, PhaseSound, OriginalSound
<1> QED
  BY <1>2, <1>3, <1>4 DEF HistorySound

\* A compaction begins.
LEMMA BeginCompactionStep ==
  ASSUME HistorySound, BeginCompaction
  PROVE  HistorySound'
<1>1. /\ original' = context.messages /\ phase = "idle" /\ phase' = phase /\ context' = context
      /\ step' = step /\ sent' = sent /\ yielded' = yielded /\ dropped' = dropped
  BY DEF BeginCompaction
<1>2. /\ context.messages \in Seq(Message) /\ StepsSound(context.messages, step) /\ step \in Nat
  BY DEF HistorySound, Sound, Core, Typed
<1>3. \A a \in Elems(context.messages) : IsAssistant(a) => a.step <= step
  BY <1>2 DEF StepsSound
<1>4. OriginalSound'
  BY <1>1, <1>2, <1>3 DEF OriginalSound
<1> QED
  BY <1>1, <1>4 DEF HistorySound, PhaseSound

\* A compaction is applied: no step is open then, since its message would be neither in
\* the history that was summarised nor one of the user's.
LEMMA ApplyCompactionStep ==
  ASSUME HistorySound, ApplyCompaction
  PROVE  HistorySound'
<1>1. /\ original' = NoHistory /\ HistorySafeToCompact(context.messages, original)
      /\ context' = ResetFold(CompactionShape(context.messages, original))
      /\ dropped' = dropped \cup {m.n : m \in Elems(context.held)}
      /\ step' = step /\ phase' = phase /\ sent' = sent /\ yielded' = yielded
  BY DEF ApplyCompaction
<1>2. Sound(context, step, sent, yielded, dropped) /\ original \in Seq(Message)
  BY DEF HistorySound, OriginalSound
<1>3. Sound(context', step, sent, yielded, dropped')
  BY <1>1, <1>2, CompactionSound
<1>4. phase = "idle"
  <2> SUFFICES ASSUME phase # "idle"
               PROVE  FALSE
    OBVIOUS
  <2>1. PICK a \in Elems(context.messages) : IsPartial(a) /\ a.step = step
    BY DEF HistorySound, PhaseSound
  <2>2. IsAssistant(a) /\ ~ IsRealUser(a)
    BY <2>1 DEF IsPartial, IsAssistant, IsRealUser
  <2>3. a \in Elems(original)
    <3>1. context.messages \in Seq(Message)
      BY <1>2 DEF Sound, Core, Typed
    <3>2. PICK j \in Nat, k \in Nat : j = Len(context.messages) /\ k = Len(original)
      BY <1>2, <3>1
    <3>3. DOMAIN context.messages = 1..j /\ DOMAIN original = 1..k
      BY <1>2, <3>1, <3>2
    <3>4. PICK i \in 1..j : context.messages[i] = a
      BY <2>1, <3>3 DEF Elems
    <3>5. ~ (i > k)
      BY <1>1, <2>2, <3>2, <3>3, <3>4 DEF HistorySafeToCompact
    <3>6. i \in 1..k
      BY <3>2, <3>4, <3>5
    <3> QED
      BY <1>1, <3>3, <3>4, <3>6 DEF HistorySafeToCompact, Elems
  <2>4. a.step < step
    BY <2>2, <2>3 DEF HistorySound, OriginalSound
  <2>5. step \in Nat
    BY DEF HistorySound, Sound, Core
  <2> QED
    BY <2>1, <2>4, <2>5
<1>5. PhaseSound'
  BY <1>1, <1>4 DEF PhaseSound
<1>6. OriginalSound'
  <2>1. Elems(<<>>) = {} /\ <<>> \in Seq(Message)
    BY DEF Elems
  <2> QED
    BY <1>1, <2>1 DEF OriginalSound, NoHistory
<1> QED
  BY <1>1, <1>3, <1>5, <1>6 DEF HistorySound

\* A compaction is given up.
LEMMA CancelCompactionStep ==
  ASSUME HistorySound, CancelCompaction
  PROVE  HistorySound'
<1>1. Elems(<<>>) = {} /\ <<>> \in Seq(Message)
  BY DEF Elems
<1> QED
  BY <1>1 DEF CancelCompaction, HistorySound, PhaseSound, OriginalSound, NoHistory

\* Every step preserves the invariant.
LEMMA SoundStep == HistorySound /\ [HistoryNext]_historyVars => HistorySound'
<1> SUFFICES ASSUME HistorySound, [HistoryNext]_historyVars
             PROVE  HistorySound'
  OBVIOUS
<1>1. ASSUME NEW real \in BOOLEAN, AppendMessage(real)
      PROVE  HistorySound'
  BY <1>1, AppendMessageStep
<1>2. CASE BeginStep
  BY <1>2, BeginStepStep
<1>3. CASE EndStep
  BY <1>3, EndStepStep
<1>4. CASE StepFails
  BY <1>4 DEF StepFails, HistorySound, PhaseSound, OriginalSound
<1>5. ASSUME NEW content \in BOOLEAN, Respond(content) \/ RequestFails(content)
      PROVE  HistorySound'
  <2>1. /\ phase = "requesting" /\ phase' \in {"idle", "tools"}
        /\ context' = IF content THEN FoldContentPart(context) ELSE context
        /\ step' = step /\ sent' = sent /\ yielded' = yielded /\ dropped' = dropped /\ original' = original
    BY <1>5 DEF Respond, RequestFails
  <2> QED
    BY <2>1, ContentStep
<1>6. ASSUME NEW c \in 1..MaxCalls, ToolCall(c)
      PROVE  HistorySound'
  BY <1>6, ToolCallStep
<1>7. ASSUME NEW c \in 1..MaxCalls, ToolResult(<<step, c>>)
      PROVE  HistorySound'
  BY <1>7, ToolResultStep
<1>8. CASE BeginCompaction
  BY <1>8, BeginCompactionStep
<1>9. CASE ApplyCompaction
  BY <1>9, ApplyCompactionStep
<1>10. CASE CancelCompaction
  BY <1>10, CancelCompactionStep
<1>11. CASE UNCHANGED historyVars
  BY <1>11 DEF historyVars, HistorySound, PhaseSound, OriginalSound
<1> QED
  BY <1>1, <1>2, <1>3, <1>4, <1>5, <1>6, <1>7, <1>8, <1>9, <1>10, <1>11 DEF HistoryNext

\* The invariant holds always.
LEMMA SoundAlways == HistorySpec => []HistorySound
<1> QED
  BY SoundInit, SoundStep, PTL DEF HistorySpec

\* No message from outside is lost, doubled or moved: the invariant says it of the
\* elements of the history, MessagesKept of their places.
LEMMA KeptByInvariant == HistorySound => MessagesKept
<1> SUFFICES ASSUME HistorySound
             PROVE  MessagesKept
  OBVIOUS
<1> DEFINE ms == context.messages
           h == context.held
           all == ms \o h
<1>1. /\ ms \in Seq(Message) /\ h \in Seq(UserMessages) /\ UsersSound(ms, h, sent, dropped)
      /\ Core(ms, context.pending, h, step, sent, yielded, dropped)
  BY DEF HistorySound, Sound, Core, Typed
<1>2. Core(all, context.pending, <<>>, step, sent, yielded, dropped)
  BY <1>1, Flushed
<1>3. all \in Seq(Message) /\ UsersSound(all, <<>>, sent, dropped) /\ Elems(<<>>) = {}
  BY <1>2 DEF Core, Typed, Elems
<1> HIDE DEF all, ms, h
<1>4. PICK k \in Nat : k = Len(all)
  BY <1>3
<1>5. DOMAIN all = 1..k
  BY <1>3, <1>4
<1>6. \A i, j \in DOMAIN all : IsUser(all[i]) /\ IsUser(all[j]) /\ i < j => all[i].n < all[j].n
  BY <1>3, <1>5 DEF UsersSound, Precedes, Elems
<1>7. h \in Seq(Message)
  <2>1. UserMessages \subseteq Message
    BY DEF Message
  <2> QED
    BY <1>1, <2>1
<1>8. Elems(all) = Elems(ms) \cup Elems(h) 
  BY <1>1, <1>7, ConcatElems DEF all
<1>9. \A a \in Elems(all) : \E i \in DOMAIN all : all[i] = a
  BY DEF Elems
<1>10. \A m \in (1..sent) \ dropped :
             \/ \E i \in DOMAIN all : IsUser(all[i]) /\ all[i].n = m
             \/ <<0, m>> \in SummaryFacts(ms)
  BY <1>1, <1>8, <1>9 DEF UsersSound
<1> QED
  BY <1>6, <1>10 DEF MessagesKept, all, ms, h

\* Theorem: apart from what a compaction drops, every message that arrived is in the
\* history or held, in order and once, or a summary stands for it.
THEOREM Kept == HistorySpec => []MessagesKept
<1> QED
  BY SoundAlways, KeptByInvariant, PTL

----------------------------------------------------------------------------
(* The projection. *)

Joined(s, t) == s \o t

\* f[i] joins the first i elements of e, for i up to n.
IsJoined(f, e, n) == f[0] = <<>> /\ \A i \in 1..n : f[i] = Joined(f[i - 1], e[i])

\* One unfolding of the recursion of the projection.
UnfoldedProject(f, ms) ==
  [i \in 0..Len(ms) |-> IF i = 0 THEN <<>> ELSE Joined(f[i - 1], Emitted(ms, i))]

\* The recursion can be solved up to any length.
LEMMA JoinedUpTo ==
  ASSUME NEW e, NEW n \in Nat
  PROVE  \E f : IsJoined(f, e, n)
<1> DEFINE X == {i \in 0..n : \E f : IsJoined(f, e, i)}
<1>1. 0 \in X
  <2> DEFINE f == [i \in {0} |-> <<>>]
  <2>1. IsJoined(f, e, 0)
    BY DEF IsJoined
  <2> QED
    BY <2>1
<1>2. ASSUME NEW i \in 1..n, i - 1 \in X
      PROVE  i \in X
  <2>1. PICK f : IsJoined(f, e, i - 1)
    BY <1>2
  <2> DEFINE g == [j \in 0..i |-> IF j = i THEN Joined(f[i - 1], e[i]) ELSE f[j]]
  <2>2. IsJoined(g, e, i)
    <3>1. \A j \in 0..(i - 1) : g[j] = f[j]
      OBVIOUS
    <3>2. g[i] = Joined(f[i - 1], e[i])
      OBVIOUS
    <3> HIDE DEF g
    <3> QED
      BY <2>1, <3>1, <3>2 DEF IsJoined
  <2> QED
    BY <2>2
<1>3. \A i \in 0..n : i \in X
  <2> HIDE DEF X
  <2> QED
    BY <1>1, <1>2, InductionUpTo
<1> QED
  BY <1>3

\* What the recursion of the projection computes.
LEMMA ProjectOf ==
  ASSUME NEW ms \in Seq(Message)
  PROVE  \E f, e : /\ e = [i \in 1..Len(ms) |-> Emitted(ms, i)]
                   /\ IsJoined(f, e, Len(ms)) /\ Project(ms) = f[Len(ms)]
<1> DEFINE n == Len(ms)
           e == [i \in 1..n |-> Emitted(ms, i)]
           k == CHOOSE h : h = UnfoldedProject(h, ms)
<1>0. n \in Nat
  OBVIOUS
<1>1. PICK f : IsJoined(f, e, n)
  <2> HIDE DEF e, n
  <2> QED
    BY <1>0, JoinedUpTo
<1>e. \A i \in 1..n : e[i] = Emitted(ms, i)
  OBVIOUS
<1> DEFINE g == [i \in 0..n |-> f[i]]
<1>2. g = UnfoldedProject(g, ms)
  <2> HIDE DEF e
  <2> QED
    BY <1>0, <1>1, <1>e DEF IsJoined, UnfoldedProject
<1>3. k = UnfoldedProject(k, ms)
  <2> HIDE DEF g
  <2> QED
    BY <1>2
<1>4. Project(ms) = k[n]
  BY DEF Project, UnfoldedProject, Joined
<1>5. IsJoined(k, e, n)
  <2> HIDE DEF k, e
  <2>1. \A i : k[i] = UnfoldedProject(k, ms)[i]
    BY <1>3
  <2>2. UnfoldedProject(k, ms)[0] = <<>>
    BY <1>0 DEF UnfoldedProject
  <2>3. \A i \in 1..n : UnfoldedProject(k, ms)[i] = Joined(k[i - 1], Emitted(ms, i))
    BY <1>0 DEF UnfoldedProject
  <2> QED
    BY <1>e, <2>1, <2>2, <2>3 DEF IsJoined
<1> QED
  BY <1>4, <1>5

\* The sequence b stands in s, behind the first d elements.
Stands(s, d, b) == \A k \in 1..Len(b) : d + k \in DOMAIN s /\ s[d + k] = b[k]

\* The first m elements of e stand in s, and nothing else does.
Places(s, e, m) ==
  /\ \A i \in 1..m : \E d \in Nat : Stands(s, d, e[i])
  /\ \A x \in DOMAIN s : \E i \in 1..m, d \in Nat :
       Stands(s, d, e[i]) /\ \E k \in 1..Len(e[i]) : x = d + k

\* What was joined stands in the result.
LEMMA JoinedPlaces ==
  ASSUME NEW T, NEW n \in Nat, NEW e, \A i \in 1..n : e[i] \in Seq(T), NEW f, IsJoined(f, e, n)
  PROVE  f[n] \in Seq(T) /\ Places(f[n], e, n)
<1> DEFINE X == {m \in 0..n : f[m] \in Seq(T) /\ Places(f[m], e, m)}
<1>1. 0 \in X
  <2>1. f[0] = <<>>
    BY DEF IsJoined
  <2>2. 1..0 = {} /\ DOMAIN <<>> = {} /\ <<>> \in Seq(T)
    OBVIOUS
  <2>3. Places(<<>>, e, 0)
    BY <2>2 DEF Places
  <2>4. Places(f[0], e, 0) /\ f[0] \in Seq(T)
    BY <2>1, <2>2, <2>3
  <2>5. 0 \in 0..n
    OBVIOUS
  <2> QED
    BY <2>4, <2>5
<1>2. ASSUME NEW m \in 1..n, m - 1 \in X
      PROVE  m \in X
  <2>1. PICK s : s = f[m - 1]
    OBVIOUS
  <2>2. PICK t : t = e[m]
    OBVIOUS
  <2>3. PICK u : u = f[m]
    OBVIOUS
  <2>4. s \in Seq(T) /\ t \in Seq(T) /\ u = s \o t
    BY <1>2, <2>1, <2>2, <2>3 DEF IsJoined, Joined
  <2>5. PICK a \in Nat, b \in Nat : a = Len(s) /\ b = Len(t)
    BY <2>4
  <2>6. /\ u \in Seq(T) /\ DOMAIN s = 1..a /\ DOMAIN u = 1..(a + b)
        /\ \A x \in 1..a : u[x] = s[x] /\ x \in 1..(a + b)
        /\ \A x \in 1..b : u[a + x] = t[x] /\ a + x \in 1..(a + b)
    BY <2>4, <2>5
  <2>7. \A d, c : Stands(s, d, c) => Stands(u, d, c)
    BY <2>6 DEF Stands
  <2>8. Stands(u, a, t)
    BY <2>5, <2>6 DEF Stands
  <2>9. \A i \in 1..m : i \in 1..(m - 1) \/ i = m
    OBVIOUS
  <2>10. /\ \A i \in 1..(m - 1) : \E d \in Nat : Stands(s, d, e[i])
         /\ \A x \in 1..a : \E i \in 1..(m - 1), d \in Nat :
                            Stands(s, d, e[i]) /\ \E k \in 1..Len(e[i]) : x = d + k
    BY <1>2, <2>1, <2>6 DEF Places
  <2>11. \A i \in 1..m : \E d \in Nat : Stands(u, d, e[i])
    BY <2>2, <2>7, <2>8, <2>9, <2>10
  <2>12. ASSUME NEW x \in 1..(a + b)
         PROVE  \E i \in 1..m, d \in Nat : Stands(u, d, e[i]) /\ \E k \in 1..Len(e[i]) : x = d + k
    <3>1. CASE x \in 1..a
      <4>1. \A i \in 1..(m - 1) : i \in 1..m
        OBVIOUS
      <4> QED
        BY <2>7, <2>10, <3>1, <4>1
    <3>2. CASE x \notin 1..a
      <4>1. x - a \in 1..b /\ x = a + (x - a)
        BY <3>2
      <4>2. m \in 1..m
        OBVIOUS
      <4> QED
        BY <2>2, <2>5, <2>8, <4>1, <4>2
    <3> QED
      BY <3>1, <3>2
  <2>13. Places(u, e, m)
    BY <2>6, <2>11, <2>12 DEF Places
  <2>14. m \in 0..n
    OBVIOUS
  <2> QED
    BY <2>3, <2>6, <2>13, <2>14
<1>3. \A i \in 0..n : i \in X
  <2> HIDE DEF X
  <2> QED
    BY <1>1, <1>2, InductionUpTo
<1> QED
  BY <1>3

\* While a step is requested nothing is pending, so every call of a sealed step has its
\* result, and the first one found is it.
LEMMA SlotFilled ==
  ASSUME NEW ms, NEW s, NEW n, NEW h, NEW Y, NEW D, Core(ms, <<>>, h, s, n, Y, D),
         NEW i \in DOMAIN ms, IsAssistant(ms[i]), NEW id \in Elems(ms[i].calls)
  PROVE  SlotOf(ms, i, id) = Tool(id, id \in Y)
<1>1. /\ ms \in Seq(Message) /\ s \in Nat /\ StepsSound(ms, s) /\ ResultsSound(ms, s, Y)
      /\ PendingSound(ms, <<>>, Y)
  BY DEF Core, Typed
<1>2. PICK k \in Nat : k = Len(ms)
  BY <1>1
<1>3. DOMAIN ms = 1..k /\ \A j \in 1..k : ms[j] \in Elems(ms) /\ ms[j] \in Message
  BY <1>1, <1>2 DEF Elems
<1> DEFINE a == ms[i]
           found == {j \in DOMAIN ms : j > i /\ ms[j].kind = "tool" /\ ms[j].id = id}
<1>4. a \in Elems(ms) /\ ~ Precedes(ms, a, a)
  BY <1>1, <1>3, AssistantsOnce
<1>5. PICK t \in Elems(ms) : IsTool(t) /\ t.id = id /\ Precedes(ms, a, t)
  <2>1. Elems(<<>>) = {}
    BY DEF Elems
  <2> QED
    BY <1>1, <1>4, <2>1 DEF PendingSound
<1>6. found # {}
  <2>1. PICK x \in 1..k, y \in 1..k : x < y /\ ms[x] = a /\ ms[y] = t
    BY <1>3, <1>5 DEF Precedes
  <2>2. x = i
    <3>1. ~ (x < i) /\ ~ (i < x)
      BY <1>3, <1>4, <2>1 DEF Precedes
    <3> QED
      BY <1>3, <2>1, <3>1
  <2>3. y > i /\ y \in DOMAIN ms
    BY <1>3, <2>1, <2>2
  <2>4. ms[y].kind = "tool" /\ ms[y].id = id
    BY <1>5, <2>1 DEF IsTool
  <2> QED
    BY <2>3, <2>4
<1>7. ASSUME NEW j \in found
      PROVE  ms[j] = Tool(id, id \in Y)
  <2>1. j \in 1..k /\ IsTool(ms[j]) /\ ms[j].id = id
    BY <1>3 DEF IsTool
  <2>2. ms[j] \in ToolMessages /\ (ms[j].real <=> id \in Y)
    BY <1>1, <1>3, <2>1, MessageKinds DEF ResultsSound
  <2> HIDE DEF found, a
  <2>3. ms[j] = [kind |-> "tool", id |-> id, real |-> ms[j].real]
    BY <2>1, <2>2 DEF ToolMessages
  <2>4. ms[j].real = (id \in Y)
    BY <2>2 DEF ToolMessages
  <2> QED
    BY <2>3, <2>4 DEF Tool
<1>8. \E j \in found : \A l \in found : j <= l
  <2>1. found \subseteq Nat
    BY <1>3
  <2> HIDE DEF found
  <2> QED
    BY <1>6, <2>1, LeastNatural
<1>9. SlotOf(ms, i, id) = ms[CHOOSE j \in found : \A l \in found : j <= l]
  BY <1>6 DEF SlotOf
<1> HIDE DEF found
<1> QED
  BY <1>7, <1>8, <1>9

\* What is emitted for each kind of message while a step is requested.
LEMMA EmittedOf ==
  ASSUME NEW ms, NEW s, NEW n, NEW h, NEW Y, NEW D, Core(ms, <<>>, h, s, n, Y, D),
         \A a \in Elems(ms) : IsPartial(a) => a.calls = <<>>,
         NEW i \in DOMAIN ms
  PROVE  LET m == ms[i] IN
         /\ Emitted(ms, i) \in Seq(Message)
         /\ IsPartial(m) \/ IsTool(m) => Emitted(ms, i) = <<>>
         /\ IsUser(m) \/ m.kind = "summary" => Emitted(ms, i) = <<m>>
         /\ IsAssistant(m) /\ ~ IsPartial(m) =>
              /\ m.calls \in Seq(CallId) /\ Len(Emitted(ms, i)) = Len(m.calls) + 1
              /\ Emitted(ms, i)[1] = m
              /\ \A k \in DOMAIN m.calls : Emitted(ms, i)[k + 1] = Tool(m.calls[k], m.calls[k] \in Y)
<1> DEFINE m == ms[i]
           hasAssistant == \E j \in DOMAIN ms : ms[j].kind = "assistant" /\ ~ IsPartial(ms[j])
<1>1. ms \in Seq(Message) /\ ResultsSound(ms, s, Y)
  BY DEF Core, Typed
<1>2. m \in Message /\ m \in Elems(ms)
  BY <1>1 DEF Elems
<1>3. Emitted(ms, i) =
        CASE IsPartial(m) -> <<>>
          [] m.kind = "tool" -> IF hasAssistant THEN <<>> ELSE <<m>>
          [] m.kind \in {"user", "summary"} -> <<m>>
          [] OTHER -> <<m>> \o [k \in DOMAIN m.calls |-> SlotOf(ms, i, m.calls[k])]
  BY DEF Emitted
<1>4. IsTool(m) => hasAssistant
  <2> SUFFICES ASSUME IsTool(m)
               PROVE  hasAssistant
    OBVIOUS
  <2>1. PICK a \in Elems(ms) : IsAssistant(a) /\ m.id \in Elems(a.calls)
    BY <1>1, <1>2 DEF ResultsSound
  <2>2. Elems(<<>>) = {}
    BY DEF Elems
  <2>3. ~ IsPartial(a)
    BY <2>1, <2>2
  <2> QED
    BY <2>1, <2>3 DEF Elems, IsAssistant
<1> HIDE DEF hasAssistant
<1>5. CASE IsPartial(m)
  <2>1. IsAssistant(m)
    BY <1>5 DEF IsPartial, IsAssistant
  <2>2. ~ IsUser(m) /\ ~ m.kind = "summary"
    BY <2>1 DEF IsAssistant, IsUser
  <2>3. Emitted(ms, i) = <<>>
    BY <1>3, <1>5, <2>1 DEF IsAssistant
  <2>4. <<>> \in Seq(Message)
    OBVIOUS
  <2> QED
    BY <1>5, <2>2, <2>3, <2>4
<1>6. CASE IsTool(m)
  <2>1. ~ IsUser(m) /\ ~ m.kind = "summary" /\ ~ IsAssistant(m) /\ ~ IsPartial(m)
    BY <1>6 DEF IsAssistant, IsUser, IsTool, IsPartial
  <2>2. Emitted(ms, i) = <<>>
    BY <1>3, <1>4, <1>6, <2>1 DEF IsTool
  <2>3. <<>> \in Seq(Message)
    OBVIOUS
  <2> QED
    BY <1>6, <2>1, <2>2, <2>3
<1>7. CASE IsUser(m) \/ m.kind = "summary"
  <2>1. ~ IsTool(m) /\ ~ IsAssistant(m) /\ ~ IsPartial(m)
    BY <1>7 DEF IsAssistant, IsUser, IsTool, IsPartial
  <2>2. Emitted(ms, i) = <<m>>
    BY <1>3, <1>7, <2>1 DEF IsUser
  <2>3. <<m>> \in Seq(Message)
    BY <1>2
  <2> QED
    BY <1>7, <2>1, <2>2, <2>3
<1>8. CASE IsAssistant(m) /\ ~ IsPartial(m)
  <2> DEFINE slots == [k \in DOMAIN m.calls |-> SlotOf(ms, i, m.calls[k])]
  <2>1. ~ IsTool(m) /\ ~ IsUser(m) /\ m.kind # "summary"
    BY <1>8 DEF IsAssistant, IsUser, IsTool
  <2>2. Emitted(ms, i) = <<m>> \o slots
    BY <1>3, <1>8 DEF IsAssistant
  <2>3. m.calls \in Seq(CallId)
    BY <1>2, <1>8, MessageKinds DEF AssistantMessages
  <2>4. PICK c \in Nat : c = Len(m.calls)
    BY <2>3
  <2>5. DOMAIN m.calls = 1..c /\ \A k \in 1..c : m.calls[k] \in CallId /\ m.calls[k] \in Elems(m.calls)
    BY <2>3, <2>4 DEF Elems
  <2>6. \A k \in 1..c : SlotOf(ms, i, m.calls[k]) = Tool(m.calls[k], m.calls[k] \in Y)
    <3> HIDE DEF slots
    <3> QED
      BY <1>8, <2>5, SlotFilled
  <2>7. \A k \in 1..c : Tool(m.calls[k], m.calls[k] \in Y) \in Message
    BY <2>5, ToolIn
  <2>8. slots = [k \in 1..c |-> SlotOf(ms, i, m.calls[k])]
    BY <2>5
  <2>9. slots \in [1..c -> Message] /\ \A k \in 1..c : slots[k] = Tool(m.calls[k], m.calls[k] \in Y)
    <3> HIDE DEF m
    <3> QED
      BY <2>6, <2>7, <2>8
  <2> HIDE DEF slots, m
  <2>10. slots \in Seq(Message) /\ Len(slots) = c
    BY <2>4, <2>9, TypedSequence
  <2>11. PICK u : u = <<m>> \o slots
    OBVIOUS
  <2>12. u \in Seq(Message) /\ Len(u) = c + 1 /\ u[1] = m /\ \A k \in 1..c : u[k + 1] = slots[k]
    BY <1>2, <2>4, <2>10, <2>11
  <2> QED
    BY <1>8, <2>1, <2>2, <2>3, <2>4, <2>5, <2>9, <2>11, <2>12 DEF m
<1> HIDE DEF m
<1> QED
  BY <1>2, <1>5, <1>6, <1>7, <1>8, MessageKinds DEF m, IsUser, IsTool, IsAssistant

\* Nothing but what is emitted is shown, and all of it.
LEMMA ShownPlaces ==
  ASSUME NEW ms \in Seq(Message), \A i \in DOMAIN ms : Emitted(ms, i) \in Seq(Message)
  PROVE  /\ Project(ms) \in Seq(Message)
         /\ \A i \in DOMAIN ms : \E d \in Nat : Stands(Project(ms), d, Emitted(ms, i))
         /\ \A x \in DOMAIN Project(ms) : \E i \in DOMAIN ms, d \in Nat :
              Stands(Project(ms), d, Emitted(ms, i)) /\ \E k \in 1..Len(Emitted(ms, i)) : x = d + k
<1>1. PICK n \in Nat : n = Len(ms)
  OBVIOUS
<1>2. DOMAIN ms = 1..n
  BY <1>1
<1>3. PICK f, e : /\ e = [i \in 1..n |-> Emitted(ms, i)]
                  /\ IsJoined(f, e, n) /\ Project(ms) = f[n]
  BY <1>1, ProjectOf
<1>4. \A i \in 1..n : e[i] = Emitted(ms, i) /\ e[i] \in Seq(Message)
  BY <1>2, <1>3
<1>5. f[n] \in Seq(Message) /\ Places(f[n], e, n)
  BY <1>3, <1>4, JoinedPlaces
<1>6. Project(ms) \in Seq(Message) /\ Places(Project(ms), e, n)
  BY <1>3, <1>5
<1>7. \A i \in 1..n : \E d \in Nat : Stands(Project(ms), d, Emitted(ms, i))
  BY <1>4, <1>6 DEF Places
<1>8. \A x \in DOMAIN Project(ms) : \E i \in 1..n, d \in Nat :
         Stands(Project(ms), d, Emitted(ms, i)) /\ \E k \in 1..Len(Emitted(ms, i)) : x = d + k
  BY <1>4, <1>6 DEF Places
<1> QED
  BY <1>2, <1>6, <1>7, <1>8

\* What a request carries while its step is open.
LEMMA AnsweredByInvariant == HistorySound => RequestsAnswerCalls
<1> SUFFICES ASSUME HistorySound, phase = "requesting"
             PROVE  /\ \A i \in DOMAIN Shown : Shown[i].kind = "assistant" =>
                         \A k \in DOMAIN Shown[i].calls :
                            LET id == Shown[i].calls[k]
                            IN  i + k \in DOMAIN Shown /\ Shown[i + k] = Tool(id, id \in yielded)
                    /\ \A i \in DOMAIN Shown : Shown[i].kind = "tool" =>
                         \E j \in DOMAIN Shown : Owns(j, i)
                    /\ \A id \in yielded \ Covered :
                         \E i \in DOMAIN Shown : Shown[i] = Tool(id, TRUE)
  BY DEF RequestsAnswerCalls
<1> DEFINE ms == context.messages
           S == Project(ms)
           Em(i) == Emitted(ms, i)
<1>1. /\ Core(ms, <<>>, context.held, step, sent, yielded, dropped)
      /\ \A a \in Elems(ms) : IsPartial(a) => a.calls = <<>>
  BY DEF HistorySound, Sound, PhaseSound
<1>2. /\ ms \in Seq(Message) /\ ResultsSound(ms, step, yielded) /\ YieldedSound(ms, step, yielded)
      /\ yielded \subseteq CallId
  BY <1>1 DEF Core, Typed
<1>3. \A i \in DOMAIN ms : ms[i] \in Message /\ ms[i] \in Elems(ms)
  BY <1>2 DEF Elems
<1>4. Shown = S
  BY DEF Shown
<1> HIDE DEF ms
<1>5. \A i \in DOMAIN ms :
        /\ Em(i) \in Seq(Message)
        /\ IsPartial(ms[i]) \/ IsTool(ms[i]) => Em(i) = <<>>
        /\ IsUser(ms[i]) \/ ms[i].kind = "summary" => Em(i) = <<ms[i]>>
        /\ IsAssistant(ms[i]) /\ ~ IsPartial(ms[i]) =>
             /\ ms[i].calls \in Seq(CallId) /\ Len(Em(i)) = Len(ms[i].calls) + 1
             /\ Em(i)[1] = ms[i]
             /\ \A k \in DOMAIN ms[i].calls :
                  Em(i)[k + 1] = Tool(ms[i].calls[k], ms[i].calls[k] \in yielded)
  BY <1>1, EmittedOf
<1>6. /\ S \in Seq(Message)
      /\ \A i \in DOMAIN ms : \E d \in Nat : Stands(S, d, Em(i))
      /\ \A x \in DOMAIN S : \E i \in DOMAIN ms, d \in Nat :
              Stands(S, d, Em(i)) /\ \E k \in 1..Len(Em(i)) : x = d + k
  BY <1>2, <1>5, ShownPlaces
<1> HIDE DEF Em, S
\* The places of a sealed step and its results.
<1>7. ASSUME NEW i \in DOMAIN ms, IsAssistant(ms[i]), ~ IsPartial(ms[i]),
             NEW d \in Nat, Stands(S, d, Em(i))
      PROVE  /\ d + 1 \in DOMAIN S /\ S[d + 1] = ms[i]
             /\ \A k \in DOMAIN ms[i].calls :
                  /\ d + 1 + k \in DOMAIN S
                  /\ S[d + 1 + k] = Tool(ms[i].calls[k], ms[i].calls[k] \in yielded)
  <2>1. PICK c \in Nat : c = Len(ms[i].calls)
    BY <1>5, <1>7
  <2>2. Len(Em(i)) = c + 1 /\ DOMAIN ms[i].calls = 1..c /\ Em(i)[1] = ms[i]
    BY <1>5, <1>7, <2>1
  <2>3. \A k \in 1..(c + 1) : d + k \in DOMAIN S /\ S[d + k] = Em(i)[k]
    BY <1>7, <2>2 DEF Stands
  <2>4. d + 1 \in DOMAIN S /\ S[d + 1] = ms[i]
    BY <2>1, <2>2, <2>3
  <2>5. ASSUME NEW k \in 1..c
        PROVE  d + 1 + k \in DOMAIN S /\ S[d + 1 + k] = Tool(ms[i].calls[k], ms[i].calls[k] \in yielded)
    <3>1. k + 1 \in 1..(c + 1) /\ d + (k + 1) = d + 1 + k
      OBVIOUS
    <3>2. Em(i)[k + 1] = Tool(ms[i].calls[k], ms[i].calls[k] \in yielded)
      BY <1>5, <1>7, <2>2
    <3>3. d + (k + 1) \in DOMAIN S /\ S[d + (k + 1)] = Em(i)[k + 1]
      BY <2>3, <3>1
    <3> QED
      BY <3>1, <3>2, <3>3
  <2> QED
    BY <2>2, <2>4, <2>5
\* What may stand at a place.
<1>8. ASSUME NEW x \in DOMAIN S
      PROVE  \/ S[x].kind # "assistant" /\ S[x].kind # "tool"
             \/ \E i \in DOMAIN ms, d \in Nat :
                  /\ IsAssistant(ms[i]) /\ ~ IsPartial(ms[i]) /\ Stands(S, d, Em(i))
                  /\ \/ x = d + 1
                     \/ S[x].kind = "tool" /\ \E k \in DOMAIN ms[i].calls : x = d + 1 + k
  <2>1. PICK i \in DOMAIN ms, d \in Nat : Stands(S, d, Em(i)) /\ \E k \in 1..Len(Em(i)) : x = d + k
    BY <1>6
  <2>2. PICK k \in 1..Len(Em(i)) : x = d + k
    BY <2>1
  <2>3. S[x] = Em(i)[k]
    BY <2>1, <2>2 DEF Stands
  <2>4. CASE IsPartial(ms[i]) \/ IsTool(ms[i])
    <3>1. Len(Em(i)) = 0
      BY <1>5, <2>4
    <3> QED
      BY <2>2, <3>1
  <2>5. CASE IsUser(ms[i]) \/ ms[i].kind = "summary"
    <3>1. PICK m : m = ms[i]
      OBVIOUS
    <3>2. Em(i) = <<m>>
      BY <1>5, <2>5, <3>1
    <3>3. k = 1
      BY <2>2, <3>2
    <3>4. S[x] = m
      BY <2>3, <3>2, <3>3
    <3> QED
      BY <2>5, <3>1, <3>4 DEF IsUser
  <2>6. CASE IsAssistant(ms[i]) /\ ~ IsPartial(ms[i])
    <3>1. PICK c \in Nat : c = Len(ms[i].calls)
      BY <1>5, <2>6
    <3>2. Len(Em(i)) = c + 1 /\ DOMAIN ms[i].calls = 1..c
      BY <1>5, <2>6, <3>1
    <3>3. CASE k = 1
      BY <2>1, <2>2, <2>6, <3>3
    <3>4. CASE k # 1
      <4>1. k \in 1..(c + 1)
        BY <2>2, <3>2
      <4>2. k - 1 \in 1..c /\ x = d + 1 + (k - 1)
        BY <2>2, <3>1, <3>4, <4>1
      <4>3. S[x] = Tool(ms[i].calls[k - 1], ms[i].calls[k - 1] \in yielded)
        BY <1>7, <2>1, <2>6, <3>2, <4>2
      <4>4. S[x].kind = "tool"
        BY <4>3 DEF Tool
      <4>5. k - 1 \in DOMAIN ms[i].calls
        BY <3>2, <4>2
      <4>6. PICK j \in DOMAIN ms[i].calls : x = d + 1 + j
        BY <4>2, <4>5
      <4> QED
        BY <2>1, <2>6, <4>4, <4>6
    <3> QED
      BY <3>3, <3>4
  <2>7. IsPartial(ms[i]) \/ IsTool(ms[i]) \/ IsUser(ms[i]) \/ ms[i].kind = "summary" \/ IsAssistant(ms[i])
    BY <1>3, MessageKinds DEF IsTool, IsUser, IsAssistant
  <2> QED
    BY <2>4, <2>5, <2>6, <2>7
<1>9. ASSUME NEW x \in DOMAIN S, S[x].kind = "assistant", NEW k \in DOMAIN S[x].calls
      PROVE  x + k \in DOMAIN S /\ S[x + k] = Tool(S[x].calls[k], S[x].calls[k] \in yielded)
  <2>1. PICK i \in DOMAIN ms, d \in Nat :
          /\ IsAssistant(ms[i]) /\ ~ IsPartial(ms[i]) /\ Stands(S, d, Em(i)) /\ x = d + 1
    BY <1>8, <1>9
  <2>2. S[x] = ms[i]
    BY <1>7, <2>1
  <2> QED
    BY <1>7, <2>1, <2>2
<1>10. ASSUME NEW x \in DOMAIN S, S[x].kind = "tool"
       PROVE  \E j \in DOMAIN S : S[j].kind = "assistant" /\ \E k \in DOMAIN S[j].calls : x = j + k
  <2>1. PICK i \in DOMAIN ms, d \in Nat :
          /\ IsAssistant(ms[i]) /\ ~ IsPartial(ms[i]) /\ Stands(S, d, Em(i))
          /\ (x = d + 1 \/ \E k \in DOMAIN ms[i].calls : x = d + 1 + k)
    BY <1>8, <1>10
  <2>2. d + 1 \in DOMAIN S /\ S[d + 1] = ms[i] /\ S[d + 1].kind = "assistant"
    BY <1>7, <2>1 DEF IsAssistant
  <2>3. x # d + 1
    BY <1>10, <2>2
  <2> QED
    BY <2>1, <2>2, <2>3
<1>11. SummaryFacts(ms) \subseteq SummaryFacts(S)
  <2>1. ASSUME NEW m \in Elems(ms), m.kind = "summary"
        PROVE  m \in Elems(S)
    <3>1. PICK i \in DOMAIN ms : ms[i] = m
      BY DEF Elems
    <3>2. PICK d \in Nat : Stands(S, d, Em(i))
      BY <1>6
    <3>3. Em(i) = <<m>>
      BY <1>5, <2>1, <3>1
    <3>4. Len(Em(i)) = 1 /\ Em(i)[1] = m
      BY <3>3
    <3>5. d + 1 \in DOMAIN S /\ S[d + 1] = m
      BY <3>2, <3>4 DEF Stands
    <3> QED
      BY <3>5 DEF Elems
  <2> QED
    BY <2>1 DEF SummaryFacts
<1>12. ASSUME NEW id \in yielded, id \notin SummaryFacts(S)
       PROVE  \E x \in DOMAIN S : S[x] = Tool(id, TRUE)
  <2>1. PICK t \in Elems(ms) : IsTool(t) /\ t.id = id
    BY <1>2, <1>11, <1>12 DEF YieldedSound
  <2>2. PICK a \in Elems(ms) : IsAssistant(a) /\ id \in Elems(a.calls)
    BY <1>2, <2>1 DEF ResultsSound
  <2>3. ~ IsPartial(a)
    <3>1. Elems(<<>>) = {}
      BY DEF Elems
    <3> QED
      BY <1>1, <2>2, <3>1
  <2>4. PICK i \in DOMAIN ms : ms[i] = a
    BY DEF Elems
  <2>5. PICK d \in Nat : Stands(S, d, Em(i))
    BY <1>6
  <2>6. PICK k \in DOMAIN a.calls : a.calls[k] = id
    BY <2>2 DEF Elems
  <2>7. d + 1 + k \in DOMAIN S /\ S[d + 1 + k] = Tool(id, id \in yielded)
    BY <1>7, <2>2, <2>3, <2>4, <2>5, <2>6
  <2>8. Tool(id, id \in yielded) = Tool(id, TRUE)
    BY <1>12 DEF Tool
  <2> QED
    BY <2>7, <2>8
<1> QED
  BY <1>4, <1>9, <1>10, <1>12 DEF Owns, Covered

\* Theorem: every request answers every call by its own result, right behind the message
\* that called, and holds no other result.
THEOREM Answered == HistorySpec => []RequestsAnswerCalls
<1> QED
  BY SoundAlways, AnsweredByInvariant, PTL

-----------------------------------------------------------------------------
(* Turn ids ascend for any number of turns and crashes; until the first    *)
(* crash the persisted count arrives at the id the loop reserved.          *)

\* The invariant is inductive as it stands: the persisted count can only stay
\* ahead of the ids in use because every id between it and the next reservation
\* is queued or recorded as cancelled, so that the oldest queued id never
\* exceeds the count.  What a crash may restore always holds the current model.
Inv == TypeOK /\ Alignment /\ model \in restorable

\* The parts of it that are about what a crash may restore.
Restored ==
  /\ restorable \subseteq Nat \X (SUBSET Nat) \X Nat
  /\ \A m \in restorable : m[1] \notin m[2] /\ m[3] <= m[1]
  /\ model \in restorable

\* A record is buffered with a model that is sound itself.
LEMMA DispatchKeeps ==
  ASSUME Inv, Dispatch, next' \in Nat, cancelled' \subseteq Nat, floor' \in Nat,
         next' \notin cancelled', floor' <= next'
  PROVE  Restored'
<1>1. PICK m : m = model'
  OBVIOUS
<1>2. /\ m \in Nat \X (SUBSET Nat) \X Nat /\ m[1] \notin m[2] /\ m[3] <= m[1]
      /\ m[1] = next' /\ m[2] = cancelled' /\ m[3] = floor'
  BY <1>1 DEF model
<1>3. restorable' = restorable \cup {m}
  BY <1>1 DEF Dispatch
<1> QED
  BY <1>1, <1>2, <1>3 DEF Restored, Inv, TypeOK, Alignment

\* Nothing about the model or its log changes.
LEMMA RestoredStays ==
  ASSUME Inv, UNCHANGED <<next, cancelled, floor, restorable>>
  PROVE  Restored'
BY DEF Restored, Inv, TypeOK, Alignment, model

\* advanceTurnClock() skips only ids it was told are cancelled, and leaves the
\* count on one that is not.
LEMMA AdvanceSkips ==
  ASSUME NEW n \in Nat, NEW C \in SUBSET Nat, AdvanceTurnClock(n, C)
  PROVE  /\ next' \in Nat /\ next' >= n /\ next' \notin C
         /\ \A k \in n..(next' - 1) : k \in C
         /\ cancelled' = {c \in C : c >= next'}
<1>1. PICK m \in n..(n + MaxTurns) :
        /\ m \notin C /\ \A k \in n..(m - 1) : k \in C
        /\ next' = m
        /\ cancelled' = {c \in C : c >= m}
  BY DEF AdvanceTurnClock
<1> QED
  BY <1>1, ClockAssumption

\* reserveTurnId() returns an id no queued turn has, at or past the model's count.
LEMMA ReservedIsFresh ==
  ASSUME Inv
  PROVE  /\ ReservedId \in Nat /\ ReservedId >= next /\ ReservedId >= reserved
         /\ \A k \in next..(ReservedId - 1) : k \in Waiting \cup cancelled
BY DEF Inv, TypeOK, Alignment, ReservedId

\* The ids left to account for after the count moved from a past b, as
\* advanceTurnClock() moves it, were to be accounted for before.
LEMMA Narrower ==
  ASSUME NEW a \in Nat, NEW b \in Nat, NEW c \in Nat, b >= a + 1
  PROVE  \A k \in b..(c - 1) : k \in (a + 1)..(c - 1) /\ k >= b
OBVIOUS

\* What the ids that stay queued look like when id starts.
Fits(id, rest) ==
  /\ \A i \in DOMAIN rest : rest[i] > id /\ rest[i] < reserved'
  /\ \A i, j \in DOMAIN rest : i < j => rest[i] < rest[j]
  /\ \A k \in (next + 1)..(reserved' - 1) :
       k \in {rest[i] : i \in DOMAIN rest} \cup cancelled

\* startTurn() keeps the invariant when the id started is past every id started
\* before, at most the model's count, and below the ids that stay queued.
LEMMA StartKeepsInv ==
  ASSUME Inv, NEW id \in Nat, NEW rest \in Seq(Nat),
         id >= floor, id <= next,
         StartTurn(id, rest),
         reserved' \in Nat, made' \in 0..MaxTurns, crashes' = crashes,
         Fits(id, rest)
  PROVE  Inv'
<1>1. /\ next' \in Nat /\ next' >= next + 1 /\ next' \notin cancelled
      /\ cancelled' = {c \in cancelled : c >= next'}
  <2>1. next + 1 \in Nat /\ cancelled \in SUBSET Nat
    BY DEF Inv, TypeOK
  <2>2. AdvanceTurnClock(next + 1, cancelled)
    BY DEF StartTurn
  <2> QED
    BY <2>1, <2>2, AdvanceSkips
<1>2. queued' = rest /\ active' = id /\ floor' = id + 1
  BY DEF StartTurn
<1>8. Restored'
  <2>1. cancelled \subseteq Nat /\ next \in Nat
    BY DEF Inv, TypeOK
  <2>2. cancelled' \subseteq Nat /\ next' \notin cancelled'
    BY <1>1, <2>1
  <2>3. floor' \in Nat /\ floor' <= next'
    BY <1>1, <1>2, <2>1
  <2> QED
    BY <1>1, <2>2, <2>3, DispatchKeeps DEF StartTurn
<1>3. TypeOK'
  <2>1. /\ crashes \in 0..MaxCrashes /\ cancelled \subseteq Nat
        /\ next \in Nat
    BY DEF Inv, TypeOK
  <2>2. cancelled' \subseteq Nat
    BY <1>1, <2>1
  <2>5. floor' \in Nat
    BY <1>2
  <2>3. queued' \in Seq(Nat) /\ active' \in Nat \cup {NoTurn}
    BY <1>2
  <2>4. crashes' \in 0..MaxCrashes
    BY <2>1
  <2> QED
    BY <1>1, <1>8, <2>2, <2>3, <2>4, <2>5 DEF TypeOK, Restored
<1>4. \A k \in next'..(reserved' - 1) : k \in Waiting' \cup cancelled'
  <2> TAKE k \in next'..(reserved' - 1)
  <2>1. next \in Nat /\ k \in (next + 1)..(reserved' - 1) /\ k >= next'
    <3>1. next \in Nat /\ next' \in Nat /\ next' >= next + 1 /\ floor \in Nat
      BY <1>1 DEF Inv, TypeOK
    <3> QED
      BY <3>1, Narrower
  <2>2. k \in {rest[i] : i \in DOMAIN rest} \cup cancelled
    BY <2>1 DEF Fits
  <2>3. Waiting' = {rest[i] : i \in DOMAIN rest}
    BY <1>2 DEF Waiting
  <2> QED
    BY <1>1, <2>1, <2>2, <2>3
<1>5. \A i \in DOMAIN queued' : queued'[i] >= floor' /\ queued'[i] < reserved'
  <2> TAKE i \in DOMAIN queued'
  <2>1. rest[i] \in Nat /\ rest[i] > id /\ rest[i] < reserved'
    BY <1>2 DEF Fits
  <2> QED
    BY <2>1, <1>2
<1>6. /\ next' \notin cancelled' /\ floor' <= next'
      /\ active' # NoTurn => active' < next'
  BY <1>1, <1>2 DEF Inv, TypeOK
<1>7. \A i, j \in DOMAIN queued' : i < j => queued'[i] < queued'[j]
  BY <1>2 DEF Fits
<1> QED
  BY <1>3, <1>4, <1>5, <1>6, <1>7, <1>8 DEF Inv, Alignment, Restored

\* createPendingTurn(): the new reservation exceeds all others.
LEMMA AdmitKeepsInv ==
  ASSUME Inv, AdmitTurn
  PROVE  Inv'
<1>1. /\ ReservedId \in Nat /\ ReservedId >= next /\ ReservedId >= reserved
      /\ \A k \in next..(ReservedId - 1) : k \in Waiting \cup cancelled
  BY ReservedIsFresh
<1>2. reserved' = ReservedId + 1 /\ made' \in 0..MaxTurns
  BY ClockAssumption DEF AdmitTurn, Inv, TypeOK
<1>3. CASE active = NoTurn /\ queued = <<>>
  <2>1. StartTurn(ReservedId, <<>>)
    BY <1>3 DEF AdmitTurn
  <2>2. Waiting = {}
    BY <1>3 DEF Waiting
  <2>3. next \notin cancelled /\ next \in Nat /\ floor \in Nat /\ floor <= next
    BY DEF Inv, TypeOK, Alignment
  <2>4. ReservedId = next
    BY <1>1, <2>2, <2>3
  <2>5. crashes' = crashes
    BY DEF AdmitTurn
  <2>6. reserved' \in Nat
    BY <1>1, <1>2
  <2>7. \A k \in (next + 1)..(reserved' - 1) : k \in {<<>>[i] : i \in DOMAIN <<>>} \cup cancelled
    BY <1>2, <2>3, <2>4
  <2> QED
    <3> DEFINE rest == <<>>
    <3>1. /\ rest \in Seq(Nat)
          /\ \A i \in DOMAIN rest : rest[i] > ReservedId /\ rest[i] < reserved'
          /\ \A i, j \in DOMAIN rest : i < j => rest[i] < rest[j]
      OBVIOUS
    <3>2. ReservedId >= floor /\ ReservedId <= next
      BY <2>3, <2>4
    <3>3. /\ StartTurn(ReservedId, rest)
          /\ \A k \in (next + 1)..(reserved' - 1) :
               k \in {rest[i] : i \in DOMAIN rest} \cup cancelled
      BY <2>1, <2>7
    <3> HIDE DEF rest
    <3> QED
      BY <1>1, <1>2, <2>5, <2>6, <3>1, <3>2, <3>3, StartKeepsInv DEF Fits
<1>4. CASE ~(active = NoTurn /\ queued = <<>>)
  <2>1. /\ queued' = Append(queued, ReservedId)
        /\ next' = next /\ cancelled' = cancelled /\ active' = active /\ floor' = floor
        /\ crashes' = crashes /\ restorable' = restorable
    BY <1>4 DEF AdmitTurn
  <2>11. Restored'
    BY <2>1, RestoredStays
  <2>2. TypeOK'
    BY <1>1, <1>2, <2>1 DEF Inv, TypeOK
  <2>7. PICK l \in Nat : l = Len(queued)
    BY DEF Inv, TypeOK
  <2>12. queued \in Seq(Nat)
    BY DEF Inv, TypeOK
  <2>8. /\ DOMAIN queued = 1..l /\ DOMAIN queued' = 1..(l + 1) /\ queued'[l + 1] = ReservedId
        /\ \A i \in 1..l : queued'[i] = queued[i] /\ queued[i] \in Nat
    BY <1>1, <2>1, <2>7, <2>12
  <2>9. /\ floor \in Nat /\ next \in Nat /\ reserved \in Nat /\ floor <= next
        /\ \A i \in 1..l : queued[i] >= floor /\ queued[i] < reserved
        /\ \A i, j \in 1..l : i < j => queued[i] < queued[j]
    BY <2>8 DEF Inv, TypeOK, Alignment
  <2>10. \A i \in 1..(l + 1) : i \in 1..l \/ i = l + 1
    OBVIOUS
  <2>3. \A i \in DOMAIN queued' : queued'[i] >= floor' /\ queued'[i] < reserved'
    BY <1>1, <1>2, <2>1, <2>8, <2>9, <2>10
  <2>4. \A i, j \in DOMAIN queued' : i < j => queued'[i] < queued'[j]
    <3> SUFFICES ASSUME NEW i \in 1..(l + 1), NEW j \in 1..(l + 1), i < j
                 PROVE  queued'[i] < queued'[j]
      BY <2>8
    <3>1. i \in 1..l
      OBVIOUS
    <3>2. CASE j \in 1..l
      BY <2>8, <2>9, <3>1, <3>2
    <3>3. CASE j = l + 1
      BY <1>1, <2>8, <2>9, <3>1, <3>3
    <3> QED
      BY <2>10, <3>2, <3>3
  <2>5. Waiting \cup {ReservedId} \subseteq Waiting'
    <3>1. queued \in Seq(Nat) /\ Len(queued) \in Nat
      BY DEF Inv, TypeOK
    <3>2. /\ DOMAIN queued' = 1..(Len(queued) + 1)
          /\ queued'[Len(queued) + 1] = ReservedId
          /\ \A i \in DOMAIN queued : i \in DOMAIN queued' /\ queued'[i] = queued[i]
      BY <1>1, <2>1, <3>1
    <3>3. ReservedId \in Waiting'
      BY <3>1, <3>2 DEF Waiting
    <3> QED
      BY <3>2, <3>3 DEF Waiting
  <2>6. \A k \in next'..(reserved' - 1) : k \in Waiting' \cup cancelled'
    BY <1>1, <1>2, <2>1, <2>5 DEF Inv, TypeOK
  <2> QED
    BY <2>1, <2>2, <2>3, <2>4, <2>6, <2>11 DEF Inv, Alignment, Restored
<1> QED
  BY <1>3, <1>4

\* pumpTurns(): the oldest queued id is at most the model's count.
LEMMA PumpKeepsInv ==
  ASSUME Inv, PumpTurn
  PROVE  Inv' /\ Head(queued) >= floor
<1> DEFINE id == Head(queued)
           rest == Tail(queued)
<1>1. queued \in Seq(Nat) /\ queued # <<>> /\ next \in Nat /\ reserved \in Nat
  BY DEF Inv, TypeOK, PumpTurn
<1>2. id = queued[1] /\ 1 \in DOMAIN queued /\ id \in Nat /\ rest \in Seq(Nat)
  BY <1>1
<1>3. id >= floor /\ id < reserved
  BY <1>2 DEF Inv, Alignment
<1>4. \A i \in DOMAIN queued : i # 1 => queued[i] > id
  BY <1>1, <1>2 DEF Inv, Alignment
<1>5. id <= next
  <2>1. SUFFICES ASSUME id > next PROVE FALSE
    BY <1>1, <1>2
  <2>2. next \in Waiting \cup cancelled
    BY <1>1, <1>2, <1>3, <2>1 DEF Inv, Alignment
  <2>3. PICK i \in DOMAIN queued : queued[i] = next
    BY <2>2 DEF Inv, Alignment, Waiting
  <2> QED
    BY <1>1, <1>2, <1>4, <2>1, <2>3
<1>6. \A i \in DOMAIN rest : rest[i] = queued[i + 1] /\ i + 1 \in DOMAIN queued /\ i + 1 # 1
  BY <1>1
<1>7. \A i \in DOMAIN rest : rest[i] > id /\ rest[i] < reserved'
  <2>1. reserved' = reserved
    BY DEF PumpTurn
  <2> QED
    BY <1>4, <1>6, <2>1 DEF Inv, Alignment
<1>8. \A i, j \in DOMAIN rest : i < j => rest[i] < rest[j]
  BY <1>1, <1>6 DEF Inv, Alignment
<1>9. \A k \in (next + 1)..(reserved' - 1) :
        k \in {rest[i] : i \in DOMAIN rest} \cup cancelled
  <2> TAKE k \in (next + 1)..(reserved' - 1)
  <2>1. k \in next..(reserved - 1) /\ k > next
    BY <1>1 DEF PumpTurn
  <2>2. k \in Waiting \cup cancelled
    BY <2>1 DEF Inv, Alignment
  <2>3. ASSUME k \notin cancelled PROVE k \in {rest[i] : i \in DOMAIN rest}
    <3>1. PICK i \in DOMAIN queued : queued[i] = k
      BY <2>2, <2>3 DEF Waiting
    <3>2. i # 1
      BY <1>1, <1>2, <1>5, <2>1, <3>1
    <3>3. i - 1 \in DOMAIN rest /\ rest[i - 1] = k
      BY <1>1, <3>1, <3>2
    <3> QED
      BY <3>3
  <2> QED
    BY <2>3
<1>10. /\ StartTurn(id, rest) /\ reserved' \in Nat /\ made' \in 0..MaxTurns
       /\ crashes' = crashes
  BY <1>1 DEF PumpTurn, Inv, TypeOK
<1>11. Inv'
  <2> HIDE DEF id, rest
  <2> QED
    BY <1>2, <1>3, <1>5, <1>7, <1>8, <1>9, <1>10, StartKeepsInv DEF Fits
<1> QED
  BY <1>3, <1>11

\* turn.cancel of a queued turn: its id leaves the queue for the record of
\* cancelled ids, unless the model's count has passed it already.
LEMMA CancelQueuedKeepsInv ==
  ASSUME Inv, NEW p \in DOMAIN queued, CancelQueued(p)
  PROVE  Inv'
<1> DEFINE id == queued[p]
<1>1. /\ queued \in Seq(Nat) /\ next \in Nat /\ reserved \in Nat /\ cancelled \in SUBSET Nat
      /\ id \in Nat /\ floor \in Nat
  BY DEF Inv, TypeOK
<1>2. /\ queued' = RemoveAt(queued, p)
      /\ reserved' = reserved /\ active' = active /\ made' = made
      /\ floor' = floor /\ crashes' = crashes /\ Dispatch
  BY DEF CancelQueued
<1>3. /\ queued' \in Seq(Nat)
      /\ DOMAIN queued' = 1..(Len(queued) - 1)
      /\ \A i \in DOMAIN queued' :
           /\ queued'[i] = IF i < p THEN queued[i] ELSE queued[i + 1]
           /\ i \in DOMAIN queued /\ i + 1 \in DOMAIN queued
  <2>1. Len(queued) \in Nat /\ DOMAIN queued = 1..Len(queued) /\ Len(queued) > 0
    BY <1>1
  <2>2. \A i \in 1..(Len(queued) - 1) : i \in DOMAIN queued /\ i + 1 \in DOMAIN queued
    BY <2>1
  <2>3. \A i \in 1..(Len(queued) - 1) : (IF i < p THEN queued[i] ELSE queued[i + 1]) \in Nat
    BY <1>1, <2>2
  <2>4. RemoveAt(queued, p) \in Seq(Nat)
    BY <2>1, <2>3 DEF RemoveAt
  <2> QED
    BY <1>2, <2>1, <2>2, <2>4 DEF RemoveAt
<1>4. \A i \in DOMAIN queued' : queued'[i] >= floor' /\ queued'[i] < reserved'
  BY <1>2, <1>3 DEF Inv, Alignment
<1>5. \A i, j \in DOMAIN queued' : i < j => queued'[i] < queued'[j]
  <2> TAKE i, j \in DOMAIN queued'
  <2>1. ASSUME i < j PROVE queued'[i] < queued'[j]
    <3>1. /\ i \in Nat /\ j \in Nat /\ p \in Nat /\ i < j
          /\ i \in DOMAIN queued /\ i + 1 \in DOMAIN queued
          /\ j \in DOMAIN queued /\ j + 1 \in DOMAIN queued
      <4>1. p \in 1..Len(queued) /\ Len(queued) \in Nat
        BY <1>1
      <4>2. i \in 1..(Len(queued) - 1) /\ j \in 1..(Len(queued) - 1)
        BY <1>3
      <4> QED
        <5>1. i + 1 \in 1..Len(queued) /\ i \in 1..Len(queued) /\ j \in 1..Len(queued) /\ j + 1 \in 1..Len(queued)
          BY <4>1, <4>2
        <5>2. DOMAIN queued = 1..Len(queued)
          BY <1>1
        <5> QED
          BY <2>1, <4>1, <5>1, <5>2
    <3>2. \A a, b \in DOMAIN queued : a < b => queued[a] < queued[b]
      BY DEF Inv, Alignment
    <3>3. CASE j < p
      BY <1>3, <3>1, <3>2, <3>3
    <3>4. CASE ~(j < p) /\ i < p
      <4>1. i < j + 1
        BY <3>1
      <4> QED
        BY <1>3, <3>1, <3>2, <3>4, <4>1
    <3>5. CASE ~(i < p)
      <4>1. i + 1 < j + 1 /\ ~(j < p)
        BY <3>1, <3>5
      <4> QED
        BY <1>3, <3>1, <3>2, <3>5, <4>1
    <3> QED
      BY <3>3, <3>4, <3>5
  <2> QED
    BY <2>1
<1>6. \A k \in Waiting : k = id \/ k \in Waiting'
  <2> TAKE k \in Waiting
  <2>1. PICK i \in DOMAIN queued : queued[i] = k
    BY DEF Waiting
  <2>2. i \in 1..Len(queued) /\ p \in 1..Len(queued) /\ Len(queued) \in Nat
    BY <1>1
  <2>3. CASE i < p
    <3>1. i \in DOMAIN queued' /\ queued'[i] = k
      BY <1>3, <2>1, <2>2, <2>3
    <3> QED
      BY <3>1 DEF Waiting
  <2>4. CASE i = p
    BY <2>1, <2>4
  <2>5. CASE i > p
    <3>1. i - 1 \in DOMAIN queued' /\ ~(i - 1 < p) /\ (i - 1) + 1 = i
      BY <1>3, <2>2, <2>5
    <3>2. queued'[i - 1] = k
      BY <1>3, <2>1, <3>1
    <3> QED
      BY <3>1, <3>2 DEF Waiting
  <2> QED
    BY <2>2, <2>3, <2>4, <2>5
<1>7. CASE id < next
  <2>1. next' = next /\ cancelled' = cancelled
    BY <1>7 DEF CancelQueued, CancelTurn
  <2>5. Restored'
    <3>1. next \notin cancelled /\ floor <= next
      BY DEF Inv, Alignment
    <3> QED
      BY <1>1, <1>2, <2>1, <3>1, DispatchKeeps
  <2>2. TypeOK'
    BY <1>1, <1>2, <1>3, <2>1, <2>5 DEF Inv, TypeOK, Restored
  <2>3. \A k \in next'..(reserved' - 1) : k \in Waiting' \cup cancelled'
    BY <1>1, <1>2, <1>6, <1>7, <2>1 DEF Inv, Alignment
  <2>4. next' \notin cancelled' /\ floor' <= next' /\ (active' # NoTurn => active' < next')
    BY <1>2, <2>1 DEF Inv, Alignment
  <2> QED
    BY <1>4, <1>5, <2>2, <2>3, <2>4, <2>5 DEF Inv, Alignment, Restored
<1>8. CASE id >= next
  <2>1. AdvanceTurnClock(next, cancelled \cup {id})
    BY <1>1, <1>8 DEF CancelQueued, CancelTurn
  <2>2. /\ next' \in Nat /\ next' >= next /\ next' \notin cancelled \cup {id}
        /\ cancelled' = {c \in cancelled \cup {id} : c >= next'}
    BY <1>1, <2>1, AdvanceSkips
  <2>6. Restored'
    <3>1. cancelled' \subseteq Nat /\ next' \notin cancelled'
      BY <1>1, <2>2
    <3>2. floor' \in Nat /\ floor' <= next'
      BY <1>1, <1>2, <2>2 DEF Inv, Alignment
    <3> QED
      BY <1>2, <2>2, <3>1, <3>2, DispatchKeeps
  <2>3. TypeOK'
    BY <1>1, <1>2, <1>3, <2>2, <2>6 DEF Inv, TypeOK, Restored
  <2>4. \A k \in next'..(reserved' - 1) : k \in Waiting' \cup cancelled'
    <3> TAKE k \in next'..(reserved' - 1)
    <3>1. k \in next..(reserved - 1) /\ k >= next'
      BY <1>1, <1>2, <2>2
    <3>2. k \in Waiting \cup cancelled
      BY <3>1 DEF Inv, Alignment
    <3> QED
      BY <1>6, <2>2, <3>1, <3>2
  <2>5. next' \notin cancelled' /\ floor' <= next' /\ (active' # NoTurn => active' < next')
    BY <1>1, <1>2, <2>2 DEF Inv, TypeOK, Alignment
  <2> QED
    BY <1>4, <1>5, <2>3, <2>4, <2>5, <2>6 DEF Inv, Alignment, Restored
<1> QED
  BY <1>1, <1>7, <1>8

\* Every step of the clock keeps the invariant and lets ids only ascend.
LEMMA StepKeepsInv ==
  ASSUME Inv, [Next]_vars
  PROVE  Inv' /\ (Starts => active' >= floor)
<1>1. CASE AdmitTurn
  <2>1. Inv'
    BY <1>1, AdmitKeepsInv
  <2>2. Starts => active' = ReservedId
    BY <1>1 DEF AdmitTurn, StartTurn, Starts
  <2>3. ReservedId >= floor
    BY ReservedIsFresh DEF Inv, TypeOK, Alignment
  <2> QED
    BY <2>1, <2>2, <2>3
<1>2. CASE EndTurn
  BY <1>2 DEF EndTurn, Starts, Inv, TypeOK, Alignment, Waiting, model
<1>3. CASE PumpTurn
  BY <1>3, PumpKeepsInv DEF PumpTurn, StartTurn
<1>4. CASE CancelActive
  <2>1. active < next /\ active \in Nat /\ next \in Nat
    BY <1>4 DEF CancelActive, Inv, TypeOK, Alignment
  <2>2. UNCHANGED vars
    <3>1. UNCHANGED <<next, cancelled, reserved, queued, active, made, floor, crashes>>
      BY <1>4, <2>1 DEF CancelActive, CancelTurn
    <3>2. restorable' = restorable
      BY <1>4, <3>1 DEF CancelActive, Dispatch, Inv, model
    <3> QED
      BY <3>1, <3>2 DEF vars
  <2> QED
    BY <2>2 DEF vars, Starts, Inv, TypeOK, Alignment, Waiting, model
<1>5. CASE \E i \in DOMAIN queued : CancelQueued(i)
  <2>1. active' = active
    BY <1>5 DEF CancelQueued
  <2> QED
    BY <1>5, <2>1, CancelQueuedKeepsInv DEF Starts
<1>6. CASE LoopEvent
  <2>1. active < next /\ active \in Nat /\ next \in Nat
    BY <1>6 DEF LoopEvent, Inv, TypeOK, Alignment
  <2>2. UNCHANGED vars
    <3>1. UNCHANGED <<next, cancelled, reserved, queued, active, made, floor, crashes>>
      BY <1>6, <2>1 DEF LoopEvent
    <3>2. restorable' = restorable
      BY <1>6, <3>1 DEF LoopEvent, Dispatch, Inv, model
    <3> QED
      BY <3>1, <3>2 DEF vars
  <2> QED
    BY <2>2 DEF vars, Starts, Inv, TypeOK, Alignment, Waiting, model
<1>7. CASE Flush
  <2>1. UNCHANGED <<next, cancelled, reserved, queued, active, made, floor, crashes>>
    BY <1>7 DEF Flush
  <2>2. model \in restorable /\ restorable' = {model} /\ model' = model
    BY <1>7, <2>1 DEF Flush, Inv, model
  <2> QED
    BY <2>1, <2>2 DEF Starts, Inv, TypeOK, Alignment, Waiting
<1>8. CASE Crash
  <2>1. PICK m \in restorable :
          next' = m[1] /\ cancelled' = m[2] /\ floor' = m[3] /\ restorable' = {m}
    BY <1>8 DEF Crash
  <2>2. /\ m \in Nat \X (SUBSET Nat) \X Nat
        /\ m[1] \notin m[2] /\ m[3] <= m[1]
    BY DEF Inv, TypeOK, Alignment
  <2>3. /\ reserved' = 0 /\ queued' = <<>> /\ active' = NoTurn /\ made' = made
        /\ crashes' \in 0..MaxCrashes
    BY <1>8, ClockAssumption DEF Crash, Inv, TypeOK
  <2>4. m = <<next', cancelled', floor'>>
    BY <2>1, <2>2
  <2>5. TypeOK'
    BY <2>1, <2>2, <2>3 DEF Inv, TypeOK
  <2>6. Alignment'
    <3>1. /\ next' \in Nat /\ next' \notin cancelled' /\ floor' <= next'
          /\ \A n \in restorable' : n[1] \notin n[2] /\ n[3] <= n[1]
      BY <2>1, <2>2
    <3> QED
      BY <2>3, <3>1 DEF Alignment
  <2>7. model' \in restorable'
    BY <2>1, <2>4 DEF model
  <2> QED
    BY <2>3, <2>5, <2>6, <2>7 DEF Starts, Inv
<1>9. CASE UNCHANGED vars
  BY <1>9 DEF vars, Starts, Inv, TypeOK, Alignment, Waiting, model
<1> QED
  BY <1>1, <1>2, <1>3, <1>4, <1>5, <1>6, <1>7, <1>8, <1>9 DEF Next

\* A TurnModel and a loop that have just been constructed are aligned.
LEMMA InitInv ==
  ASSUME Init
  PROVE  Inv
<1>1. restorable = {<<0, {}, 0>>} /\ model = <<0, {}, 0>>
  BY DEF Init, model
<1> QED
  BY <1>1, ClockAssumption DEF Init, Inv, TypeOK, Alignment, Waiting

\* The state of the clock is well typed, and reservations and the model's count stay
\* aligned, for any number of turns, cancellations and crashes and wherever each
\* crash cuts the log.
THEOREM Aligned == Spec => [](TypeOK /\ Alignment)
<1>1. Init => Inv
  BY InitInv
<1>2. Inv /\ [Next]_vars => Inv'
  BY StepKeepsInv
<1>3. Inv => TypeOK /\ Alignment
  BY DEF Inv
<1> QED
  BY <1>1, <1>2, <1>3, PTL DEF Spec

\* The types of the clock.
THEOREM TypeCorrect == Spec => []TypeOK
BY Aligned, PTL

\* A turn never starts under the id of an earlier one of which the log has a record,
\* and the model's count stays ahead of those, wherever a crash cuts the log.
THEOREM IdsOnlyAscend == Spec => IdsAscend
<1>1. Init => Inv
  BY InitInv
<1>2. Inv /\ [Next]_vars => Inv'
  BY StepKeepsInv
<1>3. Inv /\ [Next]_vars => [(Starts => active' >= floor) /\ floor' <= next']_vars
  BY StepKeepsInv DEF Inv, Alignment
<1> QED
  BY <1>1, <1>2, <1>3, PTL DEF Spec, IdsAscend

-----------------------------------------------------------------------------
(* The count of the reducer and the ids of the loop, until a crash.         *)

\* Before a crash the model's count has not passed an id that is queued, an id that
\* is queued is not recorded as cancelled, and only ids reserved before are.  A crash
\* forgets the reservations but not the cancelled ids, so that afterwards an id
\* recorded as cancelled can be reserved again.
Unpassed ==
  crashes = 0 =>
    /\ \A i \in DOMAIN queued : queued[i] >= next /\ queued[i] \notin cancelled
    /\ \A c \in cancelled : c < reserved

\* startTurn() passes the id it starts and cancelled ones only.
LEMMA StartKeepsUnpassed ==
  ASSUME Inv, Unpassed, NEW id \in Nat, NEW rest \in Seq(Nat), StartTurn(id, rest),
         crashes' = crashes, reserved' \in Nat, reserved' >= reserved,
         \A i \in DOMAIN rest :
           rest[i] > next /\ (crashes = 0 => rest[i] \notin cancelled)
  PROVE  Unpassed'
<1>1. /\ next \in Nat /\ cancelled \in SUBSET Nat /\ reserved \in Nat
  BY DEF Inv, TypeOK
<1>2. /\ next' \in Nat /\ next' >= next + 1 /\ next' \notin cancelled
      /\ \A k \in (next + 1)..(next' - 1) : k \in cancelled
      /\ cancelled' = {c \in cancelled : c >= next'}
  BY <1>1, AdvanceSkips DEF StartTurn
<1>3. queued' = rest
  BY DEF StartTurn
<1>4. SUFFICES ASSUME crashes = 0
               PROVE  /\ \A i \in DOMAIN rest : rest[i] >= next' /\ rest[i] \notin cancelled'
                      /\ \A c \in cancelled' : c < reserved'
  BY <1>3 DEF Unpassed
<1>5. ASSUME NEW i \in DOMAIN rest
      PROVE  rest[i] >= next' /\ rest[i] \notin cancelled'
  <2>1. PICK x \in Nat : x = rest[i] /\ x > next /\ x \notin cancelled
    BY <1>4
  <2>2. x \notin (next + 1)..(next' - 1)
    BY <1>2, <2>1
  <2>3. x >= next'
    BY <1>1, <1>2, <2>1, <2>2
  <2> QED
    BY <1>2, <2>1, <2>3
<1>6. ASSUME NEW c \in cancelled'
      PROVE  c < reserved'
  BY <1>1, <1>2, <1>4 DEF Unpassed
<1> QED
  BY <1>5, <1>6

\* createPendingTurn(): the id reserved is not recorded as cancelled.
LEMMA AdmitKeepsUnpassed ==
  ASSUME Inv, Unpassed, AdmitTurn
  PROVE  Unpassed'
<1>1. /\ ReservedId \in Nat /\ ReservedId >= next /\ ReservedId >= reserved
  BY ReservedIsFresh
<1>2. /\ next \in Nat /\ reserved \in Nat /\ queued \in Seq(Nat) /\ cancelled \in SUBSET Nat
      /\ next \notin cancelled
  BY DEF Inv, TypeOK, Alignment
<1>3. /\ reserved' = ReservedId + 1 /\ crashes' = crashes
  BY DEF AdmitTurn
<1>4. CASE active = NoTurn /\ queued = <<>>
  <2>1. PICK rest : rest = <<>>
    OBVIOUS
  <2>2. rest \in Seq(Nat)
    BY <2>1
  <2>3. StartTurn(ReservedId, rest) /\ \A i \in DOMAIN rest : FALSE
    BY <1>4, <2>1 DEF AdmitTurn
  <2>4. reserved' \in Nat /\ reserved' >= reserved
    BY <1>1, <1>2, <1>3
  <2> QED
    BY <1>1, <1>3, <2>2, <2>3, <2>4, StartKeepsUnpassed
<1>5. CASE ~(active = NoTurn /\ queued = <<>>)
  <2>1. queued' = Append(queued, ReservedId) /\ next' = next /\ cancelled' = cancelled
    BY <1>5 DEF AdmitTurn
  <2>2. SUFFICES ASSUME crashes = 0
                 PROVE  /\ \A i \in DOMAIN queued' : queued'[i] >= next /\ queued'[i] \notin cancelled
                        /\ \A c \in cancelled : c < reserved'
    BY <1>3, <2>1 DEF Unpassed
  <2>3. ReservedId \notin cancelled
    BY <1>2, <2>2 DEF Unpassed, ReservedId
  <2>4. \A i \in DOMAIN queued' : queued'[i] = ReservedId \/ (i \in DOMAIN queued /\ queued'[i] = queued[i])
    BY <1>1, <1>2, <2>1
  <2>5. \A c \in cancelled : c < reserved'
    BY <1>1, <1>2, <1>3, <2>2 DEF Unpassed
  <2> QED
    BY <1>1, <2>2, <2>3, <2>4, <2>5 DEF Unpassed
<1> QED
  BY <1>4, <1>5

\* pumpTurns(): the ids behind the oldest are past the count it leaves.
LEMMA PumpKeepsUnpassed ==
  ASSUME Inv, Unpassed, PumpTurn
  PROVE  Unpassed' /\ (crashes = 0 => Head(queued) = next)
<1>1. /\ queued \in Seq(Nat) /\ queued # <<>> /\ next \in Nat /\ reserved \in Nat
      /\ next \notin cancelled
  BY DEF Inv, TypeOK, Alignment, PumpTurn
<1>2. PICK rest : rest = Tail(queued)
  OBVIOUS
<1>3. rest \in Seq(Nat)
  BY <1>1, <1>2
<1>4. PICK id \in Nat : id = Head(queued) /\ id = queued[1] /\ 1 \in DOMAIN queued
  BY <1>1
<1>5. \A i \in DOMAIN rest : i + 1 \in DOMAIN queued /\ rest[i] = queued[i + 1] /\ 1 < i + 1
  BY <1>1, <1>2
<1>6. \A i \in DOMAIN queued : i # 1 => queued[i] > id
  BY <1>1, <1>4 DEF Inv, Alignment
<1>7. id < reserved
  BY <1>4 DEF Inv, Alignment
<1>8. id <= next
  <2>1. SUFFICES ASSUME id > next
                 PROVE  FALSE
    BY <1>1
  <2>2. next \in Waiting
    BY <1>1, <1>7, <2>1 DEF Inv, Alignment
  <2>3. PICK i \in DOMAIN queued : queued[i] = next
    BY <2>2 DEF Waiting
  <2> QED
    BY <1>1, <1>4, <1>6, <2>1, <2>3
<1>9. crashes = 0 => id = next
  BY <1>1, <1>4, <1>8 DEF Unpassed
<1>10. StartTurn(id, rest) /\ crashes' = crashes /\ reserved' = reserved
  BY <1>2, <1>4 DEF PumpTurn
<1>11. CASE crashes = 0
  <2>1. \A i \in DOMAIN rest : rest[i] > next /\ rest[i] \notin cancelled
    BY <1>5, <1>6, <1>9, <1>11 DEF Unpassed
  <2>2. reserved' \in Nat /\ reserved' >= reserved
    BY <1>1, <1>10
  <2> QED
    BY <1>4, <1>9, <1>10, <1>3, <2>1, <2>2, StartKeepsUnpassed
<1>12. CASE crashes # 0
  BY <1>10, <1>12 DEF Unpassed
<1> QED
  BY <1>11, <1>12

\* A number at or past a, and outside what lies between a and b, is at or past b.
LEMMA Passed ==
  ASSUME NEW a \in Nat, NEW b \in Nat, NEW x \in Nat, NEW S, x >= a, x \notin S,
         \A k \in a..(b - 1) : k \in S
  PROVE  x >= b
OBVIOUS

\* turn.cancel of a queued turn: the ids that stay queued differ from the one that is
\* recorded, and the count passes only ids that are recorded.
LEMMA CancelQueuedKeepsUnpassed ==
  ASSUME Inv, Unpassed, NEW p \in DOMAIN queued, CancelQueued(p)
  PROVE  Unpassed'
<1>1. /\ queued \in Seq(Nat) /\ next \in Nat /\ reserved \in Nat /\ cancelled \in SUBSET Nat
  BY DEF Inv, TypeOK
<1>2. PICK id \in Nat : id = queued[p]
  BY <1>1
<1>3. /\ queued' = RemoveAt(queued, p) /\ CancelTurn(id)
      /\ reserved' = reserved /\ crashes' = crashes
  BY <1>2 DEF CancelQueued
<1>4. SUFFICES ASSUME crashes = 0
               PROVE  /\ \A i \in DOMAIN queued' : queued'[i] >= next' /\ queued'[i] \notin cancelled'
                      /\ \A c \in cancelled' : c < reserved
  BY <1>3 DEF Unpassed
<1>5. id >= next /\ id < reserved
  BY <1>2, <1>4 DEF Unpassed, Inv, Alignment
<1>6. AdvanceTurnClock(next, cancelled \cup {id})
  BY <1>1, <1>3, <1>5 DEF CancelTurn
<1>7. /\ next' \in Nat /\ next' >= next
      /\ \A k \in next..(next' - 1) : k \in cancelled \cup {id}
      /\ cancelled' = {c \in cancelled \cup {id} : c >= next'}
  BY <1>1, <1>6, AdvanceSkips
<1>8. ASSUME NEW i \in DOMAIN queued'
      PROVE  \E j \in DOMAIN queued : j # p /\ queued'[i] = queued[j]
  <2>1. /\ p \in 1..Len(queued) /\ Len(queued) \in Nat /\ DOMAIN queued = 1..Len(queued)
        /\ i \in 1..(Len(queued) - 1)
        /\ queued'[i] = IF i < p THEN queued[i] ELSE queued[i + 1]
    BY <1>1, <1>3 DEF RemoveAt
  <2>2. CASE i < p
    BY <2>1, <2>2
  <2>3. CASE ~(i < p)
    <3>1. i + 1 \in DOMAIN queued /\ i + 1 # p
      BY <2>1, <2>3
    <3> QED
      BY <2>1, <2>3, <3>1
  <2> QED
    BY <2>2, <2>3
<1>9. ASSUME NEW i \in DOMAIN queued'
      PROVE  queued'[i] >= next' /\ queued'[i] \notin cancelled'
  <2>1. PICK j \in DOMAIN queued : j # p /\ queued'[i] = queued[j]
    BY <1>8
  <2>2. PICK x \in Nat : x = queued'[i] /\ x = queued[j]
    BY <1>1, <2>1
  <2>3. x # id
    <3>1. j < p \/ p < j
      BY <1>1, <2>1
    <3> QED
      BY <1>1, <1>2, <2>2, <3>1 DEF Inv, Alignment
  <2>4. x >= next /\ x \notin cancelled \cup {id}
    BY <1>4, <2>2, <2>3 DEF Unpassed
  <2>5. next \in Nat /\ next' \in Nat /\ x >= next
    BY <1>1, <1>7, <2>4
  <2>6. x >= next'
    BY <1>7, <2>4, <2>5, Passed
  <2>7. x \notin cancelled'
    BY <1>7, <2>4
  <2> QED
    BY <2>2, <2>6, <2>7
<1>10. ASSUME NEW c \in cancelled'
       PROVE  c < reserved
  BY <1>4, <1>5, <1>7 DEF Unpassed
<1> QED
  BY <1>9, <1>10

\* Every step keeps the count from passing queued ids, and starts a turn under it.
LEMMA StepKeepsUnpassed ==
  ASSUME Inv, Unpassed, [Next]_vars
  PROVE  Unpassed' /\ (Starts /\ crashes = 0 => active' = next)
<1>1. CASE AdmitTurn
  <2>1. Unpassed'
    BY <1>1, AdmitKeepsUnpassed
  <2>2. ASSUME Starts
        PROVE  active' = next
    <3>1. queued = <<>> /\ active' = ReservedId
      BY <1>1, <2>2 DEF AdmitTurn, StartTurn, Starts
    <3>2. Waiting = {}
      BY <3>1 DEF Waiting
    <3>3. next \in Nat /\ next \notin cancelled
      BY DEF Inv, TypeOK, Alignment
    <3> QED
      BY <3>1, <3>2, <3>3, ReservedIsFresh
  <2> QED
    BY <2>1, <2>2
<1>2. CASE EndTurn
  BY <1>2 DEF EndTurn, Starts, Unpassed
<1>3. CASE PumpTurn
  BY <1>3, PumpKeepsUnpassed DEF PumpTurn, StartTurn
<1>4. CASE CancelActive
  <2>1. active < next /\ active \in Nat /\ next \in Nat
    BY <1>4 DEF CancelActive, Inv, TypeOK, Alignment
  <2>2. UNCHANGED vars
    <3>1. UNCHANGED <<next, cancelled, reserved, queued, active, made, floor, crashes>>
      BY <1>4, <2>1 DEF CancelActive, CancelTurn
    <3>2. restorable' = restorable
      BY <1>4, <3>1 DEF CancelActive, Dispatch, Inv, model
    <3> QED
      BY <3>1, <3>2 DEF vars
  <2> QED
    BY <2>2 DEF vars, Starts, Unpassed
<1>5. CASE \E i \in DOMAIN queued : CancelQueued(i)
  <2>1. active' = active
    BY <1>5 DEF CancelQueued
  <2> QED
    BY <1>5, <2>1, CancelQueuedKeepsUnpassed DEF Starts
<1>6. CASE LoopEvent
  <2>1. active < next /\ active \in Nat /\ next \in Nat
    BY <1>6 DEF LoopEvent, Inv, TypeOK, Alignment
  <2>2. UNCHANGED vars
    <3>1. UNCHANGED <<next, cancelled, reserved, queued, active, made, floor, crashes>>
      BY <1>6, <2>1 DEF LoopEvent
    <3>2. restorable' = restorable
      BY <1>6, <3>1 DEF LoopEvent, Dispatch, Inv, model
    <3> QED
      BY <3>1, <3>2 DEF vars
  <2> QED
    BY <2>2 DEF vars, Starts, Unpassed
<1>7. CASE Crash
  <2>1. crashes' # 0 /\ active' = NoTurn
    BY <1>7 DEF Crash, Inv, TypeOK
  <2> QED
    BY <2>1 DEF Starts, Unpassed
<1>8. CASE Flush
  BY <1>8 DEF Flush, Starts, Unpassed
<1>9. CASE UNCHANGED vars
  BY <1>9 DEF vars, Starts, Unpassed
<1> QED
  BY <1>1, <1>2, <1>3, <1>4, <1>5, <1>6, <1>7, <1>8, <1>9 DEF Next

\* Until the process crashes each turn starts under the id that the records counted,
\* whichever queued turns were cancelled: records without an id go to the right turn.
THEOREM CountKept == Spec => CountIsId
<1>1. Init => Inv /\ Unpassed
  BY InitInv DEF Init, Unpassed
<1>2. Inv /\ Unpassed /\ [Next]_vars => (Inv /\ Unpassed)'
  BY StepKeepsInv, StepKeepsUnpassed
<1>3. Inv /\ Unpassed /\ [Next]_vars => [Starts /\ crashes = 0 => active' = next]_vars
  BY StepKeepsUnpassed
<1> QED
  BY <1>1, <1>2, <1>3, PTL DEF Spec, CountIsId
=============================================================================
