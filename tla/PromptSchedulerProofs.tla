------------------------ MODULE PromptSchedulerProofs ------------------------
(***************************************************************************)
(* For any number of prompts, turns and compactions: prompts run one at a  *)
(* time and in order, every prompt is in one place until it is settled,    *)
(* and its launch is answered by then.                                     *)
(***************************************************************************)
EXTENDS PromptScheduler, FilteringProofs, FiniteSetTheorems

\* The types that the argument needs.
Types ==
  /\ count \in 0..MaxPrompts /\ item \in 0..MaxPrompts /\ active \in 0..MaxPrompts
  /\ pending \in Seq(Prompts)
  /\ state \in [Prompts -> States \cup {"none"}]
  /\ launched \in [Prompts -> {"open", "turn", "undefined"}]
  /\ completion \in [Prompts -> Final \cup {"open"}]
  /\ steered \in [Prompts -> SUBSET Prompts]
  /\ turnOf = [p \in Prompts |-> turnOf[p]]
  /\ pc \in {"idle", "start", "hook", "admit", "assigned"}

\* The guard of startNext(): one prompt is launched or active, never both.
OneSlot ==
  /\ active = 0 \/ item = 0
  /\ pc = "start" => active = 0
  /\ item # 0 <=> pc \in {"hook", "admit", "assigned"}

\* Only the prompt in the slot has a turn that is not over, and only once it was
\* admitted.
TurnOfSlot ==
  /\ \A p \in Prompts :
       turnOf[p] # 0 /\ turnOf[p] \notin over => p = active \/ (p = item /\ pc = "assigned")
  /\ item # 0 /\ pc # "assigned" => turnOf[item] = 0

\* A prompt is known to the scheduler only once it was enqueued.
Known ==
  /\ Elems(pending) \cup steering \cup lost \subseteq 1..count
  /\ item <= count /\ active <= count
  /\ \A p \in Prompts : turnOf[p] # 0 \/ completion[p] # "open" => p <= count
  /\ \A p \in Prompts : steered[p] \subseteq 1..count

\* Whoever is active, or was steered into it, has had its launch answered.
Answered ==
  /\ active # 0 => launched[active] # "open"
  /\ \A p \in Prompts : \A q \in steered[p] : launched[q] # "open"

\* The steered prompts of a prompt are settled with it.
SteeredIntoActive == \A p \in Prompts : p # active => steered[p] = {}

\* The six places exclude each other, and hold exactly what is not settled.
Apart ==
  \A p \in 1..count :
    LET inPending == p \in Elems(pending)
        isItem == p = item
        isActive == p = active
        inSteered == active # 0 /\ p \in steered[active]
        inSteering == p \in steering
        isLost == p \in lost
    IN  /\ completion[p] = "open" <=>
             inPending \/ isItem \/ isActive \/ inSteered \/ inSteering \/ isLost
        /\ inPending => ~isItem /\ ~isActive /\ ~inSteered /\ ~inSteering /\ ~isLost
        /\ isItem => ~isActive /\ ~inSteered /\ ~inSteering /\ ~isLost
        /\ isActive => ~inSteered /\ ~inSteering /\ ~isLost
        /\ inSteered => ~inSteering /\ ~isLost
        /\ inSteering => ~isLost

Inv ==
  /\ Types /\ OneSlot /\ TurnOfSlot /\ Known /\ InOrder
  /\ Answered /\ LaunchAnswered /\ SteeredIntoActive /\ Apart

\* Elements of the queue.
LEMMA PendingElems ==
  ASSUME Types
  PROVE  /\ Elems(pending) \subseteq Prompts
         /\ DOMAIN pending = 1..Len(pending) /\ Len(pending) \in Nat
         /\ \A i \in 1..Len(pending) : pending[i] \in Prompts /\ pending[i] \in Elems(pending)
BY DEF Types, Elems

\* A scheduler that has just been constructed satisfies the invariant.
LEMMA InitInv ==
  ASSUME Init
  PROVE  Inv
<1>1. Elems(pending) = {} /\ DOMAIN pending = {} /\ pending \in Seq(Prompts)
  BY DEF Init, Elems
<1>2. Types
  BY <1>1, SchedulerAssumption DEF Init, Types, Prompts
<1>3. OneSlot /\ TurnOfSlot /\ Known
  BY <1>1 DEF Init, OneSlot, TurnOfSlot, Known, Prompts
<1>4. InOrder /\ Answered /\ LaunchAnswered /\ SteeredIntoActive
  BY <1>1 DEF Init, InOrder, Answered, LaunchAnswered, SteeredIntoActive
<1>5. Apart
  BY <1>1 DEF Init, Apart
<1> QED
  BY <1>2, <1>3, <1>4, <1>5 DEF Inv

\* The loop and compactions go on by themselves: turns end and never come back.
LEMMA OutsideKeepsInv ==
  ASSUME Inv, UNCHANGED promptVars, over \subseteq over'
  PROVE  Inv'
<1>1. Types' /\ OneSlot' /\ Known' /\ InOrder' /\ Answered'
  BY DEF promptVars, Inv, Types, OneSlot, Known, InOrder, Answered
<1>2. LaunchAnswered' /\ SteeredIntoActive' /\ Apart'
  BY DEF promptVars, Inv, LaunchAnswered, SteeredIntoActive, Apart
<1>3. TurnOfSlot'
  BY DEF promptVars, Inv, TurnOfSlot
<1> QED
  BY <1>1, <1>2, <1>3 DEF Inv

\* A call of startNext() that a compaction's end makes.
LEMMA CallKeepsInv ==
  ASSUME Inv, CanRun, CallStartNext(active, item),
         UNCHANGED <<count, state, launched, completion, pending, active, steered, item,
                     steering, into, lost, turnOf, loopVars>>
  PROVE  Inv'
<1>1. /\ pc' = IF active = 0 /\ item = 0 THEN "start" ELSE pc
      /\ pc # "start" /\ over' = over
  BY DEF CallStartNext, MayStart, CanRun, loopVars
<1>2. OneSlot' /\ TurnOfSlot' /\ Types'
  BY <1>1 DEF Inv, OneSlot, TurnOfSlot, Types
<1>3. Known' /\ InOrder' /\ Answered' /\ LaunchAnswered' /\ SteeredIntoActive' /\ Apart'
  BY DEF Inv, Known, InOrder, Answered, LaunchAnswered, SteeredIntoActive, Apart
<1> QED
  BY <1>2, <1>3 DEF Inv

\* enqueue(): a prompt that is younger than all others.
LEMMA EnqueueKeepsInv ==
  ASSUME Inv, Enqueue
  PROVE  Inv'
<1> DEFINE p == count + 1
<1>1. /\ count \in Nat /\ p \in Prompts /\ count' = p /\ pc # "start"
      /\ pending' = Append(pending, p) /\ state' = [state EXCEPT ![p] = "pending"]
      /\ pc' = pc \/ pc' = IF active = 0 /\ item = 0 THEN "start" ELSE pc
      /\ UNCHANGED <<launched, completion, active, steered, item, steering, lost, turnOf, over>>
  BY SchedulerAssumption
  DEF Enqueue, Push, CanRun, CallStartNext, MayStart, Inv, Types, Prompts, loopVars
<1>2. /\ pending' \in Seq(Prompts) /\ Elems(pending') = Elems(pending) \cup {p}
      /\ \A i, j \in DOMAIN pending' : i < j => pending'[i] < pending'[j]
  <2>1. /\ pending \in Seq(Prompts) /\ Len(pending) \in Nat
        /\ \A i \in 1..Len(pending) : pending[i] \in Nat /\ pending[i] < p
    BY <1>1, PendingElems DEF Inv, Types, Known, Prompts
  <2>2. /\ pending' \in Seq(Prompts) /\ DOMAIN pending' = 1..(Len(pending) + 1)
        /\ pending'[Len(pending) + 1] = p /\ \A i \in 1..Len(pending) : pending'[i] = pending[i]
    BY <1>1, <2>1
  <2>3. Elems(pending') = Elems(pending) \cup {p}
    BY <2>1, <2>2 DEF Elems
  <2>4. \A i, j \in DOMAIN pending' : i < j => pending'[i] < pending'[j]
    BY <2>1, <2>2 DEF Inv, InOrder
  <2> QED
    BY <2>2, <2>3, <2>4
<1>3. Types'
  BY <1>1, <1>2 DEF Inv, Types, Prompts, States
<1>4. OneSlot' /\ TurnOfSlot' /\ Answered' /\ LaunchAnswered' /\ SteeredIntoActive'
  BY <1>1 DEF Inv, OneSlot, TurnOfSlot, Answered, LaunchAnswered, SteeredIntoActive
<1>5. Known'
  BY <1>1, <1>2 DEF Inv, Known, Types, Prompts
<1>6. InOrder'
  BY <1>1, <1>2 DEF Inv, InOrder, Known, Types, Prompts
<1>7. Apart'
  <2>1. /\ p \notin Elems(pending) /\ p # item /\ p # active /\ p \notin steering /\ p \notin lost
        /\ completion[p] = "open"
    BY <1>1 DEF Inv, Known, Types, Prompts
  <2>2. active # 0 => p \notin steered[active]
    <3>1. active # 0 => launched[active] # "open" /\ \A q \in steered[active] : q \in 1..count
      BY DEF Inv, Answered, Types, Prompts, Known
    <3> QED
      BY <1>1, <3>1
  <2>3. 1..count' = 1..count \cup {p}
    BY <1>1
  <2> QED
    BY <1>1, <1>2, <2>1, <2>2, <2>3 DEF Inv, Apart
<1> QED
  BY <1>3, <1>4, <1>5, <1>6, <1>7 DEF Inv

\* startNext() takes the oldest prompt, which has had no turn.
LEMMA StartNextKeepsInv ==
  ASSUME Inv, StartNext
  PROVE  Inv'
<1>1. pc = "start" /\ item = 0 /\ active = 0 /\ over' = over
  BY DEF StartNext, Inv, OneSlot, loopVars
<1>2. CASE pending = <<>> /\ pc' = "idle" /\ UNCHANGED <<pending, item>>
  <2>1. UNCHANGED <<count, state, launched, completion, pending, active, steered, item, steering,
                    lost, turnOf, over>> /\ pc' = "idle"
    BY <1>1, <1>2 DEF StartNext
  <2>2. Types' /\ OneSlot' /\ TurnOfSlot'
    BY <1>1, <2>1 DEF Inv, Types, OneSlot, TurnOfSlot
  <2>3. Known' /\ InOrder' /\ Answered' /\ LaunchAnswered' /\ SteeredIntoActive' /\ Apart'
    BY <2>1 DEF Inv, Known, InOrder, Answered, LaunchAnswered, SteeredIntoActive, Apart
  <2> QED
    BY <2>2, <2>3 DEF Inv
<1>3. CASE pending # <<>> /\ item' = Head(pending) /\ pending' = Tail(pending) /\ pc' = "hook"
  <2> DEFINE h == Head(pending)
  <2>1. /\ UNCHANGED <<count, state, launched, completion, active, steered, steering, lost,
                       turnOf, over>>
        /\ item' = h /\ pending' = Tail(pending) /\ pc' = "hook"
    BY <1>1, <1>3 DEF StartNext
  <2>2. /\ pending \in Seq(Prompts) /\ Len(pending) \in Nat /\ Len(pending) > 0
        /\ h = pending[1] /\ h \in Prompts /\ h \in Elems(pending)
        /\ \A i \in 1..Len(pending) : pending[i] \in Prompts
        /\ \A i, j \in 1..Len(pending) : i < j => pending[i] < pending[j]
    BY <1>3, PendingElems DEF Inv, Types, InOrder
  <2>3. /\ pending' \in Seq(Prompts) /\ DOMAIN pending' = 1..(Len(pending) - 1)
        /\ \A i \in 1..(Len(pending) - 1) : pending'[i] = pending[i + 1]
    BY <2>1, <2>2
  <2>4. pending \in Seq(Nat) /\ pending # <<>>
    BY <1>3, <2>2 DEF Prompts
  <2>5. Elems(pending') = Elems(pending) \ {h} /\ \A q \in Elems(pending') : h < q
    BY <2>1, <2>2, <2>4, TailAscends
  <2>6. Types' /\ OneSlot'
    BY <1>1, <2>1, <2>2, <2>3 DEF Inv, Types, OneSlot, Prompts
  <2>7. turnOf[h] = 0
    BY <2>2 DEF Inv, InOrder, Prompts
  <2>8. TurnOfSlot'
    BY <1>1, <2>1, <2>7 DEF Inv, TurnOfSlot
  <2>9. Known'
    BY <2>1, <2>2, <2>5 DEF Inv, Known, Types, Prompts
  <2>10. InOrder'
    <3>1. \A i, j \in DOMAIN pending' : i < j => pending'[i] < pending'[j]
      BY <2>2, <2>3
    <3> QED
      BY <1>1, <2>1, <2>5, <3>1 DEF Inv, InOrder
  <2>11. Answered' /\ LaunchAnswered' /\ SteeredIntoActive'
    BY <2>1 DEF Inv, Answered, LaunchAnswered, SteeredIntoActive
  <2>12. Apart'
    BY <1>1, <2>1, <2>2, <2>5 DEF Inv, Apart, Prompts
  <2> QED
    BY <2>6, <2>8, <2>9, <2>10, <2>11, <2>12 DEF Inv
<1> QED
  BY <1>2, <1>3 DEF StartNext

\* A launch that ends without a turn frees the slot.
LEMMA LaunchEndsKeepsInv ==
  ASSUME Inv, NEW s \in Final, pc \in {"hook", "admit"}, LaunchEnds(s)
  PROVE  Inv'
<1>1. /\ item \in Prompts /\ active = 0 /\ item' = 0 /\ pc' = "start"
      /\ turnOf[item] = 0
      /\ UNCHANGED <<count, pending, active, steered, steering, lost, turnOf, over>>
  BY DEF Inv, Types, OneSlot, TurnOfSlot, LaunchEnds, CallStartNext, MayStart, loopVars, Prompts
<1>2. /\ state' = [p \in Prompts |-> IF p = item THEN s ELSE state[p]]
      /\ completion' = [p \in Prompts |-> IF p = item THEN s ELSE completion[p]]
      /\ launched' = [p \in Prompts |-> IF p = item /\ launched[p] = "open"
                                          THEN "undefined" ELSE launched[p]]
  BY DEF LaunchEnds, Complete, Launch
<1>3. s # "open" /\ s \in States
  BY DEF Final, States
<1>4. Types'
  BY <1>1, <1>2, <1>3 DEF Inv, Types, Prompts
<1>5. OneSlot' /\ TurnOfSlot' /\ SteeredIntoActive'
  BY <1>1 DEF Inv, OneSlot, TurnOfSlot, SteeredIntoActive, Prompts
<1>6. Known'
  BY <1>1, <1>2 DEF Inv, Known, Types, Prompts
<1>7. InOrder'
  BY <1>1 DEF Inv, InOrder, Prompts
<1>8. Answered'
  <2>1. \A p \in Prompts : launched[p] # "open" => launched'[p] # "open"
    BY <1>2
  <2> QED
    BY <1>1, <2>1 DEF Inv, Answered, Types
<1>9. LaunchAnswered'
  BY <1>2 DEF Inv, LaunchAnswered
<1>10. Apart'
  <2>1. 1..count \subseteq Prompts /\ item \in 1..count /\ 0 \notin 1..count
    BY <1>1, SchedulerAssumption DEF Inv, Known, Types, Prompts
  <2> QED
    BY <1>1, <1>2, <1>3, <2>1 DEF Inv, Apart
<1> QED
  BY <1>4, <1>5, <1>6, <1>7, <1>8, <1>9, <1>10 DEF Inv

\* The hook passes, the loop admits, and the assignment makes the prompt active.
LEMMA LaunchKeepsInv ==
  ASSUME Inv, HookPassed \/ Admitted \/ Assigned
  PROVE  Inv'
<1>0. pc \in {"hook", "admit", "assigned"} => item \in Prompts /\ active = 0
  BY DEF Inv, Types, OneSlot, Prompts
<1>1. CASE HookPassed
  <2>1. /\ UNCHANGED <<count, state, launched, completion, pending, active, steered, item,
                       steering, lost, turnOf, over>>
        /\ pc = "hook" /\ pc' = "admit"
    BY <1>1 DEF HookPassed, loopVars
  <2>2. Types' /\ OneSlot' /\ TurnOfSlot'
    BY <1>0, <2>1 DEF Inv, Types, OneSlot, TurnOfSlot
  <2>3. Known' /\ InOrder' /\ Answered' /\ LaunchAnswered' /\ SteeredIntoActive' /\ Apart'
    BY <2>1 DEF Inv, Known, InOrder, Answered, LaunchAnswered, SteeredIntoActive, Apart
  <2> QED
    BY <2>2, <2>3 DEF Inv
<1>2. CASE Admitted
  <2>1. /\ UNCHANGED <<count, state, launched, completion, pending, active, steered, item,
                       steering, lost, over>>
        /\ turnOf' = [turnOf EXCEPT ![item] = NextTurn]
        /\ pc = "admit" /\ pc' = "assigned"
    BY <1>2 DEF Admitted, Loop!AdmitTurn
  <2>2. turnOf' = [p \in Prompts |-> IF p = item THEN NextTurn ELSE turnOf[p]]
    BY <2>1 DEF Inv, Types
  <2>3. Types' /\ OneSlot'
    BY <1>0, <2>1, <2>2 DEF Inv, Types, OneSlot
  <2>4. TurnOfSlot'
    BY <1>0, <2>1, <2>2 DEF Inv, TurnOfSlot
  <2>5. Known' /\ InOrder'
    BY <2>1, <2>2 DEF Inv, Known, InOrder
  <2>6. Answered' /\ LaunchAnswered' /\ SteeredIntoActive' /\ Apart'
    BY <2>1 DEF Inv, Answered, LaunchAnswered, SteeredIntoActive, Apart
  <2> QED
    BY <2>3, <2>4, <2>5, <2>6 DEF Inv
<1>3. CASE Assigned
  <2>1. /\ UNCHANGED <<count, completion, pending, steered, steering, lost, turnOf, over>>
        /\ state' = [state EXCEPT ![item] = "running"]
        /\ launched' = [p \in Prompts |-> IF p = item /\ launched[p] = "open"
                                            THEN "turn" ELSE launched[p]]
        /\ item \in Prompts /\ active = 0 /\ active' = item /\ item' = 0
        /\ pc = "assigned" /\ pc' = "idle"
    BY <1>0, <1>3 DEF Assigned, Launch, loopVars
  <2>2. Types'
    BY <2>1 DEF Inv, Types, Prompts, States
  <2>3. OneSlot' /\ TurnOfSlot'
    BY <2>1 DEF Inv, OneSlot, TurnOfSlot, Prompts
  <2>4. Known' /\ InOrder'
    BY <2>1 DEF Inv, Known, InOrder, Prompts, Types
  <2>5. Answered' /\ LaunchAnswered'
    <3>1. \A p \in Prompts : p = item \/ launched[p] # "open" => launched'[p] # "open"
      BY <2>1
    <3> QED
      BY <2>1, <3>1 DEF Inv, Answered, LaunchAnswered, Types
  <2>6. SteeredIntoActive'
    BY <2>1 DEF Inv, SteeredIntoActive, Prompts
  <2>7. Apart'
    <3>1. 0 \notin 1..count /\ steered[item] = {}
      BY <2>1 DEF Inv, SteeredIntoActive, Prompts
    <3> QED
      BY <2>1, <3>1 DEF Inv, Apart, Prompts
  <2> QED
    BY <2>2, <2>3, <2>4, <2>5, <2>6, <2>7 DEF Inv
<1> QED
  BY <1>1, <1>2, <1>3

\* Prompts that were enqueued are prompts.
LEMMA CountBounds ==
  ASSUME Types
  PROVE  1..count \subseteq Prompts /\ 0 \notin 1..count /\ 0 \notin Prompts
BY SchedulerAssumption DEF Types, Prompts

\* settle(): the active prompt and what was steered into it come to an end.
LEMMA SettleKeepsInv ==
  ASSUME Inv, NEW r \in {"completed", "failed", "cancelled"}, Settle(r)
  PROVE  Inv'
<1> DEFINE S == {active} \cup steered[active]
<1>1. /\ active \in Prompts /\ item = 0 /\ active' = 0 /\ pc # "start"
      /\ turnOf[active] \in over
      /\ pc' = "start"
      /\ UNCHANGED <<count, launched, pending, item, steering, lost, turnOf, over>>
  BY DEF Inv, Types, OneSlot, Settle, CanRun, CallStartNext, MayStart, loopVars, Prompts
<1>2. /\ state' = [p \in Prompts |-> IF p \in S THEN r ELSE state[p]]
      /\ completion' = [p \in Prompts |-> IF p \in S THEN r ELSE completion[p]]
      /\ steered' = [steered EXCEPT ![active] = {}]
  BY DEF Settle, Complete, SettlesWith
<1>3. r # "open" /\ r \in States /\ r \in Final
  BY DEF Final, States
<1>4. Types'
  BY <1>1, <1>2, <1>3 DEF Inv, Types, Prompts
<1>5. OneSlot' /\ TurnOfSlot'
  BY <1>1 DEF Inv, OneSlot, TurnOfSlot, Prompts
<1>6. \A p \in Prompts : steered'[p] = {}
  BY <1>1, <1>2 DEF Inv, Types, SteeredIntoActive
<1>7. SteeredIntoActive' /\ Answered'
  BY <1>1, <1>6 DEF SteeredIntoActive, Answered
<1>8. S \subseteq 1..count
  BY <1>1 DEF Inv, Known, Types, Prompts
<1>9. Known'
  <2>1. \A p \in Prompts : turnOf'[p] # 0 \/ completion'[p] # "open" => p <= count'
    BY <1>1, <1>2, <1>8 DEF Inv, Known, Types, Prompts
  <2> QED
    BY <1>1, <1>6, <2>1 DEF Inv, Known, Types
<1>10. InOrder'
  BY <1>1 DEF Inv, InOrder
<1>11. LaunchAnswered'
  <2>1. \A p \in S : launched[p] # "open"
    BY <1>1, CountBounds DEF Inv, Answered
  <2> QED
    BY <1>1, <1>2, <2>1 DEF Inv, LaunchAnswered
<1>12. Apart'
  BY <1>1, <1>2, <1>3, CountBounds DEF Inv, Apart
<1> QED
  BY <1>4, <1>5, <1>7, <1>9, <1>10, <1>11, <1>12 DEF Inv

\* What is left in the queue when steer() or abort() took some prompts out.
LEMMA QueueWithout ==
  ASSUME Types, InOrder, NEW S, pending' = Without(pending, S)
  PROVE  /\ pending' \in Seq(Prompts) /\ Elems(pending') = Elems(pending) \ S
         /\ \A i, j \in DOMAIN pending' : i < j => pending'[i] < pending'[j]
<1>1. pending \in Seq(Prompts) /\ pending \in Seq(Nat)
  <2>1. pending \in Seq(Prompts) /\ Prompts \subseteq Nat
    BY DEF Types, Prompts
  <2>2. Len(pending) \in Nat /\ pending \in [1..Len(pending) -> Prompts]
    BY <2>1
  <2>3. pending \in [1..Len(pending) -> Nat]
    BY <2>1, <2>2
  <2> QED
    BY <2>1, <2>2, <2>3
<1>2. \A i, j \in DOMAIN pending : i < j => pending[i] < pending[j]
  BY DEF InOrder
<1>3. Without(pending, S) \in Seq(Prompts) /\ Elems(Without(pending, S)) = Elems(pending) \ S
  BY <1>1, WithoutElems
<1>4. LET w == Without(pending, S) IN \A i, j \in DOMAIN w : i < j => w[i] < w[j]
  BY <1>1, <1>2, WithoutAscends
<1> QED
  BY <1>3, <1>4

\* steer() takes prompts out of the queue, and keeps or loses them.
LEMMA SteerKeepsInv ==
  ASSUME Inv, NEW S \in SUBSET Elems(pending), Steer(S)
  PROVE  Inv'
<1>1. /\ UNCHANGED <<count, state, launched, completion, active, steered, item, pc, turnOf, over>>
      /\ pending' = Without(pending, S)
      /\ steering' \cup lost' = steering \cup lost \cup S
      /\ \/ steering = {} /\ steering' = S /\ lost' = lost
         \/ steering' = steering /\ lost' = lost \cup S
  BY DEF Steer, loopVars
<1>2. /\ pending' \in Seq(Prompts) /\ Elems(pending') = Elems(pending) \ S
      /\ \A i, j \in DOMAIN pending' : i < j => pending'[i] < pending'[j]
  BY <1>1, QueueWithout DEF Inv
<1>3. Types' /\ OneSlot' /\ TurnOfSlot'
  BY <1>1, <1>2 DEF Inv, Types, OneSlot, TurnOfSlot
<1>4. Known'
  BY <1>1, <1>2 DEF Inv, Known
<1>5. InOrder'
  BY <1>1, <1>2 DEF Inv, InOrder
<1>6. Answered' /\ LaunchAnswered' /\ SteeredIntoActive'
  BY <1>1 DEF Inv, Answered, LaunchAnswered, SteeredIntoActive
<1>7. Apart'
  BY <1>1, <1>2 DEF Inv, Apart
<1> QED
  BY <1>3, <1>4, <1>5, <1>6, <1>7 DEF Inv

\* The rest of steer(), with and without an active prompt.
LEMMA SteerAssignedKeepsInv ==
  ASSUME Inv, SteerAssigned
  PROVE  Inv'
<1>1. /\ UNCHANGED <<count, completion, pending, active, item, pc, turnOf, over>>
      /\ state' = [p \in Prompts |-> IF p \in steering THEN "steered" ELSE state[p]]
      /\ launched' = [p \in Prompts |-> IF p \in steering /\ launched[p] = "open"
                                          THEN "turn" ELSE launched[p]]
      /\ steering' = {}
  BY DEF SteerAssigned, Launch, loopVars
<1>2. \/ active = 0 /\ lost' = lost \cup steering /\ steered' = steered
      \/ /\ active # 0 /\ lost' = lost
         /\ steered' = [steered EXCEPT ![active] = @ \cup steering]
  BY DEF SteerAssigned
<1>3. steering \subseteq 1..count /\ steering \subseteq Prompts
  BY CountBounds DEF Inv, Known
<1>4. Types'
  <2>1. steered' \in [Prompts -> SUBSET Prompts]
    BY <1>2, <1>3 DEF Inv, Types
  <2> QED
    BY <1>1, <2>1 DEF Inv, Types, States
<1>5. OneSlot' /\ TurnOfSlot' /\ InOrder'
  BY <1>1 DEF Inv, OneSlot, TurnOfSlot, InOrder
<1>6. \A p \in Prompts : steered'[p] = IF p = active THEN steered[p] \cup steering ELSE steered[p]
  <2>1. steered \in [Prompts -> SUBSET Prompts] /\ 0 \notin Prompts
    BY CountBounds DEF Inv, Types
  <2>2. CASE active = 0
    BY <1>2, <2>1, <2>2
  <2>3. CASE active # 0
    BY <1>2, <2>1, <2>3
  <2> QED
    BY <2>2, <2>3
<1>7. Known'
  BY <1>1, <1>2, <1>3, <1>6 DEF Inv, Known
<1>8. \A p \in Prompts : p \in steering \/ launched[p] # "open" => launched'[p] # "open"
  BY <1>1
<1>9. Answered'
  <2>1. active # 0 => launched'[active] # "open"
    BY <1>8 DEF Inv, Answered, Types, Prompts
  <2>2. ASSUME NEW p \in Prompts, NEW q \in steered'[p]
        PROVE  launched'[q] # "open"
    <3>1. q \in steered[p] \/ q \in steering
      BY <1>6, <2>2
    <3>2. q \in Prompts /\ (q \in steering \/ launched[q] # "open")
      BY <1>3, <3>1 DEF Inv, Answered, Types
    <3> QED
      BY <1>8, <3>2
  <2> QED
    BY <1>1, <2>1, <2>2 DEF Answered
<1>10. LaunchAnswered'
  BY <1>1, <1>8 DEF Inv, LaunchAnswered
<1>11. SteeredIntoActive'
  BY <1>1, <1>6 DEF Inv, SteeredIntoActive
<1>12. Apart'
  <2>1. active # 0 => active \in Prompts /\ steered'[active] = steered[active] \cup steering
    <3>1. active # 0 => active \in Prompts
      BY DEF Inv, Types, Prompts
    <3> QED
      BY <1>6, <3>1
  <2> QED
    BY <1>1, <1>2, <2>1 DEF Inv, Apart
<1> QED
  BY <1>4, <1>5, <1>7, <1>9, <1>10, <1>11, <1>12 DEF Inv

\* abort() and clear() settle pending prompts.
LEMMA AbortKeepsInv ==
  ASSUME Inv, NEW S \in SUBSET Elems(pending), AbortAll(S), over \subseteq over',
         UNCHANGED <<count, active, steered, item, pc, steering, into, lost, turnOf>>
  PROVE  Inv'
<1>1. /\ pending' = Without(pending, S)
      /\ state' = [p \in Prompts |-> IF p \in S THEN "cancelled" ELSE state[p]]
      /\ completion' = [p \in Prompts |-> IF p \in S THEN "cancelled" ELSE completion[p]]
      /\ launched' = [p \in Prompts |-> IF p \in S /\ launched[p] = "open"
                                          THEN "undefined" ELSE launched[p]]
  BY DEF AbortAll, Complete, AbortLaunch, Launch
<1>2. /\ pending' \in Seq(Prompts) /\ Elems(pending') = Elems(pending) \ S
      /\ \A i, j \in DOMAIN pending' : i < j => pending'[i] < pending'[j]
  BY <1>1, QueueWithout DEF Inv
<1>3. Types'
  BY <1>1, <1>2 DEF Inv, Types, States, Final
<1>4. OneSlot' /\ TurnOfSlot' /\ SteeredIntoActive'
  BY DEF Inv, OneSlot, TurnOfSlot, SteeredIntoActive
<1>5. Known'
  BY <1>1, <1>2 DEF Inv, Known, Types, Prompts
<1>6. InOrder'
  BY <1>2 DEF Inv, InOrder
<1>7. \A p \in Prompts : p \in S \/ launched[p] # "open" => launched'[p] # "open"
  BY <1>1
<1>8. Answered'
  BY <1>7 DEF Inv, Answered, Types, Prompts
<1>9. LaunchAnswered'
  BY <1>1, <1>7 DEF Inv, LaunchAnswered
<1>10. Apart'
  BY <1>1, <1>2, CountBounds DEF Inv, Apart
<1> QED
  BY <1>3, <1>4, <1>5, <1>6, <1>8, <1>9, <1>10 DEF Inv

\* What callers do.
LEMMA CallsKeepInv ==
  ASSUME Inv, Call
  PROVE  Inv'
<1>1. CASE Enqueue
  BY <1>1, EnqueueKeepsInv
<1>2. CASE AbortActive
  <2>1. UNCHANGED promptVars /\ over \subseteq over'
    BY <1>2 DEF AbortActive, CancelActive, Loop!Withdraw
  <2> QED
    BY <2>1, OutsideKeepsInv
<1>3. CASE Clear
  <2>1. /\ AbortAll(Elems(pending)) /\ over \subseteq over'
        /\ UNCHANGED <<count, active, steered, item, pc, steering, into, lost, turnOf>>
    BY <1>3 DEF Clear, CancelActive, Loop!Withdraw
  <2> QED
    BY <2>1, AbortKeepsInv
<1>4. ASSUME NEW S \in SUBSET Elems(pending), Steer(S)
      PROVE  Inv'
  BY <1>4, SteerKeepsInv
<1>5. ASSUME NEW p \in Elems(pending), Abort(p)
      PROVE  Inv'
  <2>1. /\ AbortAll({p}) /\ over \subseteq over' /\ {p} \in SUBSET Elems(pending)
        /\ UNCHANGED <<count, active, steered, item, pc, steering, into, lost, turnOf>>
    BY <1>5 DEF Abort, loopVars
  <2> QED
    BY <2>1, AbortKeepsInv
<1>6. CASE OtherTurn \/ DisposeLoop
  <2>1. UNCHANGED promptVars /\ over \subseteq over'
    BY <1>6 DEF OtherTurn, DisposeLoop, Loop!AdmitTurn, Loop!Withdraw
  <2> QED
    BY <2>1, OutsideKeepsInv
<1>7. CASE BeginCompaction \/ CancelCompaction
  <2>1. UNCHANGED promptVars /\ over \subseteq over'
    BY <1>7 DEF BeginCompaction, CancelCompaction, loopVars
  <2> QED
    BY <2>1, OutsideKeepsInv
<1> QED
  BY <1>1, <1>2, <1>3, <1>4, <1>5, <1>6, <1>7 DEF Call

\* Every step keeps the invariant.
LEMMA StepKeepsInv ==
  ASSUME Inv, [Next]_vars
  PROVE  Inv'
<1>1. CASE Call
  BY <1>1, CallsKeepInv
<1>2. CASE StartNext
  BY <1>2, StartNextKeepsInv
<1>3. CASE Recurse \/ UNCHANGED vars
  <2>1. UNCHANGED promptVars /\ over \subseteq over'
    BY <1>3 DEF Recurse, vars, loopVars
  <2> QED
    BY <2>1, OutsideKeepsInv
<1>4. CASE Blocked \/ LaunchFails
  <2>1. \E s \in Final : LaunchEnds(s) /\ pc \in {"hook", "admit"}
    BY <1>4 DEF Blocked, LaunchFails, Final
  <2> QED
    BY <2>1, LaunchEndsKeepsInv
<1>5. CASE HookPassed \/ Admitted \/ Assigned
  BY <1>5, LaunchKeepsInv
<1>6. CASE Settling
  BY <1>6, SettleKeepsInv DEF Settling
<1>7. CASE SteerAssigned
  BY <1>7, SteerAssignedKeepsInv
<1>8. CASE LoopRuns
  <2>1. UNCHANGED promptVars /\ over \subseteq over'
    BY <1>8 DEF LoopRuns, TurnStarts, TurnEnds, Loop!StartNext, Loop!Finish
  <2> QED
    BY <2>1, OutsideKeepsInv
<1>9. CASE CompactionRuns
  <2>1. /\ CanRun /\ CallStartNext(active, item)
        /\ UNCHANGED <<count, state, launched, completion, pending, active, steered, item,
                       steering, into, lost, turnOf, loopVars>>
    BY <1>9 DEF CompactionRuns, CompactionDone, CompactionUnwound, FinishStartsNext
  <2> QED
    BY <2>1, CallKeepsInv
<1> QED
  BY <1>1, <1>2, <1>3, <1>4, <1>5, <1>6, <1>7, <1>8, <1>9 DEF Next, Launching

\* The invariant holds in every state of the scheduler.
LEMMA AlwaysInv == Spec => []Inv
<1>1. Init => Inv
  BY InitInv
<1>2. Inv /\ [Next]_vars => Inv'
  BY StepKeepsInv
<1> QED
  BY <1>1, <1>2, PTL DEF Spec

\* A set in which any two elements are equal has at most one.
LEMMA AtMostOne ==
  ASSUME NEW S, \A x, y \in S : x = y
  PROVE  Cardinality(S) <= 1
<1>1. CASE S = {}
  BY <1>1, FS_EmptySet
<1>2. CASE S # {}
  <2>1. PICK x \in S : TRUE
    BY <1>2
  <2>2. S = {x}
    BY <2>1
  <2> QED
    BY <2>2, FS_Singleton
<1> QED
  BY <1>1, <1>2

\* One at a time: no two turns of prompts are unfinished, however startNext()'s
\* calls interleave with hooks, assignments, settlements and compactions.
THEOREM OneTurn == Spec => []OneTurnAtATime
<1>1. Inv => OneTurnAtATime
  <2> SUFFICES ASSUME Inv
               PROVE  OneTurnAtATime
    OBVIOUS
  <2> DEFINE S == {p \in Prompts : turnOf[p] # 0 /\ turnOf[p] \notin over}
  <2>1. \A p \in S : p = active \/ p = item
    BY DEF Inv, TurnOfSlot
  <2>2. (active = 0 \/ item = 0) /\ 0 \notin S
    BY DEF Inv, OneSlot, Prompts
  <2>3. \A p, q \in S : p = q
    BY <2>1, <2>2
  <2> QED
    BY <2>3, AtMostOne DEF OneTurnAtATime
<1> QED
  BY <1>1, AlwaysInv, PTL

\* First come, first served: prompts get their turns in the order of enqueue().
THEOREM Fifo == Spec => []InOrder
<1>1. Inv => InOrder
  BY DEF Inv
<1> QED
  BY <1>1, AlwaysInv, PTL

\* Whoever awaits `launched' is not left waiting by a prompt that is settled.
THEOREM Answers == Spec => []LaunchAnswered
<1>1. Inv => LaunchAnswered
  BY DEF Inv
<1> QED
  BY <1>1, AlwaysInv, PTL

\* A prompt is in one place until it is settled, and in none from then on: it is
\* neither forgotten nor settled twice.
THEOREM OnePlace == Spec => []EachInOnePlace
<1>1. Inv => EachInOnePlace
  <2> SUFFICES ASSUME Inv, NEW p \in 1..count
               PROVE  Cardinality(Places(p)) = IF completion[p] = "open" THEN 1 ELSE 0
    BY DEF EachInOnePlace
  <2>1. /\ "pending" \in Places(p) <=> p \in Elems(pending)
        /\ "item" \in Places(p) <=> p = item
        /\ "active" \in Places(p) <=> p = active
        /\ "steered" \in Places(p) <=> active # 0 /\ p \in steered[active]
        /\ "steering" \in Places(p) <=> p \in steering
        /\ "lost" \in Places(p) <=> p \in lost
        /\ Places(p) \subseteq {"pending", "item", "active", "steered", "steering", "lost"}
    BY DEF Places
  <2>2. CASE completion[p] # "open"
    <3>1. Places(p) = {}
      BY <2>1, <2>2 DEF Inv, Apart
    <3> QED
      BY <2>2, <3>1, FS_EmptySet
  <2>3. CASE completion[p] = "open"
    <3>1. PICK x \in Places(p) : TRUE
      BY <2>1, <2>3 DEF Inv, Apart
    <3>2. \A y \in Places(p) : y = x
      BY <2>1, <3>1 DEF Inv, Apart
    <3>3. Places(p) = {x}
      BY <3>1, <3>2
    <3> QED
      BY <2>3, <3>3, FS_Singleton
  <2> QED
    BY <2>2, <2>3
<1> QED
  BY <1>1, AlwaysInv, PTL
=============================================================================
